------------------------------ MODULE Records -------------------------------
(* One sheet over its life: clients of the Rust core, the Node and the Python  *)
(* binding write records to it, callers write below it without its rules, its  *)
(* definition is edited by hand, contracts are adopted and pruned. Each step   *)
(* is one call that ends in a commit; how calls meet is the matter of          *)
(* CoreTransaction, WriteLock and Session.                                     *)
EXTENDS Bindings, Upserts

CONSTANTS
    Definitions,    \* the definitions the sheet is given, Absent for none
    Vendorings,     \* the contract documents there may be at first
    JsRecords, PyRecords, CoreRecords, JsPatches,   \* what clients hand in
    RawWrites, RawDeletes,      \* batches of <<paths, records>>, and of paths
    HandEdits,      \* pairs of a path and a text
    Documents,      \* documents there are to adopt, and that consumers hold
    JsFilters,      \* what is asked for
    MaxSteps

VARIABLES
    definition,     \* as it is in .gitsheets, or Absent
    vendored,       \* the text of each contract in .gitsheets/contracts
    since,          \* the files at the commit that clients compare with
    last,           \* what the last step wrote or adopted
    steps

vars == <<definition, vendored, opened, files, since, author, last, steps>>

Source == Field(Field(definition, "gitsheet"), "path")[2]
OwnSchema == Field(Field(definition, "gitsheet"), "schema")

Nothing == <<"nothing">>
Step == steps < MaxSteps /\ steps' = steps + 1

Init ==
    /\ definition \in Definitions
    /\ vendored \in Vendorings
    /\ opened = OpenSheet(vendored, definition)
    /\ files = <<>> /\ since = <<>> /\ author = <<>>
    /\ last = Nothing
    /\ steps = 0

----------------------------------------------------------------------------
(* Writes through the sheet: all that is refused changes nothing. *)

Upsert(who, record, defs, previous, allowMissingBody) ==
    LET prepared == Prepared(record, defs, previous, allowMissingBody)
    IN  /\ Step
        /\ StageUpsert(who, prepared)
        /\ last' = <<"wrote", record, StemsOf(prepared[2].path)>>
        /\ UNCHANGED <<definition, vendored, opened, since>>

NodeUpsert(h) == Upsert("node", FromJs(h), <<>>, <<>>, FALSE)
PyUpsert(h, previous) == Upsert("python", FromPy(h), <<>>, previous, FALSE)
CoreUpsert(v) == Upsert("rust", v, Indexes, <<>>, FALSE)

\* A patch of the title alone goes into the body, one of the body alone takes
\* the title along.
Reconciled(format, merged, patch) ==
    LET given(k) == k \in DOMAIN patch[2]
        title == Field(merged, format.title)
        body  == Field(merged, format.body)
        text  == IF body[1] = "string" THEN body[2] ELSE <<>>
        h1    == NodeExtractH1(text)
    IN  CASE format.title = "" -> merged
          [] format.title # "" /\ given(format.title) /\ ~given(format.body) /\ title[1] = "string" ->
                With(merged, format.body, NodeRewriteH1(text, title[2]))
          [] format.title # "" /\ given(format.body) /\ ~given(format.title) ->
                IF h1 = Null THEN WithoutKey(merged, format.title) ELSE With(merged, format.title, h1)
          [] OTHER -> merged

NodePatch(r, patch) ==
    /\ ~Failed(opened)
    /\ r \in DOMAIN RecordTexts(files, Ext)
    /\ LET existing == Parse(files[FileAt(r, Sheet)], Sheet.format)
           merged == Then(existing, LAMBDA v :
                        Then(NodeMergePatch(ToJs(v), patch), LAMBDA h : FromJs(h)))
       IN  Upsert("node", Then(merged, LAMBDA v : Reconciled(Sheet.format, v, patch)), <<>>, r, TRUE)

DeleteRecord(r) ==
    /\ Step
    /\ DeleteAtPath(r)
    /\ last' = Nothing
    /\ UNCHANGED <<definition, vendored, opened, since>>

----------------------------------------------------------------------------
(* Writes past the sheet *)

RawWrite(batch) ==
    LET after == NodeRecordWrite(files, batch[1], batch[2], "toml")
    IN  /\ Step
        /\ ~Failed(after)
        /\ Store(after[2], {FileOf(p, "toml") : p \in Range(batch[1])}, "raw")
        /\ last' = Nothing
        /\ UNCHANGED <<definition, vendored, opened, since>>

RawDelete(paths) ==
    LET after == NodeRecordDelete(files, paths, "toml")
    IN  /\ Step
        /\ TRUE \in Range(after.existed)
        /\ Store(after.files, {}, "")
        /\ last' = Nothing
        /\ UNCHANGED <<definition, vendored, opened, since>>

HandEdit(edit) ==
    /\ Step
    /\ Store(Put(files, FileOf(edit[1], "toml"), edit[2]), {FileOf(edit[1], "toml")}, "raw")
    /\ last' = Nothing
    /\ UNCHANGED <<definition, vendored, opened, since>>

\* Files written before are as they are, under whatever definition they were.
Outdate == author' = [f \in DOMAIN author |-> IF author[f] = "raw" THEN "raw" ELSE "old"]

Declare(d) ==
    /\ Step
    /\ d # definition
    /\ definition' = d
    /\ opened' = OpenSheet(vendored, d)
    /\ Outdate
    /\ last' = Nothing
    /\ UNCHANGED <<vendored, files, since>>

Mark ==
    /\ since # files
    /\ since' = files
    /\ last' = Nothing
    /\ UNCHANGED <<definition, vendored, opened, files, author, steps>>

----------------------------------------------------------------------------
(* contracts adopt, contracts prune *)

\* The gate holds all records against the schema that the sheet would have.
PassesGate(document) ==
    LET contracts == [i \in DOMAIN Sheet.implements |-> NodeContractLoad(vendored, Sheet.implements[i])]
        schema == Table("allOf" :> <<"array", contracts \o <<document, LocalSchema(OwnSchema)>> >>)
        records == ListAll(Sheet, files, TRUE)
        hosts  == {ToJs(records[2][r]) : r \in DOMAIN records[2]}
        judged == NodeValidateBatch(ToJs(schema), SetToSeq(hosts))
    IN  /\ ~Failed(opened) /\ ~Failed(records)
        /\ hosts # {} => ~Failed(judged) /\ Range(judged[2]) = {{}}

\* The name is the document's; what is there under the name is overwritten.
Adopt(input, gated) ==
    LET document == ResolveDocument(input)
        name == NameOf(document)
    IN  /\ Step
        /\ ~Failed(document) /\ ~Failed(name)
        /\ ~Failed(NodeContractName(name[2]))
        /\ ~Failed(NodeCheckDocument(name[2], input))
        /\ gated => PassesGate(document)
        /\ vendored' = Put(vendored, name[2], SerializeToml(document)[2])
        /\ opened' = OpenSheet(vendored', definition)
        /\ IF ~Failed(opened) /\ name[2] \in ToSet(Sheet.implements) THEN Outdate ELSE UNCHANGED author
        /\ last' = IF gated THEN <<"adopted", name[2]>> ELSE Nothing
        /\ UNCHANGED <<definition, files, since>>

ConfigFiles ==
    {FileOf(ContractPath(name), "toml") : name \in DOMAIN vendored} \cup
    (IF definition = Absent THEN {} ELSE {FileOf(<<"sheet">>, "toml")})

\* What no sheet implements goes; a definition that does not open stops it.
Prune ==
    LET sheets   == DiscoverSheets(ConfigFiles)
        declared == UNION {ToSet(Sheet.implements) : s \in sheets}
    IN  /\ Step
        /\ sheets # {} => ~Failed(opened)
        /\ DOMAIN vendored \ declared # {}
        /\ vendored' = Restrict(vendored, DOMAIN vendored \cap declared)
        /\ opened' = OpenSheet(vendored', definition)
        /\ last' = Nothing
        /\ UNCHANGED <<definition, files, since, author>>

Paths == {StemsOf(f) : f \in DOMAIN files}

Next ==
    \/ \E h \in JsRecords : NodeUpsert(h)
    \/ \E h \in PyRecords, previous \in Paths \cup {<<>>} : PyUpsert(h, previous)
    \/ \E v \in CoreRecords : CoreUpsert(v)
    \/ \E r \in Paths, patch \in JsPatches : NodePatch(r, patch)
    \/ \E r \in Paths : DeleteRecord(r)
    \/ \E batch \in RawWrites : RawWrite(batch)
    \/ \E paths \in RawDeletes : RawDelete(paths)
    \/ \E edit \in HandEdits : HandEdit(edit)
    \/ \E d \in Definitions : Declare(d)
    \/ Mark
    \/ \E input \in Documents, gated \in BOOLEAN : Adopt(input, gated)
    \/ Prune

Spec == Init /\ [][Next]_vars

----------------------------------------------------------------------------
(* What is read back *)

\* As JavaScript has it: without a difference between 1.0 and 1, and with all
\* points in time as instants, to the millisecond
AsInJs(v) == IF v = Null THEN Null ELSE FromJs(ToJs(v))

\* What every binding carries without a loss
RECURSIVE Plain(_)
Plain(v) ==
    CASE v[1] = "float"    -> FALSE
      [] v[1] = "datetime" -> FromMillis(ToMillis(v)) = v
      [] v[1] \in {"array", "table"} -> \A k \in DOMAIN v[2] : Plain(v[2][k])
      [] OTHER -> TRUE

\* The lines of a body but for the blank ones around it
Content(body) ==
    LET ls == Lines(body[2])
    IN  Reverse(WithoutLeading(Reverse(WithoutLeading(
            IF Sheet.format.normalize THEN NormalizeBody(ls) ELSE ls))))

KeptBody(before, after) ==
    LET given == Field(before, Sheet.format.body)
        body  == Field(after, Sheet.format.body)
    IN  /\ Content(body) = (IF given = Absent THEN <<>> ELSE Content(given))
        /\ Sheet.format.title # "" => Field(after, Sheet.format.title) = FirstH1(Lines(body[2]))

\* A line of a string in the frontmatter that reads like the end of it
CutShort(v) == \E k \in DOMAIN v[2] \ {Sheet.format.body} :
                  IsMultiline(v[2][k]) /\ Fence \in Range(Front(Lines(v[2][k][2])))

\* A record that is written can be read, and reads as what was handed in: every
\* field as it was, the arrays that have a rule in its order, the body with its
\* content, and the title as the body as it was stored has it. The codec adds
\* nothing else. (prepare_upsert: normalize_record, then serialize_markdown
\* takes the title from the body; a string with a +++ line is not read back.)
ReadsBackAsWritten ==
    last[1] = "wrote" =>
        LET given == last[2]
            read  == Stored(last[3])
        IN  IsToml \/ ~CutShort(given) =>
                /\ IsTable(read)
                /\ \A k \in DOMAIN given[2] \ {Sheet.format.body} :
                      k \in DOMAIN read[2] /\ KeptField(k, given[2][k], read[2][k])
                /\ DOMAIN read[2] \ DOMAIN given[2] \subseteq {Sheet.format.body, Sheet.format.title}
                /\ ~IsToml => KeptBody(given, read)

\* A record that any client has written stays where it is when a client of
\* either binding reads it and writes it back, and the bindings' path of it is
\* where it lies. Its text stays too if its values cross the binding as they
\* are and its body is not verbatim. (Buckets take the date in UTC, the form
\* in which datetimes come back from both bindings: date_from_toml_datetime.)
StaysAtItsPath ==
    ~Failed(opened) /\ (IsToml \/ Sheet.schema = NoSchema) =>
        \A r \in {q \in Listed : Managed(q)} :
            LET v == Stored(r)
                again(w) == PrepareUpsert(w, <<>>, r, FALSE)
                place == Batch(<< <<"path", r>> >>)
            IN  /\ \A w \in {FromJs(ToJs(v)), FromPy(ToPy(v))} :
                      /\ ~Failed(again(w))
                      /\ StemsOf(again(w)[2].path) = r
                      /\ Plain(v) /\ Sheet.format.normalize => again(w)[2].text = files[FileAt(r, Sheet)]
                /\ NodeRenderPaths(Source, <<ToJs(v)>>) = place
                /\ PyRenderPaths(Source, <<ToPy(v)>>) = place

----------------------------------------------------------------------------
(* Queries, lookups and keys *)

\* As far as readers can rely on them the steps are those of SheetFiles.
SheetSteps == INSTANCE SheetFiles WITH
    source <- IF Failed(opened) THEN <<>> ELSE Source

\* Every call does to the files what SheetFiles allows: a record that a client
\* writes through the sheet can be read, lies where the template puts what is
\* read, and takes no key of a unique index if the client is the core's; no other
\* file changes, but for those that go; a new definition finds nothing of its
\* own. (prepare_upsert, stage_upsert, delete_at_path, record_write.)
ImplementsFiles == SheetSteps!Spec

----------------------------------------------------------------------------
(* Differences *)

\* RFC 6902. A place in an array is the number of the items before it.
PlaceIn(a, token) == IF token = "-" THEN Len(a) ELSE CHOOSE n \in 0 .. Len(a) : ToString(n) = token

RECURSIVE Applied(_, _, _)
Applied(v, path, o) ==
    LET token == Head(path)
        at == PlaceIn(v[2], token)
        leaf == Len(path) = 1
    IN  CASE path = <<>> -> o.value
          [] path # <<>> /\ IsTable(v) /\ leaf /\ o.op = "remove" -> WithoutKey(v, token)
          [] path # <<>> /\ IsTable(v) /\ ~(leaf /\ o.op = "remove") ->
                With(v, token, Applied(Field(v, token), Tail(path), o))
          [] path # <<>> /\ IsArray(v) /\ leaf /\ o.op = "add" -> <<"array", InsertAt(v[2], at + 1, o.value)>>
          [] path # <<>> /\ IsArray(v) /\ leaf /\ o.op = "remove" -> <<"array", RemoveAt(v[2], at + 1)>>
          [] OTHER -> <<"array", SubSeq(v[2], 1, at) \o <<Applied(v[2][at + 1], Tail(path), o)>>
                                 \o SubSeq(v[2], at + 2, Len(v[2]))>>

Patched(v, patch) == FoldLeft(LAMBDA w, o : Applied(w, o.path, o), v, patch)

\* The pairs git may take for renames
Moves ==
    LET gone == RecordFiles(since, Ext) \ RecordFiles(files, Ext)
        new  == RecordFiles(files, Ext) \ RecordFiles(since, Ext)
    IN  {m \in SUBSET (gone \X new) : \A p, q \in m : (p[1] = q[1]) = (p[2] = q[2])}

Rebuilt(diffs) ==
    LET kept == RecordFiles(since, Ext) \ {SrcPath(d[2].change) : d \in {e \in diffs : e[2].change.src}}
        came == {d \in diffs : d[2].change.dst}
    IN  [r \in {d[2].change.path : d \in came} |->
            LET d == CHOOSE e \in came : e[2].change.path = r IN Patched(d[2].src, d[2].patch)]
        @@ [r \in kept |-> ParseToml(since[FileOf(r, Ext)])]

\* Whatever pairs git finds alike, the patches of the records' differences made
\* from the one tree lead to the records of the other. (diff_records with
\* diff_arrays' edit script: places move with each edit that is made, and the
\* memo of dist mixes up two entries, which may cost edits but no truth.)
DiffRebuilds ==
    IsToml =>
        \A moves \in Moves :
            LET diffs == DiffRecords(since, files, Ext, moves)
                result == Rebuilt(Range(diffs[2]))
                readable == \A r \in RecordFiles(since, Ext) : IsTable(ParseToml(since[FileOf(r, Ext)]))
            IN  ~Failed(diffs) /\ readable =>
                    /\ DOMAIN result = Listed
                    /\ \A r \in Listed : AsInJs(result[r]) = AsInJs(Stored(r))

----------------------------------------------------------------------------
(* Contracts *)

ConformTo(schema, r) == ~Failed(schema) /\ Validate(schema, Stored(r)) = {}

\* The definition with one more contract
Implementing(name) ==
    LET gitsheet == Field(definition, "gitsheet")
        names == IF Field(gitsheet, "implements") = Absent THEN <<>> ELSE Field(gitsheet, "implements")[2]
    IN  With(definition, "gitsheet", With(gitsheet, "implements", <<"array", Append(names, Text(name))>>))

\* What clients have written conforms to each contract of the sheet alone and
\* to the sheet's own schema alone; a consumer whom the short way assures that
\* the sheet declares the contract would find every record in order the long
\* way. After an adoption that the gate let pass, the sheet with the contract
\* in its definition opens, and its records conform. (compile_effective_schema,
\* verify_sheet_contract, contracts adopt; in markdown the codec adds fields
\* after the check, and what was written before or past the sheet is not held.)
ContractsHold ==
    IsToml =>
        /\ \A r \in {q \in Listed : Managed(q)} :
              /\ \A name \in ToSet(Sheet.implements) : ConformTo(CompileSchema(LoadContract(vendored, name)), r)
              /\ OwnSchema # Absent => ConformTo(CompileSchema(OwnSchema), r)
        /\ AllManaged => \A input \in Documents :
              LET verify(mode) == NodeVerifyContract(vendored, definition, files, input, mode)
              IN  verify("declared") = <<"rung", "declared">> => verify("structural") = <<"rung", "structural">>
        /\ last[1] = "adopted" /\ Listed # {} =>
              LET sheet == OpenSheet(vendored, Implementing(last[2]))
              IN  ~Failed(sheet) /\ \A r \in Listed : Conforms(sheet[2], Stored(r))

----------------------------------------------------------------------------
(* The bindings among each other *)

SameRecord(js, py) == AsInJs(FromJsOrNull(js)) = AsInJs(FromPyOrNone(py))

SamePatch(js, py) ==
    /\ Len(js) = Len(py)
    /\ \A i \in DOMAIN js : /\ js[i].op = py[i].op /\ js[i].path = py[i].path
                            /\ js[i].op # "remove" => SameRecord(js[i].value, py[i].value)

SameDiff(js, py) ==
    /\ js.change = py.change
    /\ SameRecord(js.src, py.src) /\ SameRecord(js.dst, py.dst)
    /\ SamePatch(js.patch, py.patch)

\* A host value of JavaScript as one of Python
RECURSIVE AsPy(_)
AsPy(h) ==
    CASE IsNull(h) -> <<"None">>
      [] h[1] = "object" -> <<"dict", [k \in DOMAIN h[2] |-> AsPy(h[2][k])]>>
      [] OTHER -> ToPy(FromJs(h))

\* What the core finds; candidates are asked for with the values themselves.
SameQuery(h) ==
    LET found == QueryRecords(files, Sheet.template, JsClause(h), Ext)
        candidates == NodeQueryCandidates(files, Source, h, Ext)
    IN  /\ NodeRecordQuery(files, Source, h, Ext) = found
        /\ PyRecordQuery(files, Source, AsPy(h), Ext) = found
        /\ PyQueryCandidates(files, Source, AsPy(h), Ext) = candidates
        /\ AllManaged /\ NoneBeneath /\ ~Failed(found) => found[2] \subseteq candidates[2]

SameLookup(def, key) ==
    LET having == Restrict([r \in Listed |-> Stored(r)], Having(def, key))
        js  == NodeIndexMulti(files, def, <<key>>, Ext)[2][1][2]
        py  == PyIndexMulti(files, def, <<key>>, Ext)[2][1][2]
        one == NodeIndexUnique(files, def, <<key>>, Ext)
    IN  key # Absent =>
            /\ js = [r \in DOMAIN having |-> ToJs(having[r])]
            /\ py = [r \in DOMAIN having |-> ToPy(having[r])]
            /\ ~Failed(one) => /\ one[2][1] \in Range(js)
                               /\ PyIndexUnique(files, def, <<key>>, Ext)[2][1] \in Range(py)

\* Node and Python read the same from a tree, but for 1.0 and 1: records one by
\* one, listed, by query and by key, differences with their patches, merged
\* patches, issues and contract hashes; and a record that both carry without a loss is written by
\* both as the same text, the one the core makes of it. (The marshalling of
\* gitsheets-napi and gitsheets-py, which the conformance corpus samples.)
BindingsAgree ==
    IsToml /\ (\A r \in Listed : IsTable(Stored(r))) =>
        /\ \A r \in Listed :
              LET v == Stored(r)
                  js == NodeRecordRead(files, <<r>>, Ext)[2][1]
                  py == PyRecordRead(files, <<r>>, Ext)[2][1]
                  text == files[FileAt(r, Sheet)]
              IN  /\ SameRecord(js, py)
                  /\ NodeParseRecords(<<text>>) = NodeRoundtrip(<<js>>)
                  /\ PyParseRecords(<<text>>) = PyRoundtrip(<<py>>)
                  /\ SameRecord(NodeRecordList(files, Ext)[2][r], PyRecordList(files, Ext)[2][r])
                  /\ Plain(v) =>
                        /\ NodeSerializeRecords(<<js>>) = Batch(<<SerializeToml(v)>>)
                        /\ PySerializeRecords(<<py>>) = Batch(<<SerializeToml(v)>>)
                        /\ NodeRecordWrite(files, <<r>>, <<js>>, Ext) = PyRecordWrite(files, <<r>>, <<py>>, Ext)
                  /\ \A p \in JsPatches : SameRecord(NodeMergePatch(js, p), PyMergePatch(py, AsPy(p)))
                  /\ \A q \in Listed :
                        SamePatch(NodeCreatePatch(js, ToJs(Stored(q)))[2], PyCreatePatch(py, ToPy(Stored(q)))[2])
                  /\ \A d \in Documents :
                        LET doc == ResolveDocument(d)
                        IN  ~Failed(doc) =>
                                /\ NodeValidateBatch(ToJs(doc), <<js>>) = PyValidateBatch(ToPy(doc), <<py>>)
                                /\ NodeContractHash(<<"data", ToJs(doc)>>) = PyContractHash(<<"data", ToPy(doc)>>)
        /\ \A h \in JsFilters : SameQuery(h)
        /\ \A def \in Range(Indexes) : \A r \in Listed : SameLookup(def, KeyFor(def, Stored(r)))
        /\ LET js == NodeDiffRecords(since, files, Ext, {})
               py == PyDiffRecords(since, files, Ext, {})
           IN  /\ Failed(js) = Failed(py)
               /\ ~Failed(js) => \A d \in js[2] : \E e \in py[2] : SameDiff(d, e)
        /\ NodeFieldNames(Source) = PyFieldNames(Source)
        /\ NodeRecordDelete(files, SetToSeq(Listed), Ext) = PyRecordDelete(files, SetToSeq(Listed), Ext)
=============================================================================
