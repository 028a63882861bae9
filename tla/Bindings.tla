------------------------------ MODULE Bindings -------------------------------
(* What both bindings export besides transactions: batches of records in and   *)
(* out of a tree, definition logic, queries, indexes, differences and          *)
(* contracts (record.rs, gitsheets-napi, gitsheets-py). The two do the same    *)
(* but for how they carry values over.                                         *)
EXTENDS Diffs

----------------------------------------------------------------------------
(* Batches over a tree. Null stands for a record that is not there. *)

\* To each of a batch, unless it failed
Each(batch, Op(_)) == Then(batch, LAMBDA b : Batch([i \in DOMAIN b[2] |-> Op(b[2][i])]))

ReadRecords(files, paths, ext) ==
    LET read(f) == IF f \in DOMAIN files THEN ParseToml(files[f]) ELSE Null
    IN  Batch([i \in DOMAIN paths |-> read(FileOf(paths[i], ext))])

\* Later items of a batch overwrite earlier ones.
WriteRecords(files, paths, values, ext) ==
    Then(SerializeBatch(values), LAMBDA texts :
        <<"files", FoldLeft(LAMBDA fs, i : Put(fs, FileOf(paths[i], ext), texts[2][i][2]),
                            files, [i \in DOMAIN paths |-> i])>>)

DeleteRecords(files, paths, ext) ==
    LET gone == {FileOf(p, ext) : p \in Range(paths)}
    IN  [files   |-> Restrict(files, DOMAIN files \ gone),
         existed |-> [i \in DOMAIN paths |-> /\ FileOf(paths[i], ext) \in DOMAIN files
                                             /\ \A j \in 1 .. i - 1 : paths[j] # paths[i]]]

ListRecords(files, ext) ==
    LET texts == RecordTexts(files, ext)
    IN  Whole("records", [r \in DOMAIN texts |-> ParseToml(texts[r])])

RenderPaths(source, values) ==
    Then(Compile(source), LAMBDA template :
        Batch([i \in DOMAIN values |-> Render(template[2], values[i])]))

ValidateAll(schema, values) ==
    Then(CompileSchema(schema), LAMBDA compiled :
        <<"issues", [i \in DOMAIN values |-> Validate(compiled, values[i])]>>)

DiffRecords(src, dst, ext, moves) ==
    Whole("diffs", [c \in DiffRecordChanges(src, dst, ext, moves) |-> DiffRecord(src, dst, ext, c)])

QueryTree(files, source, filter, ext) ==
    Then(Compile(source), LAMBDA template :
        Then(filter, LAMBDA clauses :
            QueryRecords(files, template[2], clauses, ext)))

QueryCandidates(files, source, query, ext) ==
    Then(query, LAMBDA v :
        Then(Compile(source), LAMBDA template : CandidatePaths(files, template[2], v, ext)))

\* The record with each of the keys
LookupUnique(files, def, keys, ext) ==
    Then(ListRecords(files, ext), LAMBDA rs :
        Then(BuildUnique(def, rs[2]), LAMBDA index :
            Batch([i \in DOMAIN keys |->
                IF keys[i] \in DOMAIN index[2] THEN rs[2][index[2][keys[i]]] ELSE Null])))

\* The records with each of the keys
LookupMulti(files, def, keys, ext) ==
    Then(ListRecords(files, ext), LAMBDA rs :
        LET index == BuildMulti(def, rs[2])
            under(key) == IF key \in DOMAIN index THEN index[key] ELSE {}
        IN  Batch([i \in DOMAIN keys |-> <<"records", Restrict(rs[2], under(keys[i]))>>]))

TemplateNames(source) == Then(Compile(source), LAMBDA template : <<"names", FieldNames(template[2])>>)

----------------------------------------------------------------------------
(* Node *)

JsOrNull(v) == IF v = Null THEN Null ELSE ToJs(v)
FromJsOrNull(h) == IF IsNull(h) THEN Null ELSE FromJs(h)

NodeRoundtrip(hs) == Each(AllFromJs(hs), ToJs)
NodeParseRecords(texts) == Each(ParseBatch(texts), ToJs)
NodeSerializeRecords(hs) == Then(AllFromJs(hs), LAMBDA vs : SerializeBatch(vs[2]))
NodeRenderPaths(source, hs) == Then(AllFromJs(hs), LAMBDA vs : RenderPaths(source, vs[2]))
NodeFieldNames(source) == TemplateNames(source)

NodeValidateBatch(schema, hs) ==
    Then(FromJs(schema), LAMBDA s : Then(AllFromJs(hs), LAMBDA vs : ValidateAll(s, vs[2])))

NodeRecordRead(files, paths, ext) == Each(ReadRecords(files, paths, ext), JsOrNull)

NodeRecordWrite(files, paths, hs, ext) ==
    Then(AllFromJs(hs), LAMBDA vs :
        IF Len(paths) # Len(hs) THEN Error("InvalidArg") ELSE WriteRecords(files, paths, vs[2], ext))

NodeRecordDelete(files, paths, ext) == DeleteRecords(files, paths, ext)

NodeRecordList(files, ext) ==
    Then(ListRecords(files, ext), LAMBDA rs : <<"records", [r \in DOMAIN rs[2] |-> ToJs(rs[2][r])]>>)

NodeRecordQuery(files, source, h, ext) == QueryTree(files, source, JsClause(h), ext)
NodeQueryCandidates(files, source, h, ext) == QueryCandidates(files, source, FromJs(h), ext)

NodeIndexUnique(files, def, keys, ext) == Each(LookupUnique(files, def, keys, ext), JsOrNull)

NodeIndexMulti(files, def, keys, ext) ==
    Each(LookupMulti(files, def, keys, ext), LAMBDA rs : <<"records", [r \in DOMAIN rs[2] |-> ToJs(rs[2][r])]>>)

\* A removal has no value.
JsOperation(o) == [o EXCEPT !.value = IF @ = Absent THEN Absent ELSE JsOrNull(@)]
JsDiff(d) ==
    [change |-> d[2].change, src |-> JsOrNull(d[2].src), dst |-> JsOrNull(d[2].dst),
     patch |-> [i \in DOMAIN d[2].patch |-> JsOperation(d[2].patch[i])]]

NodeCreatePatch(src, dst) ==
    Then(FromJsOrNull(src), LAMBDA s : Then(FromJsOrNull(dst), LAMBDA d :
        <<"patch", [i \in DOMAIN CreatePatch(s, d) |-> JsOperation(CreatePatch(s, d)[i])]>>))

NodeMergePatch(target, patch) ==
    Then(FromJsOrNull(target), LAMBDA t : Then(JsPatch(patch), LAMBDA p :
        IF p = Delete THEN Null ELSE ToJs(ApplyMergePatch(t, p))))

NodeDiffRecords(src, dst, ext, moves) ==
    Then(DiffRecords(src, dst, ext, moves), LAMBDA diffs : <<"diffs", {JsDiff(d) : d \in Range(diffs[2])}>>)

NodeContractHash(input) ==
    IF input[1] = "data"
    THEN Then(FromJs(input[2]), LAMBDA v : ContractHash(<<"data", v>>)) ELSE ContractHash(input)

NodeContractName(name) == IF ValidName(name) THEN <<"name", name>> ELSE Error("config_invalid")

\* A null in JSON text is seen, in an object it is dropped before the check.
DocumentToJson(input) ==
    CASE input[1] = "data" -> Then(FromJs(input[2]), LAMBDA v : ValueToJson(v))
      [] input[1] = "toml" -> Then(ParseToml(input[2]), LAMBDA v : ValueToJson(v))
      [] input[1] = "json" -> input[2]

NodeCheckDocument(name, input) ==
    Then(DocumentToJson(input), LAMBDA json :
        IF CheckContractDocument(name, json) THEN json ELSE Error("contract_invalid"))

NodeContractLoad(vendored, name) == LoadContract(vendored, name)

\* The sheet is opened first, so what it implements has to be there.
NodeVerifyContract(vendored, raw, files, input, mode) ==
    Then(OpenSheet(vendored, raw), LAMBDA sheet :
        VerifySheetContract(vendored, sheet[2].implements, ListAll(sheet[2], files, TRUE), input, mode))

NodeExtractH1(text) == LET h1 == FirstH1(Lines(text)) IN IF h1 = Absent THEN Null ELSE h1
NodeRewriteH1(text, title) == Text(Unlines(RewriteLeadingH1(Lines(text), title)))

----------------------------------------------------------------------------
(* Python *)

PyOrNone(v) == IF v = Null THEN <<"None">> ELSE ToPy(v)
FromPyOrNone(h) == IF IsNull(h) THEN Null ELSE FromPy(h)

PyRoundtrip(hs) == Each(AllFromPy(hs), ToPy)
PyParseRecords(texts) == Each(ParseBatch(texts), ToPy)
PySerializeRecords(hs) == Then(AllFromPy(hs), LAMBDA vs : SerializeBatch(vs[2]))
PyRenderPaths(source, hs) == Then(AllFromPy(hs), LAMBDA vs : RenderPaths(source, vs[2]))
PyFieldNames(source) == TemplateNames(source)

PyValidateBatch(schema, hs) ==
    Then(FromPy(schema), LAMBDA s : Then(AllFromPy(hs), LAMBDA vs : ValidateAll(s, vs[2])))

PyRecordRead(files, paths, ext) == Each(ReadRecords(files, paths, ext), PyOrNone)

PyRecordWrite(files, paths, hs, ext) ==
    Then(AllFromPy(hs), LAMBDA vs :
        IF Len(paths) # Len(hs) THEN Error("ValueError") ELSE WriteRecords(files, paths, vs[2], ext))

PyRecordDelete(files, paths, ext) == DeleteRecords(files, paths, ext)

PyRecordList(files, ext) ==
    Then(ListRecords(files, ext), LAMBDA rs : <<"records", [r \in DOMAIN rs[2] |-> ToPy(rs[2][r])]>>)

PyRecordQuery(files, source, h, ext) == QueryTree(files, source, PyClause(h), ext)
PyQueryCandidates(files, source, h, ext) == QueryCandidates(files, source, FromPy(h), ext)

PyIndexUnique(files, def, keys, ext) == Each(LookupUnique(files, def, keys, ext), PyOrNone)

PyIndexMulti(files, def, keys, ext) ==
    Each(LookupMulti(files, def, keys, ext), LAMBDA rs : <<"records", [r \in DOMAIN rs[2] |-> ToPy(rs[2][r])]>>)

\* A removal has no value.
PyOperation(o) == [o EXCEPT !.value = IF @ = Absent THEN Absent ELSE PyOrNone(@)]
PyDiff(d) ==
    [change |-> d[2].change, src |-> PyOrNone(d[2].src), dst |-> PyOrNone(d[2].dst),
     patch |-> [i \in DOMAIN d[2].patch |-> PyOperation(d[2].patch[i])]]

PyCreatePatch(src, dst) ==
    Then(FromPyOrNone(src), LAMBDA s : Then(FromPyOrNone(dst), LAMBDA d :
        <<"patch", [i \in DOMAIN CreatePatch(s, d) |-> PyOperation(CreatePatch(s, d)[i])]>>))

PyMergePatch(target, patch) ==
    Then(FromPyOrNone(target), LAMBDA t : Then(PyPatch(patch), LAMBDA p :
        IF p = Delete THEN <<"None">> ELSE ToPy(ApplyMergePatch(t, p))))

PyDiffRecords(src, dst, ext, moves) ==
    Then(DiffRecords(src, dst, ext, moves), LAMBDA diffs : <<"diffs", {PyDiff(d) : d \in Range(diffs[2])}>>)

PyContractHash(input) ==
    IF input[1] = "data"
    THEN Then(FromPy(input[2]), LAMBDA v : ContractHash(<<"data", v>>)) ELSE ContractHash(input)
=============================================================================
