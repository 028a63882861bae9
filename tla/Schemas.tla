------------------------------ MODULE Schemas -------------------------------
(* JSON Schemas and contracts: the strict compiler, the composition of a       *)
(* sheet's own schema with the contracts it implements, and the ladder on      *)
(* which a consumer verifies a sheet (validation.rs, contract.rs).             *)
(*                                                                             *)
(* A schema is a JSON value; JSON values are core values without datetimes,    *)
(* and null. The name of a contract is a sequence of symbols.                  *)
EXTENDS Codec, Templates

CONSTANT HostSymbols        \* what a host name is made of

Null == <<"null">>
JsonString(s) == Text(s)
Keys(json) == IF IsTable(json) THEN DOMAIN json[2] ELSE {}
Items(json) == IF IsArray(json) THEN ToSet(json[2]) ELSE {}

RECURSIVE ValueToJson(_)
ValueToJson(v) ==
    CASE v[1] = "datetime" -> JsonString(<<Kind(v), ToString(v[2].at), ToString(v[2].offset)>>)
      [] IsArray(v) -> <<"array", [i \in DOMAIN v[2] |-> ValueToJson(v[2][i])]>>
      [] IsTable(v) -> Table([k \in DOMAIN v[2] |-> ValueToJson(v[2][k])])
      [] OTHER -> v

\* A null key is dropped, a null element or document is an error.
RECURSIVE JsonToValue(_)
JsonToValue(j) ==
    CASE j = Null   -> Error("config_invalid")
      [] IsArray(j) -> ArrayOf([i \in DOMAIN j[2] |-> JsonToValue(j[2][i])])
      [] IsTable(j) -> TableOf([k \in {m \in DOMAIN j[2] : j[2][m] # Null} |-> JsonToValue(j[2][k])])
      [] OTHER -> j

----------------------------------------------------------------------------
(* Keywords, and where below them there are schemas *)

DataKeywords == {"$id", "$ref", "title", "default", "type", "enum", "const", "required"}

Descent(keyword) ==
    CASE keyword \in DataKeywords -> "none"
      [] keyword = "additionalProperties" -> "schema"
      [] keyword = "allOf" -> "array"
      [] keyword \in {"properties", "definitions"} -> "map"
      [] keyword = "items" -> "items"
      [] keyword = "dependencies" -> "dependencies"
      [] OTHER -> "unknown"

Subschemas(keyword, v) ==
    CASE Descent(keyword) = "schema" -> {v}
      [] Descent(keyword) = "array"  -> Items(v)
      [] Descent(keyword) = "map"    -> {v[2][k] : k \in Keys(v)}
      [] Descent(keyword) = "items"  -> IF IsArray(v) THEN Items(v) ELSE {v}
      [] Descent(keyword) = "dependencies" -> {v[2][k] : k \in {j \in Keys(v) : ~IsArray(v[2][j])}}
      [] OTHER -> {}

\* Every schema within a schema, with the one its references start from: the
\* nearest one around it that has an $id.
RECURSIVE Nodes(_, _)
Nodes(base, schema) ==
    LET b == IF "$id" \in Keys(schema) THEN schema ELSE base
    IN  IF ~IsTable(schema) THEN {}
        ELSE {<<b, schema>>} \cup
             UNION {UNION {Nodes(b, s) : s \in Subschemas(k, schema[2][k])} : k \in Keys(schema)}

\* Each keyword with its value, at any depth
WalkSchema(schema) ==
    UNION {{<<k, n[2][2][k]>> : k \in Keys(n[2])} : n \in Nodes(schema, schema)}

UnknownKeywords(schema) == {kv \in WalkSchema(schema) : Descent(kv[1]) = "unknown"}

----------------------------------------------------------------------------
(* The validator (the jsonschema crate) *)

\* A reference is <<"#", definition>>.
Target(base, ref) == Field(Field(base, "definitions"), ref[2][2])

ResolvesIn(node) ==
    "$ref" \in Keys(node[2]) => Target(node[1], node[2][2]["$ref"]) # Absent

IsNumber(j) == j[1] \in {"integer", "float"}
JsonEqual(i, j) ==
    IF IsNumber(i) /\ IsNumber(j) THEN Halves(i) = Halves(j) ELSE i[1] = j[1] /\ i = j

HasType(j, type) ==
    CASE type = <<"object">>  -> IsTable(j)
      [] type = <<"integer">> -> IsNumber(j) /\ Halves(j) % 2 = 0
      [] type = <<"number">>  -> IsNumber(j)
      [] OTHER -> type = <<j[1]>>

\* An issue: where in the record, and by which keyword of which schema
Issue(at, path) == [path |-> at, schemaPath |-> path]

RECURSIVE Issues(_, _, _, _, _)
Issues(base, schema, j, at, path) ==
    LET b == IF "$id" \in Keys(schema) THEN schema ELSE base
        kw(k) == Field(schema, k)
        has(k) == k \in Keys(schema)
        wrong(k) == {Issue(at, Append(path, k))}
        known == Keys(kw("properties"))
    IN  CASE ~IsTable(schema) -> IF schema = <<"boolean", FALSE>> THEN {Issue(at, path)} ELSE {}
          [] has("$ref") -> Issues(b, Target(b, kw("$ref")), j, at, Append(path, "$ref"))
          [] OTHER ->
               (IF has("type") /\ ~HasType(j, kw("type")[2]) THEN wrong("type") ELSE {})
          \cup (IF has("const") /\ ~JsonEqual(j, kw("const")) THEN wrong("const") ELSE {})
          \cup (IF has("enum") /\ ~\E e \in Items(kw("enum")) : JsonEqual(j, e) THEN wrong("enum") ELSE {})
          \cup (IF IsTable(j) /\ \E r \in Items(kw("required")) : r[2][1] \notin Keys(j)
                THEN wrong("required") ELSE {})
          \cup (IF IsTable(j) /\ kw("additionalProperties") = <<"boolean", FALSE>> /\ Keys(j) \ known # {}
                THEN wrong("additionalProperties") ELSE {})
          \cup UNION {Issues(b, kw("properties")[2][k], j[2][k], Append(at, k), path \o <<"properties", k>>) :
                        k \in Keys(j) \cap known}
          \cup UNION {Issues(b, kw("items"), j[2][i], Append(at, ToString(i - 1)), Append(path, "items")) :
                        i \in IF IsArray(j) /\ has("items") THEN DOMAIN j[2] ELSE {}}
          \cup UNION {Issues(b, kw("allOf")[2][i], j, at, path \o <<"allOf", ToString(i - 1)>>) :
                        i \in IF has("allOf") THEN DOMAIN kw("allOf")[2] ELSE {}}

BuildValidator(json, names) ==
    IF \E n \in Nodes(json, json) : ~ResolvesIn(n) THEN Error("config_invalid")
    ELSE <<"schema", [json |-> json, contracts |-> names]>>

\* Strict: a keyword the compiler does not know is an error.
CompileSchema(schema) ==
    LET json == ValueToJson(schema)
    IN  IF UnknownKeywords(json) # {} THEN Error("config_invalid") ELSE BuildValidator(json, <<>>)

\* The contract that an issue of a composed schema is from, by its place in allOf
ContractOf(schema, issue) ==
    LET at(i) == schema[2].contracts # <<>> /\ IsPrefix(<<"allOf", ToString(i - 1)>>, issue.schemaPath)
        from == {i \in DOMAIN schema[2].contracts : at(i)}
    IN  IF from = {} THEN NoFields ELSE schema[2].contracts[CHOOSE i \in from : TRUE]

Validate(schema, record) ==
    {[path |-> i.path, code |-> Last(i.schemaPath), contract |-> ContractOf(schema, i)] :
        i \in Issues(schema[2].json, schema[2].json, ValueToJson(record), <<>>, <<>>)}

----------------------------------------------------------------------------
(* Contracts. `vendored` has the text of each contract there is a copy of. *)

ValidHost(host) == host # <<>> /\ Range(host) \subseteq HostSymbols

ValidSegment(segment) ==
    /\ segment \notin {<<>>, <<".">>, <<"..">>}
    /\ Range(segment) \cap IllegalSymbols = {}

ValidName(name) ==
    LET segments == Names(name)
    IN  /\ name # <<>>
        /\ Last(name) # "/"
        /\ Len(segments) >= 2
        /\ ValidHost(segments[1])
        /\ \A i \in 2 .. Len(segments) : ValidSegment(segments[i])

ContractPath(name) == <<<<"contracts">>>> \o Names(name)

IdOf(name) == JsonString(<<"https://">> \o name)

SelfContained(json) == \A kv \in WalkSchema(json) : kv[1] = "$ref" => Head(kv[2][2]) = "#"

IsOpenDocument(json) ==
    \A kv \in WalkSchema(json) : kv[1] = "additionalProperties" => kv[2] # <<"boolean", FALSE>>

NullBearing(kv) ==
    CASE kv[1] = "type" -> JsonString(<<"null">>) \in {kv[2]} \cup Items(kv[2])
      [] kv[1] \in {"const", "default"} -> kv[2] = Null
      [] kv[1] = "enum" -> Null \in Items(kv[2])
      [] OTHER -> FALSE

DocumentRequirements(name, json) ==
    /\ IsTable(json)
    /\ Field(json, "$id") = IdOf(name)
    /\ SelfContained(json)
    /\ IsOpenDocument(json)
    /\ ~\E kv \in WalkSchema(json) : NullBearing(kv)

CheckContractDocument(name, json) == DocumentRequirements(name, json) /\ UnknownKeywords(json) = {}

\* The vendored text has to be what the encoder makes of it.
AsContract(name, value, text) ==
    IF /\ ~Failed(value)
       /\ SerializeToml(value)[2] = text
       /\ CheckContractDocument(name, ValueToJson(value))
    THEN ValueToJson(value)
    ELSE Error("contract_invalid")

LoadContract(vendored, name) ==
    IF name \notin DOMAIN vendored THEN Error("contract_missing")
    ELSE AsContract(name, ParseToml(vendored[name]), vendored[name])

\* A mistake: a sheet that implements contracts is not held to its own schema.
LocalSchema_Dropped(schema) == Table(NoFields)

\* Without a schema of its own, a sheet adds nothing to its contracts.
LocalSchema(schema) == IF schema = Absent THEN Table(NoFields) ELSE ValueToJson(schema)

NoSchema == <<"none">>

Compose(contracts, local, names) ==
    IF UnknownKeywords(local) # {} THEN Error("config_invalid")
    ELSE BuildValidator(Table("allOf" :> <<"array", Append(contracts, local)>>), names)

EffectiveSchema(vendored, implements, schema) ==
    CASE implements = <<>> /\ schema = Absent -> NoSchema
      [] implements = <<>> /\ schema # Absent -> CompileSchema(schema)
      [] OTHER ->
            Then(Batch([i \in DOMAIN implements |-> LoadContract(vendored, implements[i])]), LAMBDA loaded :
                Compose(loaded[2], LocalSchema(schema), implements))

----------------------------------------------------------------------------
(* Verification by a consumer, who holds a document as data, JSON or TOML *)

ResolveDocument(input) ==
    CASE input[1] = "data" -> input[2]
      [] input[1] = "toml" -> ParseToml(input[2])
      [] input[1] = "json" -> JsonToValue(input[2])

\* The hash stands for the bytes.
ContractHash(input) ==
    Then(ResolveDocument(input), SerializeToml)

NameOf(json) ==
    LET id == Field(json, "$id")
    IN  IF id[1] = "string" /\ id[2] # <<>> /\ Head(id[2]) = "https://" THEN <<"name", Tail(id[2])>>
        ELSE Error("config_invalid")

SameDocument(vendored, name, value) ==
    /\ name \in DOMAIN vendored
    /\ ContractHash(<<"toml", vendored[name]>>) = ContractHash(<<"data", value>>)

DeclaredRung(vendored, implements, name, value) ==
    name \in ToSet(implements) /\ SameDocument(vendored, name, value)

\* `records` are the sheet's records by their paths, or the error of listing them.
Structural(value, records) ==
    Then(CompileSchema(value), LAMBDA schema : Then(records, LAMBDA rs :
        IF \A r \in DOMAIN rs[2] : Validate(schema, rs[2][r]) = {} THEN <<"rung", "structural">>
        ELSE Error("contract_unsatisfied")))

VerifySheetContract(vendored, implements, records, input, mode) ==
    Then(ResolveDocument(input), LAMBDA value :
        Then(NameOf(ValueToJson(value)), LAMBDA name :
            CASE mode # "structural" /\ DeclaredRung(vendored, implements, name[2], value) -> <<"rung", "declared">>
              [] mode = "declared" /\ ~DeclaredRung(vendored, implements, name[2], value) ->
                    Error("contract_unsatisfied")
              [] OTHER -> Structural(value, records)))
=============================================================================
