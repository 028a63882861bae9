------------------------------- MODULE Sheets --------------------------------
(* A sheet of the core: its definition, and what its scripts and its schema    *)
(* make of values (config.rs, sheet.rs, collator.rs).                          *)
(*                                                                             *)
(* The text of a path template in a definition is the sequence of its tokens.  *)
EXTENDS CoreIndexes, Filters, Schemas

----------------------------------------------------------------------------
(* The definition *)

NameIn(v) == IF v[1] = "string" THEN Head(v[2]) ELSE ""

ParseFormat(raw) ==
    LET type == Field(raw, "type")
        kind == IF type[1] = "string" THEN NameIn(type) ELSE "toml"
        normalize == Field(raw, "normalize")
    IN  IF \/ raw # Absent /\ ~IsTable(raw)
           \/ kind \notin {"toml", "markdown", "mdx"}
           \/ normalize[1] \notin {"absent", "boolean"}
        THEN Error("config_invalid")
        ELSE <<"format", [kind |-> kind, body |-> NameIn(Field(raw, "body")),
                          title |-> NameIn(Field(raw, "title")),
                          normalize |-> normalize # <<"boolean", FALSE>>]>>

\* Directives are the fields to compare by, each with its sign; those of a table
\* come in its canonical order, whatever order they are written in.
ParseSortRule(sort) ==
    CASE sort[1] = "boolean" -> <<"all", sort[2]>>
      [] sort[1] = "string"  -> <<"raw", sort[2]>>
      [] sort[1] = "array" /\ (\A v \in Range(sort[2]) : v[1] = "string") ->
            <<"by", [i \in DOMAIN sort[2] |-> <<NameIn(sort[2][i]), 1>>]>>
      [] IsTable(sort) /\ (\A k \in DOMAIN sort[2] : NameIn(sort[2][k]) \in {"ASC", "DESC"}) ->
            <<"by", [i \in DOMAIN Sorted(sort[2]) |->
                        LET k == Sorted(sort[2])[i]
                        IN  <<k, IF NameIn(sort[2][k]) = "ASC" THEN 1 ELSE -1>>]>>
      [] OTHER -> Error("config_invalid")

\* The rules of the fields that have one; a field that is no table is passed over.
SortRules(fields) ==
    LET ruled == {k \in Keys(fields) : Field(fields[2][k], "sort") # Absent}
    IN  [k \in ruled |-> ParseSortRule(Field(fields[2][k], "sort"))]

ParseConfig(raw) ==
    LET gitsheet == Field(raw, "gitsheet")
        is(k, types) == Field(gitsheet, k)[1] \in types
        format == ParseFormat(Field(gitsheet, "format"))
        sorts  == SortRules(Field(gitsheet, "fields"))
        names  == Field(gitsheet, "implements")
    IN  IF \/ ~IsTable(gitsheet)
           \/ ~is("path", {"string"})
           \/ Field(gitsheet, "path")[2] = <<>>
           \/ ~is("root", {"absent", "string"})
           \/ ~is("fields", {"absent", "table"})
           \/ \E k \in DOMAIN sorts : Failed(sorts[k])
           \/ ~is("schema", {"absent", "table"})
           \/ Failed(format)
           \/ ~is("implements", {"absent", "array"})
           \/ \E n \in Items(names) : n[1] # "string" \/ ~ValidName(n[2])
           \/ (format[2].body # "") # (format[2].kind # "toml")
        THEN Error("config_invalid")
        ELSE <<"config", [path |-> Field(gitsheet, "path")[2], sorts |-> sorts,
                          schema |-> Field(gitsheet, "schema"), format |-> format[2],
                          implements |-> IF names = Absent THEN <<>>
                                         ELSE [i \in DOMAIN names[2] |-> names[2][i][2]]]>>

\* The field of the body must not decide the path.
BodyDecidesPath(format, template) == format.body # "" /\ format.body \in FieldNames(template)

OpenSheet(vendored, raw) ==
    IF raw = Absent THEN Error("config_missing") ELSE
    Then(ParseConfig(raw), LAMBDA config :
        Then(Compile(config[2].path), LAMBDA template :
            IF BodyDecidesPath(config[2].format, template[2]) THEN Error("config_invalid") ELSE
            Then(EffectiveSchema(vendored, config[2].implements, config[2].schema), LAMBDA schema :
                <<"sheet", [template |-> template[2], schema |-> schema, sorts |-> config[2].sorts,
                            format |-> config[2].format, implements |-> config[2].implements]>>)))

----------------------------------------------------------------------------
(* Scripts and schema *)

\* String(value); a datetime prints as the instant on its clock.
RECURSIVE JsString(_)
JsString(v) ==
    CASE v[1] = "datetime" -> <<Kind(v), ToString(v[2].at), ToString(v[2].offset)>>
      [] v[1] = "array" -> FlattenSeq([i \in DOMAIN v[2] |-> (IF i = 1 THEN <<>> ELSE <<",">>) \o JsString(v[2][i])])
      [] v[1] = "table" -> <<"[object Object]">>
      [] OTHER -> PathText(v)[2]

Conforms(sheet, record) == sheet.schema = NoSchema \/ Validate(sheet.schema, record) = {}

----------------------------------------------------------------------------
(* The sheets of a tree: `paths` are those of the files below .gitsheets *)

DiscoverSheets(paths) == {StemsOf(f)[1] : f \in {p \in paths : Len(p) = 1 /\ IsRecordFile(p, "toml")}}
=============================================================================
