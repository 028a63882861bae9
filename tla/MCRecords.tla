------------------------------ MODULE MCRecords ------------------------------
EXTENDS Records

str(s) == Text(<<s>>)
int(n) == <<"integer", n>>
bool(b) == <<"boolean", b>>
arr(s) == <<"array", s>>
strs(s) == arr([i \in DOMAIN s |-> str(s[i])])
obj(f) == <<"object", f>>
dict(f) == <<"dict", f>>
list(s) == <<"list", s>>
time(kind, at, offset) == <<"datetime", [kind |-> kind, at |-> at, offset |-> offset]>>

MCKeyOrder == <<"$id", "$pred", "additionalProperties", "at", "body", "count", "id", "meta",
    "n", "path", "properties", "required", "tags", "title", "type", "x">>

MCWeight == ("a" :> 1) @@ ("B" :> 2) @@ ("b" :> 2) @@ ("c" :> 3)
MCCodeUnit == ("B" :> 66) @@ ("a" :> 97) @@ ("b" :> 98) @@ ("c" :> 99)
MCIllegal == {"*"}
MCHosts == {"h"}

\* Four days to a month, two months to a year, four half-milliseconds to a day
MCIsoDates == (<<"2-1">> :> time("date", 36, 0))

----------------------------------------------------------------------------
(* Definitions: by month and id; by a contract and a schema; articles whose    *)
(* bodies are normalized, and verbatim ones; a recursive path; an expression   *)
(* and a schema; a format that there is not                                    *)

sheet(f) == Table("gitsheet" :> Table(f))
fields(f) == Table([k \in DOMAIN f |-> Table("sort" :> f[k])])

Monthly == sheet(
    [path |-> Text(<< <<"bucket", <<"at">>, "YYYY/MM">>, <<"/">>, <<"lit", <<"r">> >>, <<"field", "id", FALSE>> >>),
     fields |-> fields([tags |-> bool(TRUE)])])

Name == <<"h", "/", "c">>
Contract(body) == Table(("$id" :> Text(<<"https://">> \o Name)) @@ body)
Integral == Table("n" :> Table("type" :> str("integer")))
Agreed == Contract([type |-> str("object"), properties |-> Integral, required |-> strs(<<"id">>)])
Looser == Contract([type |-> str("object")])
Closed == Contract([properties |-> Table("meta" :> Table("additionalProperties" :> bool(FALSE)))])
Nullable == Contract([type |-> Null])

Tagged == Table("properties" :> Table("tags" :> Table("items" :> Table("type" :> str("string")))))
Implementer == sheet(
    [path |-> Text(<< <<"field", "id", FALSE>> >>), implements |-> arr(<<Text(Name)>>),
     schema |-> Tagged, fields |-> fields([tags |-> Table([id |-> str("ASC"), n |-> str("DESC")])])])

Article(normalize) == sheet(
    [path |-> Text(<< <<"field", "path", FALSE>> >>),
     format |-> Table([type |-> str("markdown"), body |-> str("body"), title |-> str("title"),
                       normalize |-> bool(normalize)])])

Recursively == sheet(
    [path |-> Text(<< <<"/">>, <<"field", "path", TRUE>> >>), fields |-> fields([count |-> str("numeric")])])

Computed == sheet([path |-> Text(<< <<"expr", "id", "string">> >>), schema |-> Tagged])
Unknown == sheet([path |-> Text(<< <<"field", "id", FALSE>> >>), format |-> Table("type" :> str("csv"))])

MCDefinitions == {Absent, Monthly, Implementer, Article(TRUE), Article(FALSE), Recursively, Computed, Unknown}

Vendor(document) == (Name :> SerializeToml(document)[2])
MCVendorings == {NoFields, Vendor(Agreed), Vendor(Closed)}
MCDocuments == {<<"toml", SerializeToml(Agreed)[2]>>, <<"toml", SerializeToml(Looser)[2]>>, <<"json", Looser>>,
    <<"json", Closed>>, <<"json", Nullable>>}

----------------------------------------------------------------------------
(* What clients hand in *)

MCJsRecords == {
    obj([id |-> str("a"), at |-> <<"date", 9>>, tags |-> arr(<<str("b"), str("B"), str("a")>>),
         n |-> <<"number", 2>>, count |-> <<"bigint", 12>>, x |-> Null]),
    obj([id |-> str("b"), n |-> <<"number", 3>>]),
    obj([id |-> str("b"), tags |-> arr(<< <<"number", 2>> >>), n |-> <<"number", 22>>]),
    obj([path |-> str("s"), body |-> Text(<<"a", "\n", "===", "\n", "\n", "b">>)]),
    obj([path |-> str("s"), title |-> str("c"), body |-> Text(<<"b", "\n", "# ", "a">>)]) }

MCPyRecords == {
    dict([id |-> str("b"), at |-> <<"datetime", [at |-> 18, offset |-> 4]>>, meta |-> dict([n |-> <<"int", 1>>]),
          tags |-> <<"tuple", <<str("c"), str("a")>> >>, n |-> <<"float", 2>>]),
    dict([path |-> str("c"), body |-> Text(<<"\n", "# ", "a", "\n", "+++", "\n", "\n">>)]),
    dict([path |-> Text(<<"a", "/", "b">>), count |-> list(<< <<"int", 2>>, <<"int", 1>> >>)]) }

MCCoreRecords == {
    Table([id |-> str("c"), n |-> int(1), at |-> time("offset", 18, 4),
           tags |-> arr(<<Table([id |-> str("b"), n |-> int(1)]), Table([id |-> str("b"), n |-> int(2)]),
                          Table([id |-> str("a")])>>)]),
    Table([id |-> str("b"), n |-> int(1), at |-> time("local", 17, 0),
           tags |-> strs(<<"a">>), meta |-> Table([n |-> int(1)])]),
    Table([path |-> str("a"), at |-> Text(<<"2-1">>), id |-> int(1), count |-> arr(<<int(2), <<"float", 1>>, int(1)>>),
           body |-> Text(<<>>), x |-> Text(<<"a", "\n", "b">>)]) }

\* What the theorems about the writes of clients assume
MCSymbols == {"a", "b", "B", "c", "s", "/", "# ", "===", "+++", "2-1"}

ASSUME MCHandedIn ==
    /\ KeyOrder \in Seq(Range(KeyOrder))
    /\ Weight \in [DOMAIN Weight -> Int] /\ CodeUnit \in [DOMAIN CodeUnit -> Int]
    /\ \A v \in MCCoreRecords \cup {FromJs(h) : h \in MCJsRecords} \cup {FromPy(h) : h \in MCPyRecords} :
          ~Failed(v) => IsTableOf(v[2], MCSymbols)

MCJsPatches == {
    obj([n |-> Null, tags |-> arr(<<str("a"), str("c")>>)]),
    obj([id |-> str("c")]), obj([title |-> str("c")]), obj([body |-> Text(<<"# ", "b">>)]), obj([body |-> Null]),
    obj([meta |-> obj([x |-> <<"number", 3>>, n |-> Null])]) }

MCRawWrites == { << << << <<"a">> >>, << <<"b">>, <<"a">> >> >>,
                    << obj([id |-> str("a"), n |-> <<"number", 2>>]), obj([tags |-> strs(<<"b", "c">>)]) >> >> }
MCRawDeletes == { << << <<"a">> >>, << <<"c">> >>, << <<"a">> >> >> }
MCHandEdits == { << << <<"c">> >>, << <<"=", "n", int(1)>>, <<>>, <<"=", "at", int(1)>> >> >>,
                 << << <<"b">> >>, << <<"x">> >> >> }

MCJsFilters == { obj(NoFields), obj([id |-> str("a")]), obj([at |-> <<"date", 9>>]),
    obj([at |-> str("b"), n |-> <<"number", 2>>]), obj([path |-> Text(<<"a", "/", "b">>)]),
    obj([meta |-> obj([n |-> <<"number", 2>>])]), obj([n |-> obj("$pred" :> str("present")), x |-> str("a")]),
    obj([tags |-> strs(<<"a", "c">>), id |-> str("b")]), obj([id |-> <<"number", 2>>]),
    obj([n |-> obj("$pred" :> str("odd")), id |-> str("b")]),
    obj([n |-> obj("$pred" :> str("odd")), count |-> <<"number", 3>>]) }

\* The clause that throws comes before the one of id and after the one of count.
MCClauseOrder == LET order == <<"path", "at", "count", "n", "id", "meta", "tags", "x">>
                 IN  [k \in Range(order) |-> CHOOSE i \in DOMAIN order : order[i] = k]

\* What the core makes of them, for the properties of Readers
MCQueries == {filter \in {JsClause(h) : h \in MCJsFilters} : ~Failed(filter)}

\* The second of that name takes the place of the first.
MCIndexes == <<[name |-> "n", unique |-> TRUE, field |-> "count"],
    [name |-> "n", unique |-> TRUE, field |-> "n"], [name |-> "tags", unique |-> FALSE, field |-> "tags"]>>
=============================================================================
