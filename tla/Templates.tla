----------------------------- MODULE Templates ------------------------------
(* Path templates: from a record to where its file lies (path_template.rs).    *)
(*                                                                             *)
(* The source of a template is a sequence of tokens: <<"/">>, <<"lit", text>>, *)
(* <<"field", name, recursive>>, <<"bucket", names, format>>, an expression    *)
(* <<"expr", name, type>> that needs a field of that type, and <<"broken">>    *)
(* for what does not close or does not compile. A rendered component and each  *)
(* name in a path is a sequence of symbols.                                    *)
EXTENDS Values, FiniteSets

CONSTANTS
    DaysPerMonth, MonthsPerYear, DaysPerWeek,
    IsoDates,        \* the texts that are ISO dates, each with its datetime
    IllegalSymbols   \* is_windows_invalid

----------------------------------------------------------------------------
(* The calendar (chrono). A date is a number of days; a week belongs to the    *)
(* year its middle day lies in.                                                *)

Year(date)  == date \div (DaysPerMonth * MonthsPerYear)
Month(date) == ((date \div DaysPerMonth) % MonthsPerYear) + 1
DayOf(date) == (date % DaysPerMonth) + 1
YearOfWeek(week) == Year((week * DaysPerWeek) + (DaysPerWeek \div 2))
IsoYear(date) == YearOfWeek(date \div DaysPerWeek)
IsoWeek(date) ==
    Cardinality({w \in 0 .. date \div DaysPerWeek : YearOfWeek(w) = IsoYear(date)})

Units(format) ==
    CASE format = "YYYY"       -> <<"year">>
      [] format = "YYYY/MM"    -> <<"year", "month">>
      [] format = "YYYY/MM/DD" -> <<"year", "month", "day">>
      [] format = "YYYY/WW"    -> <<"isoYear", "isoWeek">>
      [] OTHER -> <<>>

RenderUnit(date, unit) ==
    << ToString(CASE unit = "year"    -> Year(date)
                  [] unit = "month"   -> Month(date)
                  [] unit = "day"     -> DayOf(date)
                  [] unit = "isoYear" -> IsoYear(date)
                  [] unit = "isoWeek" -> IsoWeek(date)) >>

----------------------------------------------------------------------------
(* Parsing: a sequence of components, each a sequence of parts *)

IsRecursive(part) == part[1] = "field" /\ part[3]
Recursive(component) == Len(component) = 1 /\ IsRecursive(component[1])

Trim(source) == SelectInSeq(source, LAMBDA t : t # <<"/">>)
Trimmed(source) ==
    IF Trim(source) = 0 THEN <<>>
    ELSE SubSeq(source, Trim(source), SelectLastInSeq(source, LAMBDA t : t # <<"/">>))

\* A bucket makes one component of each of its units, so it has to stand alone.
StandsAlone(tokens, i) ==
    /\ i = 1 \/ tokens[i - 1] = <<"/">>
    /\ i = Len(tokens) \/ tokens[i + 1] = <<"/">>

BadBucket(tokens, i) ==
    tokens[i][1] = "bucket" /\ (Units(tokens[i][3]) = <<>> \/ ~StandsAlone(tokens, i))

BucketComponents(token) ==
    [u \in DOMAIN Units(token[3]) |-> << <<"bucket", token[2], Units(token[3])[u]>> >>]

AddToken(components, t) ==
    CASE t = <<"/">>        -> Append(components, <<>>)
      [] t[1] = "bucket"    -> Front(components) \o BucketComponents(t)
      [] OTHER -> Append(Front(components), Append(Last(components), t))

BadComponent(components, i) ==
    LET c == components[i]
    IN  \/ c = <<>>
        \/ Len(c) > 1 /\ \E p \in ToSet(c) : IsRecursive(p)
        \/ i < Len(components) /\ Recursive(c)

\* The error of the first token that cannot be read, if any
Readable(tokens) ==
    LET bad == {i \in DOMAIN tokens : tokens[i] = <<"broken">> \/ BadBucket(tokens, i)}
    IN  CASE tokens = <<>> -> Error("path_render_failed")
          [] bad # {} -> Error(IF tokens[Min(bad)] = <<"broken">> THEN "path_render_failed"
                                                                  ELSE "config_invalid")
          [] OTHER -> <<"tokens", tokens>>

WellFormed(components) ==
    IF \E i \in DOMAIN components : BadComponent(components, i) THEN Error("path_render_failed")
    ELSE <<"template", components>>

Compile(source) ==
    Then(Readable(Trimmed(source)), LAMBDA tokens :
        WellFormed(FoldLeft(AddToken, << <<>> >>, tokens[2])))

\* The fields that decide the path, as far as they are known
FieldNames(template) ==
    UNION {CASE p[1] = "field"  -> {p[2]}
             [] p[1] = "bucket" -> {p[2][1]}
             [] p[1] = "expr"   -> {p[2]}
             [] OTHER -> {} : p \in UNION {ToSet(c) : c \in ToSet(template)}}

----------------------------------------------------------------------------
(* Rendering. A part renders to <<"text", symbols>>, to Absent, or not at all. *)

\* Numbers print as JavaScript prints them: an integral float without a point.
PathText(v) ==
    CASE v[1] = "string"  -> v
      [] v[1] = "integer" -> <<"text", <<ToString(v[2])>> >>
      [] v[1] = "float"   -> <<"text", IF v[2] % 2 = 0 THEN <<ToString(v[2] \div 2)>>
                                       ELSE <<ToString(v[2] \div 2), ".5">> >>
      [] v[1] = "boolean" -> <<"text", <<ToString(v[2])>> >>
      [] OTHER -> Absent

\* A field of a field of ...
Dotted(record, names) == FoldLeft(Field, record, names)

\* A mistake: the date on the clock, wherever the clock hangs
DatePart_Local(v) == v[2].at \div Day

\* Always the date in UTC; local kinds are taken at face value.
DatePart(v) == Instant(v) \div Day

BucketDate(v) ==
    CASE v = Absent -> Absent
      [] v[1] = "datetime" /\ Kind(v) # "time" -> <<"date", DatePart(v)>>
      [] v[1] = "string" /\ v[2] \in DOMAIN IsoDates -> <<"date", DatePart(IsoDates[v[2]])>>
      [] OTHER -> Error("path_render_failed")

\* While a query is planned, a value that is no date leaves the component open.
UnitOf(date, unit, strict) ==
    CASE date[1] = "date" -> <<"text", RenderUnit(date[2], unit)>>
      [] Failed(date) /\ ~strict -> Absent
      [] OTHER -> date

RenderBucket(record, part, strict) ==
    UnitOf(BucketDate(Dotted(record, part[2])), part[3], strict)

\* An identifier that is not defined leaves the component open, any other
\* exception fails; a datetime's expression takes its year in UTC.
RenderExpression(record, part) ==
    LET v == Field(record, part[2])
    IN  CASE v = Absent -> Absent
          [] v[1] = "datetime" /\ part[3] = "datetime" -> <<"text", RenderUnit(DatePart(v), "year")>>
          [] v[1] # "datetime" /\ v[1] = part[3] -> PathText(v)
          [] OTHER -> Error("path_render_failed")

RenderPart(record, part, strict) ==
    CASE part[1] = "lit"    -> <<"text", part[2]>>
      [] part[1] = "field"  -> PathText(Field(record, part[2]))
      [] part[1] = "bucket" -> RenderBucket(record, part, strict)
      [] part[1] = "expr"   -> RenderExpression(record, part)

RenderParts(record, component, strict) ==
    [p \in DOMAIN component |-> RenderPart(record, component[p], strict)]

\* A mistake: a component is known as far as its parts are.
Joined_Partial(parts) ==
    LET known == SelectSeq(parts, LAMBDA r : r # Absent)
    IN  IF FirstFailure(known) # 0 THEN known[FirstFailure(known)]
        ELSE <<"text", FlattenSeq([p \in DOMAIN known |-> known[p][2]])>>

\* The first part that fails or stays open decides.
Joined(parts) ==
    LET stop == SelectInSeq(parts, LAMBDA r : r = Absent \/ Failed(r))
    IN  IF stop # 0 THEN parts[stop] ELSE <<"text", FlattenSeq([p \in DOMAIN parts |-> parts[p][2]])>>

RenderComponent(record, component, strict) == Joined(RenderParts(record, component, strict))

\* Only a recursive component may bring directories of its own.
InvalidChars(text, recursive) ==
    \E c \in Range(text) : c \in IllegalSymbols \/ (c = "/" /\ ~recursive)

Checked(text, component) ==
    CASE text = Absent -> Error("path_render_failed")
      [] text # Absent /\ ~Failed(text) /\ InvalidChars(text[2], Recursive(component)) ->
            Error("path_invalid_chars")
      [] OTHER -> text

\* The names a text with slashes stands for
AddSymbol(names, c) ==
    IF c = "/" THEN Append(names, <<>>) ELSE Append(Front(names), Append(Last(names), c))

Names(text) == FoldLeft(AddSymbol, << <<>> >>, text)

Render(template, record) ==
    Then(Batch([i \in DOMAIN template |-> Checked(RenderComponent(record, template[i], TRUE), template[i])]),
         LAMBDA texts : <<"path", FlattenSeq([i \in DOMAIN texts[2] |-> Names(texts[2][i][2])])>>)

\* What a query that gives some of the fields says of each component
PlanQuery(template, query) ==
    Then(Batch([i \in DOMAIN template |-> RenderComponent(query, template[i], FALSE)]), LAMBDA texts :
        <<"plan", [i \in DOMAIN template |->
                      [rendered |-> texts[2][i], recursive |-> Recursive(template[i])]]>>)
=============================================================================
