------------------------------- MODULE Codec --------------------------------
(* Records as the text of files: canonical TOML, and markdown with TOML        *)
(* frontmatter (canonical.rs, codec.rs).                                       *)
(*                                                                             *)
(* A text is a sequence of lines. A line of TOML is <<"=", key, value>>, or a  *)
(* line of a multi-line string: <<"open", key>> begins one, and its last line  *)
(* carries the quotes that close it. Any other line is a sequence of symbols.  *)
EXTENDS Values

CONSTANT KeyOrder           \* every key there may be, in alphabetical order

NewLine == "\n"
Fence   == <<"+++">>
Blank   == <<>>
H1      == "# "             \* the mark of an ATX heading
Setext  == <<"===">>        \* the line below a setext heading
IsBlank(line) == line = Blank

\* The lines of a string, and back
Lines(s) ==
    FoldLeft(LAMBDA ls, c : IF c = NewLine THEN Append(ls, Blank)
                            ELSE Append(Front(ls), Append(Last(ls), c)),
             <<Blank>>, s)

Unlines(ls) ==
    IF ls = <<>> THEN <<>>
    ELSE FoldLeft(LAMBDA s, l : s \o <<NewLine>> \o l, Head(ls), Tail(ls))

----------------------------------------------------------------------------
(* Canonical TOML *)

Sorted(f) == FoldLeft(LAMBDA ks, k : IF k \in DOMAIN f THEN Append(ks, k) ELSE ks, <<>>, KeyOrder)

IsMultiline(v) == v[1] = "string" /\ NewLine \in Range(v[2])

\* A mistake: nothing closes a multi-line string.
EntryLines_Open(k, v) ==
    IF IsMultiline(v) THEN << <<"open", k>> >> \o Lines(v[2]) ELSE << <<"=", k, v>> >>

EntryLines(k, v) ==
    IF IsMultiline(v)
    THEN LET ls == Lines(v[2])
         IN  << <<"open", k>> >> \o Front(ls) \o << <<"close", Last(ls)>> >>
    ELSE << <<"=", k, v>> >>

SerializeToml(v) ==
    IF ~IsTable(v) THEN Error("config_invalid")
    ELSE <<"text", FoldLeft(LAMBDA ls, k : ls \o EntryLines(k, v[2][k]), <<>>, Sorted(v[2]))>>

IsEntry(line) == line # Blank /\ line[1] = "="
IsOpen(line)  == line # Blank /\ line[1] = "open"
IsClose(line) == line # Blank /\ line[1] = "close"

\* `key` is the string that is open, `string` its lines so far.
Progress(key, string, table, ok) == [key |-> key, string |-> string, table |-> table, ok |-> ok]

\* One line further
ParseLine(p, line) ==
    CASE p.key # "" /\ IsClose(line) ->
            Progress("", <<>>, Put(p.table, p.key, Text(Unlines(Append(p.string, line[2])))), p.ok)
      [] p.key # "" /\ ~IsClose(line) -> Progress(p.key, Append(p.string, line), p.table, p.ok)
      [] p.key = "" /\ IsOpen(line)   -> Progress(line[2], <<>>, p.table, p.ok)
      [] p.key = "" /\ IsEntry(line)  -> Progress("", <<>>, Put(p.table, line[2], line[3]), p.ok)
      [] p.key = "" /\ IsBlank(line)  -> p
      [] OTHER -> Progress("", <<>>, p.table, FALSE)

Parsed(p) == IF p.ok /\ p.key = "" THEN Table(p.table) ELSE Error("config_invalid")

ParseToml(text) ==
    Parsed(FoldLeft(ParseLine, Progress("", <<>>, NoFields, TRUE), text))

SerializeBatch(values) == Batch([i \in DOMAIN values |-> SerializeToml(values[i])])
ParseBatch(texts) == Batch([i \in DOMAIN texts |-> ParseToml(texts[i])])

----------------------------------------------------------------------------
(* Bodies. A body is a sequence of lines; <<Blank>> is the empty one. *)

IsHeading(line) == Len(line) > 1 /\ Head(line) = H1

\* The first ATX heading, or Absent
FirstH1(body) ==
    LET i == SelectInSeq(body, IsHeading)
    IN  IF i = 0 THEN Absent ELSE Text(Tail(body[i]))

RewriteLeadingH1(body, title) ==
    LET i == SelectInSeq(body, IsHeading)
        heading == <<H1>> \o title
    IN  CASE i # 0 -> ReplaceAt(body, i, heading)
          [] i = 0 /\ body = <<Blank>> -> <<heading, Blank>>
          [] OTHER -> <<heading, Blank>> \o body

WithoutLeading(ls) ==
    FoldLeft(LAMBDA kept, l : IF kept = <<>> /\ IsBlank(l) THEN kept ELSE Append(kept, l), <<>>, ls)

Stripped(ls) == Reverse(WithoutLeading(Reverse(WithoutLeading(ls))))

\* Setext headings as ATX ones
AtxHeadings(ls) ==
    SelectSeq([i \in DOMAIN ls |-> IF i < Len(ls) /\ ls[i + 1] = Setext THEN <<H1>> \o ls[i] ELSE ls[i]],
              LAMBDA l : l # Setext)

\* dprint: headings become ATX ones, outer blank lines go, one newline ends it
NormalizeBody(body) == Append(AtxHeadings(Stripped(body)), Blank)

----------------------------------------------------------------------------
(* Markdown. format is [kind, body, title, normalize]; a title of "" is none. *)

EndsWithNewline(body) == Len(body) > 1 /\ Last(body) = Blank

\* A mistake: the title is taken from the body before it is normalized.
TitleSource_Raw(format, raw) == raw

TitleSource(format, raw) == IF format.normalize THEN NormalizeBody(raw) ELSE raw

\* The title that is supplied must be the body's; it comes and goes with that.
TitledFrontmatter(title, fields, h1) ==
    LET supplied == Field(fields, title)
    IN  CASE title = "" -> fields
          [] title # "" /\ supplied \notin {Absent, h1} -> Error("validation_failed")
          [] title # "" /\ supplied = Absent /\ h1 # Absent -> With(fields, title, h1)
          [] OTHER -> fields

Ended(body) == IF EndsWithNewline(body) THEN body ELSE Append(body, Blank)

SerializeMarkdown(record, format) ==
    LET given == Field(record, format.body)
        raw   == IF given = Absent THEN <<Blank>> ELSE Lines(given[2])
    IN  IF given[1] \notin {"absent", "string"} THEN Error("validation_failed") ELSE
        Then(TitledFrontmatter(format.title, WithoutKey(record, format.body), FirstH1(TitleSource(format, raw))),
             LAMBDA front :
                <<"text", <<Fence>> \o SerializeToml(front)[2] \o <<Fence, Blank>>
                          \o Ended(IF format.normalize THEN NormalizeBody(raw) ELSE raw)>>)

IsFence(line) == line = Fence

\* What is after line i; the blank lines that follow a delimiter belong to it.
AfterLine(ls, i) == WithoutLeading(SubSeq(ls, i + 1, Len(ls)))

WithoutNewline(ls) == IF Len(ls) > 1 /\ Last(ls) = Blank THEN Front(ls) ELSE ls

SplitAt(ls, closer) ==
    IF closer = 0 THEN [front |-> <<>>, body |-> ls]
    ELSE [front |-> SubSeq(ls, 1, closer - 1), body |-> WithoutNewline(AfterLine(ls, closer))]

SplitAtFence(ls) == SplitAt(ls, SelectInSeq(ls, IsFence))

\* The first delimiter opens the frontmatter, the next one closes it.
SplitOnDelimiters(text) ==
    IF Fence \notin Range(text) THEN [front |-> <<>>, body |-> text]
    ELSE SplitAtFence(AfterLine(text, SelectInSeq(text, IsFence)))

Assembled(parts, format, withBody) ==
    Then(ParseToml(parts.front), LAMBDA front :
        IF withBody THEN With(front, format.body, Text(Unlines(parts.body))) ELSE front)

ParseMarkdown(text, format, withBody) == Assembled(SplitOnDelimiters(text), format, withBody)

----------------------------------------------------------------------------
(* By the sheet's format *)

ExtensionOf(format) ==
    CASE format.kind = "toml" -> "toml" [] format.kind = "markdown" -> "md" [] OTHER -> "mdx"

Serialize(record, format) ==
    IF format.kind = "toml" THEN SerializeToml(record) ELSE SerializeMarkdown(record, format)

ParseWith(text, format, withBody) ==
    IF format.kind = "toml" THEN ParseToml(text) ELSE ParseMarkdown(text, format, withBody)

Parse(text, format) == ParseWith(text, format, TRUE)
ParseHeaderOnly(text, format) == ParseWith(text, format, FALSE)
=============================================================================
