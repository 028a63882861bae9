------------------------------- MODULE Upserts -------------------------------
(* The core's writes to one sheet: the order of arrays, the first phase of an  *)
(* upsert, and what it and a delete do to the files (sheet.rs, collator.rs).   *)
(*                                                                             *)
(* Files are at paths below the sheet's base; an array is sorted by a script   *)
(* that is "all" of its items, "by" directives or "raw".                       *)
EXTENDS Readers

CONSTANTS
    Weight,     \* what symbols weigh in the root collation; punctuation has none
    CodeUnit,   \* the code unit of each symbol
    Valid(_, _) \* a sheet's schema holds of a record

FileTree == INSTANCE SheetTree WITH Extension <- Ext

----------------------------------------------------------------------------
(* The order of arrays *)

LexicallyAfter(s, t) ==
    \/ IsStrictPrefix(t, s)
    \/ \E i \in DOMAIN s \cap DOMAIN t : SubSeq(s, 1, i - 1) = SubSeq(t, 1, i - 1) /\ s[i] > t[i]

\* Only base letters and numbers count: what has no weight is passed over.
CollationKey(v) ==
    FoldLeft(LAMBDA key, c : IF c \in DOMAIN Weight THEN Append(key, Weight[c]) ELSE key, <<>>, KeyText(v))

LocaleAfter(v, w) == LexicallyAfter(CollationKey(v), CollationKey(w))

\* Number(value), in halves; no string here is a numeral.
IsNumeric(v) == v[1] \in {"integer", "float", "boolean", "datetime"}
JsNumber(v) ==
    CASE v[1] = "boolean"  -> IF v[2] THEN 2 ELSE 0
      [] v[1] = "datetime" -> 2 * ToMillis(v)
      [] OTHER -> Halves(v)

\* JavaScript's v > w
JsGreater(v, w) ==
    CASE IsNumeric(v) /\ IsNumeric(w) -> JsNumber(v) > JsNumber(w)
      [] v[1] = "string" /\ w[1] = "string" ->
            LexicallyAfter([i \in DOMAIN v[2] |-> CodeUnit[v[2][i]]], [i \in DOMAIN w[2] |-> CodeUnit[w[2][i]]])
      [] OTHER -> FALSE

\* The first directive whose fields differ decides.
DirectedAfter(directives, v, w) ==
    LET greater(d, x, y) == JsGreater(Field(x, d[1]), Field(y, d[1]))
        i == SelectInSeq(directives, LAMBDA d : greater(d, v, w) \/ greater(d, w, v))
    IN  /\ i # 0
        /\ IF directives[i][2] = 1 THEN greater(directives[i], v, w) ELSE greater(directives[i], w, v)

\* return a - b: what is not a number comes neither before nor after.
NumericAfter(v, w) == IsNumeric(v) /\ IsNumeric(w) /\ JsNumber(v) > JsNumber(w)

After(rule, v, w) ==
    CASE rule[1] = "all" -> LocaleAfter(v, w)
      [] rule[1] = "by"  -> DirectedAfter(rule[2], v, w)
      [] rule[1] = "raw" -> NumericAfter(v, w)

\* After the last of those that are not after it: a stable insertion sort
InsertItem(rule, sorted, v) ==
    InsertAt(sorted, SelectLastInSeq(sorted, LAMBDA w : ~After(rule, w, v)) + 1, v)

Throws(rule, items) == rule[1] = "raw" /\ rule[2] # <<"numeric">> /\ Len(items) > 1

SortArray(rule, items) ==
    CASE rule = <<"all", FALSE>> -> <<"array", items>>
      [] rule[1] # "all" /\ Throws(rule, items) -> Error("config_invalid")
      [] OTHER -> <<"array", FoldLeft(LAMBDA s, v : InsertItem(rule, s, v), <<>>, items)>>

NormalizeRecord(record) ==
    LET sorts(k) == k \in DOMAIN Sheet.sorts /\ IsArray(record[2][k])
    IN  IF ~IsTable(record) THEN record
        ELSE TableOf([k \in DOMAIN record[2] |->
                        IF sorts(k) THEN SortArray(Sheet.sorts[k], record[2][k][2]) ELSE record[2][k]])

\* In order, and those that come neither before nor after each other as before:
\* p tells where each item was.
SortedAs(rule, before, after) ==
    /\ Len(after) = Len(before)
    /\ \E p \in [DOMAIN after -> DOMAIN before] :
          /\ \A i, j \in DOMAIN after : p[i] = p[j] => i = j
          /\ \A i \in DOMAIN after : after[i] = before[p[i]]
          /\ \A i, j \in DOMAIN after :
                i < j => ~After(rule, after[i], after[j]) /\ (After(rule, after[j], after[i]) \/ p[i] < p[j])

\* A field after the normalization of its record
KeptField(k, before, after) ==
    IF /\ k \in DOMAIN Sheet.sorts /\ IsArray(before)
       /\ Sheet.sorts[k] # <<"all", FALSE>>
    THEN IsArray(after) /\ SortedAs(Sheet.sorts[k], before[2], after[2])
    ELSE after = before

----------------------------------------------------------------------------
(* What a client hands in: a table of keys that there are, "" not among them.  *)
(* Strings are of the symbols C, none of which reads like the mark of a line   *)
(* that closes a string.                                                       *)

IsKey(k) == k # "" /\ k \in Range(KeyOrder)

OfSymbols(x, C) ==
    "close" \notin C /\ (x[1] = "string" => x[2] \in Seq(C \cup {NewLine}) /\ x = Text(x[2]))

IsTableOf(f, C) ==
    /\ f = [k \in DOMAIN f |-> f[k]]
    /\ \A k \in DOMAIN f : IsKey(k) /\ OfSymbols(f[k], C)

----------------------------------------------------------------------------
(* The first phase of an upsert: what is to be written, or the refusal *)

\* A record without the body would erase it.
BodyMissing(record) == Sheet.format.body # "" /\ Field(record, Sheet.format.body) = Absent

PrepareUpsert(record, defs, previous, allowMissingBody) ==
    IF \/ BodyMissing(record) /\ ~allowMissingBody
       \/ ~Valid(Sheet, record)
    THEN Error("validation_failed") ELSE
    Then(NormalizeRecord(record), LAMBDA normalized :
        Then(Render(Sheet.template, normalized), LAMBDA path :
            Then(CheckUniqueConflicts(Sheet, files, defs, normalized, path[2]), LAMBDA free :
                Then(Serialize(normalized, Sheet.format), LAMBDA text :
                    <<"candidate", [path |-> Exact(path[2]), previous |-> Exact(previous),
                                    text |-> text[2]]>>))))

\* Of a record that there is, for a sheet that opens
Prepared(record, defs, previous, allowMissingBody) ==
    Then(opened, LAMBDA s : Then(record, LAMBDA v : PrepareUpsert(v, defs, previous, allowMissingBody)))

----------------------------------------------------------------------------
(* Steps. All that is refused changes nothing. *)

\* The files after a step, those of `written` now by `who`
Store(after, written, who) ==
    /\ files' = after
    /\ author' = [f \in DOMAIN after |-> IF f \in written THEN who ELSE author[f]]

StageUpsert(who, prepared) ==
    /\ ~Failed(prepared)
    /\ Store(FileTree!StageUpsert(files, <<>>, prepared[2]), {FileAt(StemsOf(prepared[2].path), Sheet)}, who)

DeleteAtPath(r) ==
    /\ ~Failed(opened)
    /\ FileAt(r, Sheet) \in DOMAIN files
    /\ Store(FileTree!DeleteAtPath(files, <<>>, Exact(r)), {}, "")
=============================================================================
