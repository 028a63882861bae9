-------------------------------- MODULE Diffs ---------------------------------
(* Differences: the patch between two records, merge patches, and the changes  *)
(* between two trees (diff.rs, record.rs).                                     *)
(*                                                                             *)
(* An operation of a patch is [op, path, value]; its path is a sequence of     *)
(* tokens, each a key, an index as text or "-".                                *)
EXTENDS Sheets

----------------------------------------------------------------------------
(* Values without a difference. Null stands for a record that is not there.    *)

NodeType(v) == IF v[1] \in {"null", "array", "table"} THEN v[1] ELSE "scalar"

StrictEqual(v, w) ==
    /\ {NodeType(v), NodeType(w)} \cap {"array", "table"} = {}
    /\ IF IsNumber(v) /\ IsNumber(w) THEN Halves(v) = Halves(w) ELSE v[1] = w[1] /\ v = w

Operation(op, path, value) == [op |-> op, path |-> path, value |-> value]
Only(k, f) == SelectSeq(KeyOrder, LAMBDA j : j \in k /\ j \in DOMAIN f)

----------------------------------------------------------------------------
(* The edit script between two arrays, by the least number of edits. An edit   *)
(* is [kind, index, original, value], its index the number of the input's      *)
(* items before it.                                                            *)

Edit(kind, index, original, value) ==
    [kind |-> kind, index |-> index, original |-> original, value |-> value]

\* A mistake: an item is added one place too far.
ScriptAdd_Ahead(i, w) == Edit("add", i, Absent, w)

ScriptRemove(i, v)     == Edit("remove", i - 1, v, Absent)
ScriptAdd(i, w)        == Edit("add", i - 1, Absent, w)
ScriptReplace(i, v, w) == Edit("replace", i - 1, v, w)

Extended(result, edit) == [script |-> Append(result.script, edit), cost |-> result.cost + 1]

\* The first of the cheapest
Cheapest(alternatives) ==
    LET least == Min({a.cost : a \in Range(alternatives)})
    IN  SelectSeq(alternatives, LAMBDA a : a.cost = least)[1]

\* What is known already is taken from the memo, whose key i * maxLength + j is
\* the same for (i, maxLength) and (i + 1, 0). Gives the result with the memo.
RECURSIVE DiffAny(_, _, _), Dist(_, _, _, _, _)
Dist(i, j, input, output, memo) ==
    LET key  == (i * Max({Len(input), Len(output), 1})) + j
        diag == Dist(i - 1, j - 1, input, output, memo)
        fromRemove == Dist(i - 1, j, input, output, memo)
        memo1 == IF i > 0 THEN fromRemove.memo ELSE memo
        fromAdd == Dist(i, j - 1, input, output, memo1)
        memo2 == IF j > 0 THEN fromAdd.memo ELSE memo1
        fromBoth == Dist(i - 1, j - 1, input, output, memo2)
        memo3 == IF i > 0 /\ j > 0 THEN fromBoth.memo ELSE memo2
        alternatives ==
            (IF i > 0 THEN <<Extended(fromRemove.result, ScriptRemove(i, input[i]))>> ELSE <<>>)
            \o (IF j > 0 THEN <<Extended(fromAdd.result, ScriptAdd(i, output[j]))>> ELSE <<>>)
            \o (IF i > 0 /\ j > 0
                THEN <<Extended(fromBoth.result, ScriptReplace(i, input[i], output[j]))>> ELSE <<>>)
        known(result, m) == [result |-> result, memo |-> (key :> result) @@ m]
    IN  CASE i = 0 /\ j = 0 -> [result |-> [script |-> <<>>, cost |-> 0], memo |-> memo]
          [] i + j > 0 /\ key \in DOMAIN memo -> [result |-> memo[key], memo |-> memo]
          [] OTHER ->
                IF i > 0 /\ j > 0 /\ DiffAny(input[i], output[j], <<>>) = <<>>
                THEN known(diag.result, diag.memo)
                ELSE known(Cheapest(alternatives), memo3)

----------------------------------------------------------------------------
(* Patches *)

\* Where an edit lands once the edits before it are made. The code counts its
\* `padding` in signed integers; a place past the end is "-".
Place(place, length) == IF place < length THEN ToString(place) ELSE "-"

DiffAny(v, w, path) ==
    LET script == Dist(Len(v[2]), Len(w[2]), v[2], w[2], NoFields).result.script
        step(p, e) ==
            CASE e.kind = "add" ->
                    [padding |-> p.padding + 1,
                     ops |-> Append(p.ops, Operation("add",
                                Append(path, Place(e.index + 1 + p.padding, Len(v[2]) + p.padding)), e.value))]
              [] e.kind = "remove" ->
                    [padding |-> p.padding - 1,
                     ops |-> Append(p.ops, Operation("remove", Append(path, ToString(e.index + p.padding)), Absent))]
              [] e.kind = "replace" ->
                    [padding |-> p.padding,
                     ops |-> p.ops \o DiffAny(e.original, e.value, Append(path, ToString(e.index + p.padding)))]
        removed == Only(DOMAIN v[2] \ DOMAIN w[2], v[2])
        added   == Only(DOMAIN w[2] \ DOMAIN v[2], w[2])
        both    == Only(DOMAIN w[2], v[2])
    IN  CASE StrictEqual(v, w) -> <<>>
          [] v[1] = "array" /\ w[1] = "array" ->
                FoldLeft(step, [padding |-> 0, ops |-> <<>>], script).ops
          [] IsTable(v) /\ IsTable(w) ->
                   [i \in DOMAIN removed |-> Operation("remove", Append(path, removed[i]), Absent)]
                \o [i \in DOMAIN added |-> Operation("add", Append(path, added[i]), w[2][added[i]])]
                \o FlattenSeq([i \in DOMAIN both |->
                        DiffAny(v[2][both[i]], w[2][both[i]], Append(path, both[i]))])
          [] OTHER -> <<Operation("replace", path, w)>>

CreatePatch(src, dst) == DiffAny(src, dst, <<>>)

\* A merge patch that deletes leaves Absent.
RECURSIVE ApplyMergePatch(_, _)
ApplyMergePatch(target, patch) ==
    LET base == IF IsTable(target) THEN target[2] ELSE NoFields
        gone == {k \in DOMAIN patch[2] : patch[2][k] = Delete}
        merged == [k \in DOMAIN patch[2] \ gone |-> ApplyMergePatch(Field(target, k), patch[2][k])]
    IN  CASE patch[1] = "delete"  -> Absent
          [] patch[1] = "replace" -> patch[2]
          [] patch[1] = "merge"   -> Table(merged @@ Restrict(base, DOMAIN base \ gone))

----------------------------------------------------------------------------
(* Changes between two trees: [path, status, previous, src, dst], the last two *)
(* whether there is a file on that side                                        *)

RecordFiles(files, ext) == {StemsOf(f) : f \in {g \in DOMAIN files : IsRecordFile(g, ext)}}

Change(path, status, previous, src, dst) ==
    [path |-> path, status |-> status, previous |-> previous, src |-> src, dst |-> dst]

\* The rewrites are the pairs git finds alike: any of `moves`, each from a file
\* that went to one that came.
DiffRecordChanges(src, dst, ext, moves) ==
    LET before == RecordFiles(src, ext)
        after  == RecordFiles(dst, ext)
        gone   == (before \ after) \ {m[1] : m \in moves}
        new    == (after \ before) \ {m[2] : m \in moves}
        stay   == {r \in before \cap after : src[FileOf(r, ext)] # dst[FileOf(r, ext)]}
    IN  {Change(r, "added", Absent, FALSE, TRUE) : r \in new}
        \cup {Change(r, "deleted", Absent, TRUE, FALSE) : r \in gone}
        \cup {Change(r, "modified", Absent, TRUE, TRUE) : r \in stay}
        \cup {Change(m[2], "renamed", <<"from", m[1]>>, TRUE, TRUE) : m \in moves}

SrcPath(change) == IF change.previous = Absent THEN change.path ELSE change.previous[2]

\* Both sides are read as TOML, whatever the sheet's format.
DiffRecord(src, dst, ext, change) ==
    LET side(files, present, path) == IF present THEN ParseToml(files[FileOf(path, ext)]) ELSE Null
    IN  Then(side(src, change.src, SrcPath(change)), LAMBDA s :
            Then(side(dst, change.dst, change.path), LAMBDA d :
                <<"diff", [change |-> change, src |-> s, dst |-> d, patch |-> CreatePatch(s, d)]>>))
=============================================================================
