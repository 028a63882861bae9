------------------------------- MODULE Readers -------------------------------
(* A sheet's files as readers see them, and what they can rely on when they    *)
(* ask by query or by key.                                                     *)
EXTENDS CoreIndexes, Query

CONSTANTS
    Queries,    \* the filters that are asked for
    Indexes     \* the indexes that clients of the core define

VARIABLES
    opened,     \* the sheet as it opens now, or the error
    files,      \* the text of each file below the sheet's base
    author      \* who wrote each file: a client under the rules of now, or
                \* "raw" without them, or "old" under other ones

Clients == {"node", "python", "rust"}

Sheet == opened[2]
Ext == ExtensionOf(Sheet.format)
IsToml == ~Failed(opened) /\ Sheet.format.kind = "toml"

Listed == DOMAIN RecordTexts(files, Ext)
Stored(r) == Parse(files[FileAt(r, Sheet)], Sheet.format)
Author(r) == author[FileAt(r, Sheet)]

Managed(r) == Author(r) \in Clients
AllManaged == \A r \in Listed : Managed(r)

----------------------------------------------------------------------------
(* Promises *)

\* Under a recursive template a record may lie in the directory of another.
NoneBeneath == \A r, q \in Listed : ~IsStrictPrefix(r, q)

\* A query finds the records that match among all there are, for all that its
\* walk looks only where the known fields lead, and its candidates leave none
\* of them out, as long as all records lie where the template puts them. It
\* fails only where nothing matches: when the template cannot be rendered with
\* what is asked for. (query_records, prune_record, walk_query; a predicate
\* that throws does so only on the records the walk leads to.)
QueryFindsAll ==
    IsToml /\ AllManaged /\ NoneBeneath =>
        \A filter \in Queries :
            LET verdict  == [r \in Listed |-> Matches(filter, Stored(r))]
                matching == {r \in Listed : verdict[r][2]}
                found    == QueryRecords(files, Sheet.template, filter, Ext)
                planned  == CandidatePaths(files, Sheet.template, PruneRecord(filter), Ext)
            IN  (\A r \in Listed : ~Failed(verdict[r])) =>
                    \/ found = <<"paths", matching>> /\ matching \subseteq planned[2]
                    \/ matching = {} /\ Failed(planned) /\ found = planned

\* Of the definitions of a kind that share a name the last one counts.
Current ==
    {Indexes[i] : i \in {j \in DOMAIN Indexes :
                    IndexNamed(Indexes, Indexes[j].unique, Indexes[j].name) = j}}

Having(def, key) == {r \in Listed : KeyFor(def, Stored(r)) = key}

\* No two records that clients of the core wrote share the key of a unique
\* index, and an index that can be built finds under each key what has it: of
\* the definitions of a kind that share a name, this holds of the last one.
\* (check_unique_conflicts before a candidate is staged, ensure_indexes_built;
\* what other clients write is not checked, and makes every later upsert fail
\* if it doubles a key.)
UniqueKeysHold ==
    IsToml =>
        \A def \in Current : \A key \in {KeyFor(def, Stored(r)) : r \in Listed} \ {Absent} :
            LET found == FindByIndex(Sheet, files, Indexes, def.unique, def.name, key)
            IN  /\ def.unique => \A r, q \in Having(def, key) :
                      Author(r) = "rust" /\ Author(q) = "rust" => r = q
                /\ ~Failed(found) => found = <<"paths", Having(def, key)>>
=============================================================================
