------------------------------ MODULE SheetFiles ------------------------------
(* What may become of a sheet's files, no matter who writes what, and how: the *)
(* steps of Records as far as readers can rely on them.                        *)
EXTENDS Readers

VARIABLE
    source      \* the path template of the sheet while it opens

vars == <<source, opened, files, author>>

----------------------------------------------------------------------------
(* What the core's types guarantee *)

IsSequence(s) == s \in Seq(Range(s))

\* A token of a template's source
IsToken(t) ==
    /\ t[1] \in {"/", "lit", "field", "bucket", "expr", "broken"}
    /\ t[1] \in {"/", "broken"} => t = <<t[1]>>
    /\ t[1] = "lit"    => IsSequence(t[2])
    /\ t[1] = "bucket" => IsSequence(t[2]) /\ t[2] # <<>>

\* A sheet has the template that its source compiles to.
IsOpened(tokens, outcome) ==
    ~Failed(outcome) =>
        /\ IsSequence(tokens)
        /\ \A t \in Range(tokens) : IsToken(t)
        /\ Compile(tokens) = <<"template", outcome[2].template>>

\* Only the last name of a path to a file has an extension.
IsPath(f) ==
    /\ IsSequence(f) /\ f # <<>>
    /\ \A i \in DOMAIN f : f[i] = <<f[i][1], f[i][2]>> /\ (i < Len(f) => f[i][2] = "")

IsRecord(v) ==
    IsTable(v) /\ \A k \in DOMAIN v[2] : v[2][k][1] = "string" => IsSequence(v[2][k][2])

IsFilter(filter) ==
    \A k \in DOMAIN filter[2] :
        filter[2][k][1] = "equals" /\ filter[2][k][2][1] = "string" => IsSequence(filter[2][k][2][2])

\* The definitions of a sheet's indexes
AreIndexes(defs) == IsSequence(defs) /\ \A d \in Range(defs) : d.unique \in BOOLEAN

----------------------------------------------------------------------------
(* Steps. All that is said of a step is what it does to each file. *)

Kept(f) == f \in DOMAIN files /\ files'[f] = files[f] /\ author'[f] = author[f]

\* A record that a client writes is readable and lies where the template puts
\* it, and its keys are free if the client is one that checks them.
Write(who, f) ==
    LET record == ParseToml(files'[f])
        path   == StemsOf(f)
    IN  /\ ~Failed(opened)
        /\ IsToml => /\ f = FileOf(path, Ext)
                     /\ IsRecord(record)
                     /\ Render(Sheet.template, record) = <<"path", path>>
                     /\ who = "rust" =>
                           ~Failed(CheckUniqueConflicts(Sheet, files, Indexes, record, path))
        /\ IsPath(f)
        /\ author'[f] = who
        /\ \A g \in DOMAIN files' \ {f} : Kept(g)
        /\ UNCHANGED <<source, opened>>

Delete ==
    /\ \A f \in DOMAIN files' : Kept(f)
    /\ UNCHANGED <<source, opened>>

WritePast ==
    /\ \A f \in DOMAIN files' : Kept(f) \/ (IsPath(f) /\ author'[f] = "raw")
    /\ UNCHANGED <<source, opened>>

\* What was written before is as it is; nobody vouches for it.
Redefine ==
    /\ IsOpened(source', opened')
    /\ UNCHANGED files
    /\ \A f \in DOMAIN files : author'[f] \notin Clients

Init ==
    /\ IsOpened(source, opened)
    /\ files = <<>>
    /\ author = <<>>

Next ==
    /\ DOMAIN author' = DOMAIN files'
    /\ \/ \E who \in Clients, f \in DOMAIN files' : Write(who, f)
       \/ Delete
       \/ WritePast
       \/ Redefine

Spec == Init /\ [][Next]_vars
=============================================================================
