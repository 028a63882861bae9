------------------------------ MODULE Session ------------------------------
(* One transaction as a client drives it through a binding: the CoreTransaction *)
(* objects of the Node binding (gitsheets-napi) and of the Python binding        *)
(* (gitsheets-py), with the Sheet of sheet.ts and the Transaction facade of      *)
(* gitsheets/__init__.py in front of them.                                       *)
(*                                                                               *)
(* An upsert has two phases: prepare computes a candidate and leaves it under    *)
(* the sheet's name, stage takes the candidate from there and writes it. The     *)
(* Node client validates first and runs both phases in one go. The Python        *)
(* client calls the validator between them, and what a validator calls on the    *)
(* transaction runs there too.                                                   *)
EXTENDS SheetTree, Naturals, FiniteSets

CONSTANTS
    Names,       \* names under which sheets are opened
    Bases,       \* effective bases of sheets
    Records,     \* record paths
    Texts,       \* serialized records
    Attachments, \* names of attachments
    MaxCalls,    \* bound on the upserts of a transaction
    MaxDepth     \* bound on upserts that run inside each other's validators

ASSUME ConstantsOK ==
    /\ Extension \in STRING /\ NoFile \notin Texts
    /\ Bases \subseteq Seq(STRING \X {""})
    /\ Records \subseteq Seq(STRING \X {""}) \ {<<>>}
    /\ Attachments \subseteq STRING \X STRING
    /\ MaxCalls \in Nat /\ MaxDepth \in Nat

Closed == "closed"
NotOpened == <<>>          \* so the model's bases are below the root
Calls == 1 .. MaxCalls
NoCall == 0

Candidates == [path : Records, previous : Records \cup {NoPath}, text : Texts, call : Calls]
NoCandidate == [path |-> NoPath, previous |-> NoPath, text |-> NoFile, call |-> NoCall]

VARIABLES
    binding,  \* which binding the client uses
    inner,    \* the wrapped Transaction: open, or how it was consumed
    parent,   \* the tree of the parent commit
    tree,     \* the transaction's private tree
    mutated,  \* its mutated flag
    sheets,   \* the opened sheets, by name
    pending,  \* prepared candidates, by name
    frames,   \* upserts whose validator is running, innermost last
    verdict,  \* history: what became of each upsert's validation
    wrote,    \* history: the upsert whose record each upsert's stage wrote
    shadowed, \* history: upserts whose validator upserted into the same sheet
    cut       \* history: a set_attachments has failed half-way

vars == <<binding, inner, parent, tree, mutated, sheets, pending, frames, verdict, wrote, shadowed, cut>>
history == <<verdict, wrote, shadowed, cut>>

Files == {RecordFile(b, r) : b \in Bases, r \in Records}
            \cup {AttachmentFile(b, r, n) : b \in Bases, r \in Records, n \in Attachments}

TypeOK ==
    /\ binding \in {"node", "python"}
    /\ inner \in {"open", "committed", "unchanged", "unmutated", "failed", "discarded"}
    /\ \A t \in {parent, tree} : DOMAIN t \subseteq Files /\ Range(t) \subseteq Texts
    /\ mutated \in BOOLEAN /\ cut \in BOOLEAN
    /\ sheets \in [Names -> Bases \cup {NotOpened}]
    /\ pending \in [Names -> Candidates \cup {NoCandidate}]
    /\ frames \in Seq(Calls \X Names) /\ Len(frames) <= MaxDepth
    /\ verdict \in [Calls -> {"unused", "running", "accepted", "rejected"}]
    /\ wrote \in [Calls -> Calls \cup {NoCall}]
    /\ shadowed \subseteq Calls

Node == binding = "node"
Python == binding = "python"

----------------------------------------------------------------------------
(* The wrapper *)

\* Transaction::begin succeeded; nothing is opened or pending yet.
Begun(which) ==
    /\ binding = which
    /\ inner = "open"
    /\ parent \in {Empty} \cup {Put(Empty, RecordFile(b, r), t) : b \in Bases, r \in Records, t \in Texts}
    /\ tree = parent
    /\ mutated = FALSE
    /\ sheets = [n \in Names |-> NotOpened]
    /\ pending = [n \in Names |-> NoCandidate]
    /\ frames = <<>>
    /\ verdict = [c \in Calls |-> "unused"]
    /\ wrote = [c \in Calls |-> NoCall]
    /\ shadowed = {}
    /\ cut = FALSE

NodeBegin == Begun("node")
PyBegin == Begun("python")

Init == NodeBegin \/ PyBegin

\* "transaction is already finalized", "sheet ... not opened"
Usable(n) == inner = "open" /\ sheets[n] # NotOpened

\* mark_mutated after a write that went through
Mutate(t) ==
    /\ tree' = t
    /\ mutated' = TRUE

\* A sheet's handle replaces the one opened under the name before.
OpenSheet(n, b) ==
    /\ inner = "open"
    /\ sheets' = [sheets EXCEPT ![n] = b]
    /\ UNCHANGED <<binding, inner, parent, tree, mutated, pending, frames, history>>

\* The host opens a core sheet once for each name (#ensureCoreSheetOpened).
NodeOpenSheet(n, b) == Node /\ sheets[n] = NotOpened /\ OpenSheet(n, b)
PyOpenSheet(n, b) == Python /\ OpenSheet(n, b)

----------------------------------------------------------------------------
(* Upserts *)

Used == {c \in Calls : verdict[c] # "unused"}
NextCall == Cardinality(Used) + 1

\* What a prepare_upsert that gets through leaves under the sheet's name
Prepared(r, prev, text) == [path |-> r, previous |-> prev, text |-> text, call |-> NextCall]

\* A mistake: one slot for all sheets.
Prepare_OneSlot(n, candidate) ==
    /\ Usable(n)
    /\ NextCall \in Calls
    /\ pending' = [m \in Names |-> candidate]

Prepare(n, candidate) ==
    /\ Usable(n)
    /\ NextCall \in Calls
    /\ pending' = [pending EXCEPT ![n] = candidate]

\* stage_upsert takes what is pending out before anything else.
TakePending(n) == [pending EXCEPT ![n] = NoCandidate]

Stage(n, candidate) == Mutate(StageUpsert(tree, sheets[n], candidate))

\* Sheet#upsert: the validator has accepted; prepare, the check of unique keys
\* and stage run without an await between them.
NodeUpsert(n, r, prev, text) ==
    LET candidate == Prepared(r, prev, text)
    IN  /\ Node /\ Usable(n) /\ NextCall \in Calls
        /\ Stage(n, candidate)
        /\ pending' = TakePending(n)
        /\ verdict' = [verdict EXCEPT ![NextCall] = "accepted"]
        /\ wrote' = [wrote EXCEPT ![NextCall] = candidate.call]
        /\ UNCHANGED <<binding, inner, parent, sheets, frames, shadowed, cut>>

\* willChange prepares and compares, and an upsert that a unique key refuses
\* ends after prepare: both leave their candidate pending.
NodePrepareOnly(n, r, prev, text) ==
    /\ Node /\ Prepare(n, Prepared(r, prev, text))
    /\ verdict' = [verdict EXCEPT ![NextCall] = "rejected"]
    /\ UNCHANGED <<binding, inner, parent, tree, mutated, sheets, frames, wrote, shadowed, cut>>

\* The facade's upsert up to the call of the validator
PyPrepare(n, r, prev, text) ==
    /\ Python /\ Prepare(n, Prepared(r, prev, text))
    /\ Len(frames) < MaxDepth
    /\ frames' = Append(frames, <<NextCall, n>>)
    /\ shadowed' = shadowed \cup {f[1] : f \in {g \in Range(frames) : g[2] = n}}
    /\ verdict' = [verdict EXCEPT ![NextCall] = "running"]
    /\ UNCHANGED <<binding, inner, parent, tree, mutated, sheets, wrote, cut>>

\* The innermost validator ends.
Returns(result) ==
    /\ Python /\ frames # <<>>
    /\ frames' = Front(frames)
    /\ verdict' = [verdict EXCEPT ![Last(frames)[1]] = result]

\* It accepts, and stage_upsert writes what is pending under the name.
PyStage ==
    LET call == Last(frames)[1]
        n    == Last(frames)[2]
    IN  /\ Returns("accepted")
        /\ Usable(n) /\ pending[n] # NoCandidate
        /\ Stage(n, pending[n])
        /\ pending' = TakePending(n)
        /\ wrote' = [wrote EXCEPT ![call] = pending[n].call]
        /\ UNCHANGED <<binding, inner, parent, sheets, shadowed, cut>>

\* "no prepared candidate for sheet": nothing is written.
PyStageFails ==
    LET n == Last(frames)[2]
    IN  /\ Returns("accepted")
        /\ pending[n] = NoCandidate
        /\ UNCHANGED <<binding, inner, parent, tree, mutated, sheets, pending, wrote, shadowed, cut>>

\* It raises: the call ends there, and its candidate stays pending.
PyReject ==
    /\ Returns("rejected")
    /\ UNCHANGED <<binding, inner, parent, tree, mutated, sheets, pending, wrote, shadowed, cut>>

----------------------------------------------------------------------------
(* The other writes *)

Write(t) ==
    /\ Mutate(t)
    /\ UNCHANGED <<binding, inner, parent, sheets, pending, frames, history>>

\* delete is strict: record_not_found leaves everything as it is.
Delete(n, r) ==
    Usable(n) /\ Exists(tree, sheets[n], r) /\ Write(DeleteAtPath(tree, sheets[n], r))
NodeDelete(n, r) == Node /\ Delete(n, r)
PyDelete(n, r) == Python /\ Delete(n, r)

ClearSheet(n) == Usable(n) /\ Write(Clear(tree, sheets[n]))
NodeClear(n) == Node /\ ClearSheet(n)
PyClear(n) == Python /\ ClearSheet(n)

SetAll(n, r, names, blob) ==
    Usable(n) /\ Write(SetAttachments(tree, sheets[n], r, names, blob))
NodeSetAttachments(n, r, names, blob) == Node /\ SetAll(n, r, names, blob)
PySetAttachments(n, r, names, blob) == Python /\ SetAll(n, r, names, blob)

NodeSetAttachment(n, r, name, blob) == NodeSetAttachments(n, r, {name}, blob)
PySetAttachment(n, r, name, blob) == PySetAttachments(n, r, {name}, blob)

\* A blob that does not exist, or is no blob, stops the loop: what was placed
\* before it stays in the tree, and the transaction is not marked.
SetAttachmentsFails(n, r, placed, blob) ==
    /\ Usable(n)
    /\ tree' = SetAttachments(tree, sheets[n], r, placed, blob)
    /\ cut' = TRUE
    /\ UNCHANGED <<binding, inner, parent, mutated, sheets, pending, frames, verdict, wrote, shadowed>>

DeleteOne(n, r, name) ==
    /\ Usable(n) /\ HasAttachment(tree, sheets[n], r, name)
    /\ Write(DeleteAttachment(tree, sheets[n], r, name))
NodeDeleteAttachment(n, r, name) == Node /\ DeleteOne(n, r, name)
PyDeleteAttachment(n, r, name) == Python /\ DeleteOne(n, r, name)

\* Without a directory this is a no-op, and the transaction is not marked.
DeleteAll(n, r) ==
    /\ Usable(n) /\ HasAttachmentDir(tree, sheets[n], r)
    /\ Write(DeleteAttachments(tree, sheets[n], r))
NodeDeleteAttachments(n, r) == Node /\ DeleteAll(n, r)
PyDeleteAttachments(n, r) == Python /\ DeleteAll(n, r)

\* write_file and delete_file take any path of the repository; only Node has them.
NodeWriteFile(f, text) == Node /\ inner = "open" /\ Write(Put(tree, f, text))

NodeDeleteFile(f) ==
    /\ Node /\ inner = "open"
    /\ Beneath(tree, f) # {}
    /\ Write(Without(tree, f))

----------------------------------------------------------------------------
(* The end *)

\* A mistake: whatever was marked is committed.
Outcome_NoCompare == IF ~mutated THEN "unmutated" ELSE "committed"

\* What finalize makes of the tree, unless the branch or git stands in the way
Outcome ==
    IF ~mutated THEN "unmutated" ELSE IF tree = parent THEN "unchanged" ELSE "committed"

End(result) ==
    /\ inner = "open" /\ frames = <<>>
    /\ inner' = result
    /\ UNCHANGED <<binding, parent, tree, mutated, sheets, pending, frames, history>>

NodeFinalize == Node /\ \E result \in {Outcome, "failed"} : End(result)
NodeDiscard == Node /\ End("discarded")

\* transact finalizes at the end of the block and discards when it raises.
PyFinalize == Python /\ \E result \in {Outcome, "failed"} : End(result)
PyDiscard == Python /\ End("discarded")

Next ==
    \/ \E n \in Names, b \in Bases : NodeOpenSheet(n, b) \/ PyOpenSheet(n, b)
    \/ \E n \in Names, r \in Records, prev \in Records \cup {NoPath}, text \in Texts :
          \/ NodeUpsert(n, r, prev, text)
          \/ NodePrepareOnly(n, r, prev, text)
          \/ PyPrepare(n, r, prev, text)
    \/ PyStage \/ PyStageFails \/ PyReject
    \/ \E n \in Names, r \in Records :
          \/ NodeDelete(n, r) \/ PyDelete(n, r)
          \/ NodeDeleteAttachments(n, r) \/ PyDeleteAttachments(n, r)
          \/ \E names \in SUBSET Attachments, blob \in Texts :
                \/ NodeSetAttachments(n, r, names, blob)
                \/ PySetAttachments(n, r, names, blob)
                \/ SetAttachmentsFails(n, r, names, blob)
          \/ \E name \in Attachments :
                \/ NodeDeleteAttachment(n, r, name) \/ PyDeleteAttachment(n, r, name)
                \/ \E blob \in Texts :
                      NodeSetAttachment(n, r, name, blob) \/ PySetAttachment(n, r, name, blob)
    \/ \E n \in Names : NodeClear(n) \/ PyClear(n)
    \/ \E f \in Files : NodeDeleteFile(f) \/ \E text \in Texts : NodeWriteFile(f, text)
    \/ NodeFinalize \/ NodeDiscard \/ PyFinalize \/ PyDiscard

Spec == Init /\ [][Next]_vars

----------------------------------------------------------------------------
(* Properties *)

\* An upsert whose validator leaves the sheet alone writes its own record or
\* nothing, and only when the validator accepted it, whatever other sheets the
\* validator writes and whatever earlier calls left pending. No candidate is
\* written by two upserts, even when validators re-enter their sheet.
OnlyAcceptedIsWritten ==
    /\ \A c \in Calls \ shadowed :
          wrote[c] # NoCall => wrote[c] = c /\ verdict[c] = "accepted"
    /\ \A c, d \in Calls : wrote[c] = wrote[d] /\ wrote[c] # NoCall => c = d

\* What finalize reports is what became of the tree: no change is dropped as
\* "nothing was mutated" and no commit is made of nothing. (An attachment batch
\* that fails half-way is the exception: its first files may be dropped.)
OutcomeTellsTheChange ==
    /\ inner \in {"unmutated", "unchanged"} => tree = parent \/ cut
    /\ inner = "committed" => tree # parent
    /\ tree # parent => mutated \/ cut

\* No two records or attachments of the sheets lie in one place: no sheet is
\* rooted beneath another, no attachment has a record file's extension, and none
\* has the name of a record's directory.
Apart ==
    /\ Extension # ""
    /\ \A b, c \in Bases : IsPrefix(b, c) => b = c
    /\ \A n \in Attachments :
          n[2] # Extension /\ \A r, q \in Records : ~IsPrefix(Append(r, n), q)

\* The files of the tree are records and attachments, and every operation
\* touches those it names and what lies in their directories, no others: the
\* session implements SheetStore, if its sheets are Apart.
RecordKeys == {k \in Bases \X Records : Exists(tree, k[1], k[2])}
RecordView == [k \in RecordKeys |-> tree[RecordFile(k[1], k[2])]]

AttachmentKeys ==
    {a \in (Bases \X Records) \X Attachments : HasAttachment(tree, a[1][1], a[1][2], a[2])}
AttachmentView ==
    [a \in AttachmentKeys |-> GetAttachment(tree, a[1][1], a[1][2], a[2])]

Sheets == INSTANCE SheetStore WITH
    record <- RecordView, attached <- AttachmentView, raw <- Node

ImplementsSheets == Sheets!Spec

\* What a rejected validation stands for, as the core documents the two phases:
\* a rejection throws before phase 3, so no bytes of that record are written.
RejectedIsNotWritten ==
    \A c \in Calls : wrote[c] # NoCall => verdict[wrote[c]] = "accepted"
=============================================================================
