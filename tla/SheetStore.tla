----------------------------- MODULE SheetStore -----------------------------
(* What the sheets of a transaction promise, without trees and files: records  *)
(* with their texts, attachments that belong to records, and what each         *)
(* operation touches. A record is known by its base and its path; one whose    *)
(* path continues another's lies in that one's directory.                      *)
EXTENDS Sequences, SequencesExt, Functions

CONSTANTS Bases, Records, Texts, Attachments

VARIABLES
    record,    \* the text of each record there is
    attached,  \* what each attachment there is holds
    raw        \* may the client also delete files by their paths?

vars == <<record, attached, raw>>

Keys == Bases \X Records

\* In the directory of record k: its attachments, and records beneath it
InDirOf(k, j) == j[1] = k[1] /\ IsPrefix(k[2], j[2])

Drop(f, S) == Restrict(f, DOMAIN f \ S)
Store(f, S, t) == [k \in DOMAIN f \cup S |-> IF k \in S THEN t ELSE f[k]]

Init ==
    /\ record \in {<<>>} \cup {Store(<<>>, {k}, t) : k \in Keys, t \in Texts}
    /\ attached = <<>>
    /\ raw \in BOOLEAN

\* A write of a record touches that record only; one that moves it takes it
\* away from its old path and leaves its attachments there.
Upsert(k, t) ==
    /\ record' = Store(record, {k}, t)
    /\ UNCHANGED attached

Move(j, k, t) ==
    /\ record' = Store(Drop(record, {j}), {k}, t)
    /\ UNCHANGED attached

\* No record stays without the attachments it had: they go with it.
Delete(k) ==
    /\ k \in DOMAIN record
    /\ record' = Drop(record, {j \in Keys : InDirOf(k, j)})
    /\ attached' = Drop(attached, {a \in Keys \X Attachments : InDirOf(k, a[1])})

\* The record itself stays.
DeleteAttachments(k) ==
    /\ record' = Drop(record, {j \in Keys : InDirOf(k, j) /\ j # k})
    /\ attached' = Drop(attached, {a \in Keys \X Attachments : InDirOf(k, a[1])})

Clear(b) ==
    /\ record' = Drop(record, {j \in Keys : j[1] = b})
    /\ attached' = Drop(attached, {a \in Keys \X Attachments : a[1][1] = b})

Attach(k, names, t) ==
    /\ attached' = Store(attached, {k} \X names, t)
    /\ UNCHANGED record

Detach(k, n) ==
    /\ attached' = Drop(attached, {<<k, n>>})
    /\ UNCHANGED record

\* A file deleted by its path takes nothing along.
Unlink(k) ==
    /\ raw
    /\ record' = Drop(record, {k})
    /\ UNCHANGED attached

Next ==
    \/ \E k \in Keys, t \in Texts :
          \/ Upsert(k, t)
          \/ \E r \in Records : Move(<<k[1], r>>, k, t)
          \/ \E names \in SUBSET Attachments : Attach(k, names, t)
    \/ \E k \in Keys :
          \/ Delete(k) \/ DeleteAttachments(k) \/ Unlink(k)
          \/ \E n \in Attachments : Detach(k, n)
    \/ \E b \in Bases : Clear(b)

Spec == Init /\ [][Next /\ UNCHANGED raw]_vars
=============================================================================
