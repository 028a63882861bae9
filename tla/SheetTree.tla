----------------------------- MODULE SheetTree -----------------------------
(* Records and attachments as files of one tree: what the core's Sheet does   *)
(* to the tree of a transaction (sheet.rs, record.rs).                         *)
(*                                                                             *)
(* A path is a sequence of names, a name is <<stem, extension>>; a directory   *)
(* or a name without extension has the extension "". A tree maps the paths of  *)
(* its files to what they hold, so a directory exists as long as there is a    *)
(* file in it. A sheet is its effective base, a sequence of directories.       *)
EXTENDS Sequences, SequencesExt, Functions

CONSTANT Extension          \* the extension of record files, e.g. "toml"

NoFile == "absent"

----------------------------------------------------------------------------
(* holo-tree's MutableTree *)

Empty == <<>>

At(tree, path) == IF path \in DOMAIN tree THEN tree[path] ELSE NoFile

\* What is at or beneath a path.
Beneath(tree, path) == {f \in DOMAIN tree : IsPrefix(path, f)}

\* write_child, write_child_hash
Put(tree, path, blob) ==
    [f \in DOMAIN tree \cup {path} |-> IF f = path THEN blob ELSE tree[f]]

\* delete_child_deep: the file, or the directory with all that is in it
Without(tree, path) == Restrict(tree, DOMAIN tree \ Beneath(tree, path))

\* get_child is a Child::Tree
IsDirectory(tree, path) == \E f \in DOMAIN tree : IsStrictPrefix(path, f)

----------------------------------------------------------------------------
(* Where things are *)

Directory(name) == <<name, "">>

\* A record path is a sequence of directories' names without extension.
RecordDir(base, record) == base \o record

RecordFile(base, record) ==
    base \o Front(record) \o << <<Last(record)[1], Extension>> >>

AttachmentFile(base, record, name) == Append(RecordDir(base, record), name)

\* The record path a file below the base stands for, if its name has the extension
IsRecordName(file) == Last(file)[2] = Extension
StripExtension(file) == Append(Front(file), Directory(Last(file)[1]))

----------------------------------------------------------------------------
(* Reads *)

\* The blob map of a subtree: its files at any depth, relative to it.
BlobMap(tree, dir) ==
    {SubSeq(f, Len(dir) + 1, Len(f)) : f \in {g \in DOMAIN tree : IsStrictPrefix(dir, g)}}

\* Every blob under the base whose name has the extension counts as a record.
ListRecordTexts(tree, base) ==
    {StripExtension(f) : f \in {g \in BlobMap(tree, base) : IsRecordName(g)}}

\* What is in the record's directory; the code's None is the empty set.
GetAttachments(tree, base, record) == BlobMap(tree, RecordDir(base, record))

GetAttachment(tree, base, record, name) == At(tree, AttachmentFile(base, record, name))

----------------------------------------------------------------------------
(* Writes: the tree after each *)

NoPath == <<>>

\* A mistake: the record's file is written without its extension.
StageUpsert_NoExtension(tree, base, candidate) ==
    Put(tree, RecordDir(base, candidate.path), candidate.text)

\* A candidate is what prepare_upsert hands to stage_upsert.
StageUpsert(tree, base, candidate) ==
    LET moved == candidate.previous \notin {NoPath, candidate.path}
        rest  == IF moved THEN Without(tree, RecordFile(base, candidate.previous)) ELSE tree
    IN  Put(rest, RecordFile(base, candidate.path), candidate.text)

\* will_change compares with the file at the path the record renders to.
WillChange(tree, base, candidate) ==
    At(tree, RecordFile(base, candidate.path)) # candidate.text

Exists(tree, base, record) == At(tree, RecordFile(base, record)) # NoFile

\* A mistake: delete leaves the attachments behind.
DeleteAtPath_NoCascade(tree, base, record) == Without(tree, RecordFile(base, record))

\* The record's file, and what is in the directory of its name
DeleteAtPath(tree, base, record) ==
    Without(Without(tree, RecordFile(base, record)), RecordDir(base, record))

Clear(tree, base) == Without(tree, base)

\* The attachments that are placed before the first one that cannot be
SetAttachments(tree, base, record, names, blob) ==
    LET placed == {AttachmentFile(base, record, n) : n \in names}
    IN  [f \in DOMAIN tree \cup placed |-> IF f \in placed THEN blob ELSE tree[f]]

HasAttachment(tree, base, record, name) ==
    GetAttachment(tree, base, record, name) # NoFile

DeleteAttachment(tree, base, record, name) ==
    Without(tree, AttachmentFile(base, record, name))

HasAttachmentDir(tree, base, record) == IsDirectory(tree, RecordDir(base, record))

DeleteAttachments(tree, base, record) == Without(tree, RecordDir(base, record))
=============================================================================
