---------------------------- MODULE SessionProofs ----------------------------
(***************************************************************************)
(* Proofs about Session, for any sheets, records, texts and attachments    *)
(* and any number of upserts, nested to any depth; and, in the second      *)
(* half, that Session implements SheetStore.                               *)
(***************************************************************************)
EXTENDS Session, FiniteSetTheorems, SequenceTheorems, TLAPS

TreeOK(t) == DOMAIN t \subseteq Files /\ Range(t) \subseteq Texts

-----------------------------------------------------------------------------
(* What the operations leave of a tree.                                    *)

LEMMA PutKeeps ==
  ASSUME NEW t, TreeOK(t), NEW f \in Files, NEW x \in Texts
  PROVE  TreeOK(Put(t, f, x))
BY DEF Put, TreeOK, Range

LEMMA WithoutKeeps ==
  ASSUME NEW t, TreeOK(t), NEW p
  PROVE  TreeOK(Without(t, p))
BY DEF Without, Restrict, TreeOK, Range

LEMMA SetKeeps ==
  ASSUME NEW t, TreeOK(t), NEW b \in Bases, NEW r \in Records,
         NEW names \in SUBSET Attachments, NEW x \in Texts
  PROVE  TreeOK(SetAttachments(t, b, r, names, x))
<1> DEFINE placed == {AttachmentFile(b, r, n) : n \in names}
<1>1. placed \subseteq Files
  BY DEF Files
<1>2. SetAttachments(t, b, r, names, x)
        = [g \in DOMAIN t \cup placed |-> IF g \in placed THEN x ELSE t[g]]
  BY DEF SetAttachments
<1> HIDE DEF placed
<1> QED BY <1>1, <1>2 DEF TreeOK, Range

LEMMA EmptyIsOK == TreeOK(Empty)
BY DEF TreeOK, Empty, Range

\* An upsert, whether or not the record moves, touches records' files only.
LEMMA StageKeeps ==
  ASSUME NEW t, TreeOK(t), NEW b \in Bases, NEW u \in Candidates
  PROVE  TreeOK(StageUpsert(t, b, u))
<1> DEFINE old == RecordFile(b, u.previous)
<1>1. RecordFile(b, u.path) \in Files /\ u.text \in Texts
  BY DEF Files, Candidates
<1>2. TreeOK(Without(t, old))
  BY WithoutKeeps
<1>3. StageUpsert(t, b, u) \in {Put(t, RecordFile(b, u.path), u.text),
                              Put(Without(t, old), RecordFile(b, u.path), u.text)}
  BY DEF StageUpsert
<1>4. TreeOK(Put(t, RecordFile(b, u.path), u.text))
  BY <1>1, PutKeeps
<1>5. TreeOK(Put(Without(t, old), RecordFile(b, u.path), u.text))
  BY <1>1, <1>2, PutKeeps
<1> HIDE DEF old
<1> QED BY <1>3, <1>4, <1>5

-----------------------------------------------------------------------------
(* The bookkeeping of upserts.                                             *)

CallOf(f) == f[1]
SheetOf(f) == f[2]

\* Calls are numbered as they are made.
InOrder == \E k \in 0 .. MaxCalls : Used = 1 .. k

\* What is pending under a name was prepared by a call that has not been
\* written, and by none of the calls pending under other names.
PendingIsNew ==
  /\ \A n \in Names : pending[n] # NoCandidate =>
       pending[n].call \in Used /\ \A c \in Calls : wrote[c] # pending[n].call
  /\ \A n, m \in Names :
       pending[n] # NoCandidate /\ pending[m] # NoCandidate
         /\ pending[n].call = pending[m].call => n = m

WrittenIsUsed == \A c \in Calls : wrote[c] # NoCall => c \in Used /\ wrote[c] \in Used

\* The running validators: each of a call of its own that has written nothing.
\* As long as nobody has upserted into its sheet meanwhile, what is pending
\* there is its own, or nothing.
FramesAreRunning ==
  /\ Node => frames = <<>>
  /\ \A i \in 1 .. Len(frames) :
       /\ verdict[CallOf(frames[i])] = "running" /\ wrote[CallOf(frames[i])] = NoCall
       /\ \A j \in 1 .. Len(frames) : CallOf(frames[i]) = CallOf(frames[j]) => i = j
       /\ CallOf(frames[i]) \notin shadowed =>
            pending[SheetOf(frames[i])].call \in {NoCall, CallOf(frames[i])}

Bookkeeping ==
  InOrder /\ PendingIsNew /\ WrittenIsUsed /\ FramesAreRunning /\ OnlyAcceptedIsWritten

IInv == TypeOK /\ OutcomeTellsTheChange /\ Bookkeeping

-----------------------------------------------------------------------------
LEMMA Bounds == MaxCalls \in Nat /\ MaxDepth \in Nat
BY ConstantsOK

LEMMA CandidateFacts ==
  ASSUME NEW u \in Candidates \cup {NoCandidate}
  PROVE  /\ u # NoCandidate => u \in Candidates /\ u.call \in Calls /\ u.call # NoCall
         /\ u.call = NoCall <=> u = NoCandidate
         /\ u.call \in Calls \cup {NoCall}
<1>1. NoCandidate.call = NoCall /\ NoCall \notin Calls
  BY Bounds DEF NoCandidate, NoCall, Calls
<1> QED BY <1>1 DEF Candidates

LEMMA InitInv == Init => IInv
<1> SUFFICES ASSUME NEW which \in {"node", "python"}, Begun(which) PROVE IInv
  BY DEF Init, NodeBegin, PyBegin
<1> USE DEF Begun
<1>1. TreeOK(parent)
  <2>1. CASE parent = Empty
    BY <2>1, EmptyIsOK
  <2>2. ASSUME NEW b \in Bases, NEW r \in Records, NEW t \in Texts,
               parent = Put(Empty, RecordFile(b, r), t)
        PROVE  TreeOK(parent)
    <3>1. RecordFile(b, r) \in Files
      BY DEF Files
    <3> QED BY <2>2, <3>1, EmptyIsOK, PutKeeps
  <2> QED BY <2>1, <2>2
<1>2. TypeOK
  <2>1. frames \in Seq(Calls \X Names) /\ Len(frames) <= MaxDepth
    BY Bounds
  <2>2. verdict \in [Calls -> {"unused", "running", "accepted", "rejected"}]
        /\ wrote \in [Calls -> Calls \cup {NoCall}]
    OBVIOUS
  <2>3. sheets \in [Names -> Bases \cup {NotOpened}]
        /\ pending \in [Names -> Candidates \cup {NoCandidate}]
    OBVIOUS
  <2>4. \A t \in {parent, tree} : DOMAIN t \subseteq Files /\ Range(t) \subseteq Texts
    BY <1>1 DEF TreeOK
  <2> QED BY <2>1, <2>2, <2>3, <2>4 DEF TypeOK
<1>3. OutcomeTellsTheChange
  BY DEF OutcomeTellsTheChange
<1>4. Used = {}
  BY DEF Used
<1>5. InOrder
  <2>1. 0 \in 0 .. MaxCalls /\ 1 .. 0 = {}
    BY Bounds
  <2> QED BY <1>4, <2>1 DEF InOrder
<1>6. PendingIsNew /\ WrittenIsUsed /\ OnlyAcceptedIsWritten
  BY DEF PendingIsNew, WrittenIsUsed, OnlyAcceptedIsWritten
<1>7. FramesAreRunning
  BY DEF FramesAreRunning
<1> QED BY <1>2, <1>3, <1>5, <1>6, <1>7 DEF IInv, Bookkeeping

\* The call that is made next has not been made.
LEMMA NextCallIsNew ==
  ASSUME InOrder, NextCall \in Calls
  PROVE  NextCall \notin Used /\ \E k \in 0 .. MaxCalls : Used \cup {NextCall} = 1 .. k
<1>1. PICK k \in 0 .. MaxCalls : Used = 1 .. k
  BY DEF InOrder
<1>2. Cardinality(1 .. k) = k
  BY <1>1, FS_Interval
<1>3. NextCall = k + 1
  BY <1>1, <1>2 DEF NextCall
<1>4. k + 1 \in 0 .. MaxCalls /\ Used \cup {NextCall} = 1 .. (k + 1)
  BY <1>1, <1>3, Bounds DEF Calls
<1> QED BY <1>1, <1>3, <1>4

-----------------------------------------------------------------------------
(* The steps that leave the upserts alone.                                 *)

\* A write of a well-formed tree that is marked
LEMMA WriteStep ==
  ASSUME IInv, inner = "open", NEW t, TreeOK(t), Write(t)
  PROVE  IInv'
<1>1. /\ tree' = t /\ mutated' = TRUE
      /\ UNCHANGED <<binding, inner, parent, sheets, pending, frames, verdict, wrote, shadowed, cut>>
  BY DEF Write, Mutate, history
<1>2. TypeOK'
  BY <1>1 DEF IInv, TypeOK, TreeOK
<1>3. OutcomeTellsTheChange'
  BY <1>1 DEF OutcomeTellsTheChange
<1>4. Bookkeeping'
  BY <1>1 DEF IInv, Bookkeeping, InOrder, PendingIsNew, WrittenIsUsed, FramesAreRunning,
              OnlyAcceptedIsWritten, Used, Node
<1> QED BY <1>2, <1>3, <1>4 DEF IInv

LEMMA TreeIsOK == IInv => TreeOK(tree)
BY DEF IInv, TypeOK, TreeOK

LEMMA DirectWriteStep ==
  ASSUME IInv, NEW n \in Names, NEW r \in Records,
         \/ Delete(n, r) \/ DeleteAll(n, r)
         \/ \E name \in Attachments : DeleteOne(n, r, name)
         \/ \E names \in SUBSET Attachments, blob \in Texts : SetAll(n, r, names, blob)
  PROVE  IInv'
<1>1. CASE Delete(n, r)
  <2>1. TreeOK(DeleteAtPath(tree, sheets[n], r))
    BY TreeIsOK, WithoutKeeps DEF DeleteAtPath
  <2> QED BY <1>1, <2>1, WriteStep DEF Delete, Usable
<1>2. CASE DeleteAll(n, r)
  <2>1. TreeOK(DeleteAttachments(tree, sheets[n], r))
    BY TreeIsOK, WithoutKeeps DEF DeleteAttachments
  <2> QED BY <1>2, <2>1, WriteStep DEF DeleteAll, Usable
<1>3. ASSUME NEW name \in Attachments, DeleteOne(n, r, name)
      PROVE  IInv'
  <2>1. TreeOK(DeleteAttachment(tree, sheets[n], r, name))
    BY TreeIsOK, WithoutKeeps DEF DeleteAttachment
  <2> QED BY <1>3, <2>1, WriteStep DEF DeleteOne, Usable
<1>4. ASSUME NEW names \in SUBSET Attachments, NEW blob \in Texts, SetAll(n, r, names, blob)
      PROVE  IInv'
  <2>1. inner = "open" /\ sheets[n] \in Bases
    BY <1>4 DEF SetAll, Usable, IInv, TypeOK
  <2>2. TreeOK(SetAttachments(tree, sheets[n], r, names, blob))
    BY <2>1, TreeIsOK, SetKeeps
  <2> QED BY <1>4, <2>1, <2>2, WriteStep DEF SetAll
<1> QED BY <1>1, <1>2, <1>3, <1>4

LEMMA ClearStep ==
  ASSUME IInv, NEW n \in Names, ClearSheet(n)
  PROVE  IInv'
<1>1. TreeOK(Clear(tree, sheets[n]))
  BY TreeIsOK, WithoutKeeps DEF Clear
<1> QED BY <1>1, WriteStep DEF ClearSheet, Usable

LEMMA FileStep ==
  ASSUME IInv, NEW f \in Files,
         NodeDeleteFile(f) \/ \E text \in Texts : NodeWriteFile(f, text)
  PROVE  IInv'
<1>1. CASE NodeDeleteFile(f)
  <2>1. TreeOK(Without(tree, f))
    BY TreeIsOK, WithoutKeeps
  <2> QED BY <1>1, <2>1, WriteStep DEF NodeDeleteFile
<1>2. ASSUME NEW text \in Texts, NodeWriteFile(f, text)
      PROVE  IInv'
  <2>1. TreeOK(Put(tree, f, text))
    BY TreeIsOK, PutKeeps
  <2> QED BY <1>2, <2>1, WriteStep DEF NodeWriteFile
<1> QED BY <1>1, <1>2

LEMMA SetAttachmentsFailsStep ==
  ASSUME IInv, NEW n \in Names, NEW r \in Records, NEW placed \in SUBSET Attachments,
         NEW blob \in Texts, SetAttachmentsFails(n, r, placed, blob)
  PROVE  IInv'
<1>1. /\ inner = "open" /\ sheets[n] \in Bases
      /\ tree' = SetAttachments(tree, sheets[n], r, placed, blob)
      /\ cut' = TRUE
      /\ UNCHANGED <<binding, inner, parent, mutated, sheets, pending, frames, verdict, wrote,
                     shadowed>>
  BY DEF SetAttachmentsFails, Usable, IInv, TypeOK
<1>2. TreeOK(tree')
  BY <1>1, TreeIsOK, SetKeeps
<1>3. TypeOK'
  BY <1>1, <1>2 DEF IInv, TypeOK, TreeOK
<1>4. OutcomeTellsTheChange'
  BY <1>1 DEF OutcomeTellsTheChange
<1>5. Bookkeeping'
  BY <1>1 DEF IInv, Bookkeeping, InOrder, PendingIsNew, WrittenIsUsed, FramesAreRunning,
              OnlyAcceptedIsWritten, Used, Node
<1> QED BY <1>3, <1>4, <1>5 DEF IInv

LEMMA OpenSheetStep ==
  ASSUME IInv, NEW n \in Names, NEW b \in Bases, OpenSheet(n, b)
  PROVE  IInv'
<1>1. /\ sheets' = [sheets EXCEPT ![n] = b]
      /\ UNCHANGED <<binding, inner, parent, tree, mutated, pending, frames, verdict, wrote,
                     shadowed, cut>>
  BY DEF OpenSheet, history
<1>2. TypeOK'
  BY <1>1 DEF IInv, TypeOK
<1>3. OutcomeTellsTheChange'
  BY <1>1 DEF IInv, OutcomeTellsTheChange
<1>4. Bookkeeping'
  BY <1>1 DEF IInv, Bookkeeping, InOrder, PendingIsNew, WrittenIsUsed, FramesAreRunning,
              OnlyAcceptedIsWritten, Used, Node
<1> QED BY <1>2, <1>3, <1>4 DEF IInv

\* finalize and discard tell what has become of the tree.
LEMMA EndStep ==
  ASSUME IInv, NEW result \in {Outcome, "failed", "discarded"}, End(result)
  PROVE  IInv'
<1>1. /\ inner = "open" /\ inner' = result
      /\ UNCHANGED <<binding, parent, tree, mutated, sheets, pending, frames, verdict, wrote,
                     shadowed, cut>>
  BY DEF End, history
<1>2. TypeOK'
  BY <1>1 DEF IInv, TypeOK, Outcome
<1>3. OutcomeTellsTheChange'
  BY <1>1 DEF IInv, OutcomeTellsTheChange, Outcome
<1>4. Bookkeeping'
  BY <1>1 DEF IInv, Bookkeeping, InOrder, PendingIsNew, WrittenIsUsed, FramesAreRunning,
              OnlyAcceptedIsWritten, Used, Node
<1> QED BY <1>2, <1>3, <1>4 DEF IInv

-----------------------------------------------------------------------------
(* Upserts.                                                                *)

\* A call is made: it is the next in order.
LEMMA CallMade ==
  ASSUME IInv, NextCall \in Calls, NEW v \in {"running", "accepted", "rejected"},
         verdict' = [verdict EXCEPT ![NextCall] = v]
  PROVE  /\ Used' = Used \cup {NextCall} /\ InOrder' /\ NextCall \notin Used
         /\ verdict'[NextCall] = v
         /\ \A c \in Calls : c # NextCall => verdict'[c] = verdict[c]
<1>1. verdict \in [Calls -> {"unused", "running", "accepted", "rejected"}]
  BY DEF IInv, TypeOK
<1>2. Used' = Used \cup {NextCall}
  BY <1>1 DEF Used
<1>3. NextCall \notin Used /\ \E k \in 0 .. MaxCalls : Used \cup {NextCall} = 1 .. k
  BY NextCallIsNew DEF IInv, Bookkeeping
<1>4. InOrder'
  BY <1>2, <1>3 DEF InOrder
<1> QED BY <1>1, <1>2, <1>3, <1>4

\* What was pending, and what was written, is of calls made before.
LEMMA OldCalls ==
  ASSUME IInv, NextCall \in Calls
  PROVE  /\ \A n \in Names : pending[n].call # NextCall
         /\ \A c \in Calls : wrote[c] # NextCall /\ wrote[NextCall] = NoCall
<1>1. NextCall \notin Used
  BY NextCallIsNew DEF IInv, Bookkeeping
<1>2. NextCall # NoCall
  BY Bounds DEF Calls, NoCall
<1>3. ASSUME NEW n \in Names
      PROVE  pending[n].call # NextCall
  <2>1. pending[n] \in Candidates \cup {NoCandidate}
    BY DEF IInv, TypeOK
  <2> QED BY <1>1, <1>2, <2>1, CandidateFacts DEF IInv, Bookkeeping, PendingIsNew
<1>4. \A c \in Calls : wrote[c] # NextCall /\ wrote[NextCall] = NoCall
  BY <1>1, <1>2 DEF IInv, Bookkeeping, WrittenIsUsed
<1> QED BY <1>3, <1>4

LEMMA PreparedIs ==
  ASSUME NextCall \in Calls, NEW r \in Records, NEW prev \in Records \cup {NoPath},
         NEW text \in Texts
  PROVE  /\ Prepared(r, prev, text) \in Candidates
         /\ Prepared(r, prev, text).call = NextCall
         /\ Prepared(r, prev, text) # NoCandidate
<1>1. Prepared(r, prev, text).call = NextCall /\ NextCall # NoCall
  BY Bounds DEF Prepared, Calls, NoCall
<1>2. NoCandidate.call = NoCall
  BY DEF NoCandidate
<1> QED BY <1>1, <1>2 DEF Prepared, Candidates

LEMMA NodeUpsertStep ==
  ASSUME IInv, NEW n \in Names, NEW r \in Records, NEW prev \in Records \cup {NoPath},
         NEW text \in Texts, NodeUpsert(n, r, prev, text)
  PROVE  IInv'
<1> DEFINE u == Prepared(r, prev, text)
           me == NextCall
<1>1. /\ Node /\ Usable(n) /\ me \in Calls
      /\ tree' = StageUpsert(tree, sheets[n], u) /\ mutated' = TRUE
      /\ pending' = [pending EXCEPT ![n] = NoCandidate]
      /\ verdict' = [verdict EXCEPT ![me] = "accepted"]
      /\ wrote' = [wrote EXCEPT ![me] = u.call]
      /\ UNCHANGED <<binding, inner, parent, sheets, frames, shadowed, cut>>
  BY DEF NodeUpsert, Stage, Mutate, TakePending
<1>2. u \in Candidates /\ u.call = me
  BY <1>1, PreparedIs
<1>3. /\ Used' = Used \cup {me} /\ InOrder' /\ me \notin Used
      /\ verdict'[me] = "accepted"
      /\ \A c \in Calls : c # me => verdict'[c] = verdict[c]
  BY <1>1, CallMade
<1>4. /\ \A m \in Names : pending[m].call # me
      /\ \A c \in Calls : wrote[c] # me /\ wrote[me] = NoCall
  BY <1>1, OldCalls
<1> HIDE DEF u, me
<1>5. inner = "open" /\ sheets[n] \in Bases
  BY <1>1 DEF Usable, IInv, TypeOK
<1>6. TreeOK(tree')
  BY <1>1, <1>2, <1>5, TreeIsOK, StageKeeps
<1>7. TypeOK'
  BY <1>1, <1>2, <1>6 DEF IInv, TypeOK, TreeOK
<1>8. OutcomeTellsTheChange'
  BY <1>1, <1>5 DEF OutcomeTellsTheChange
<1>9. /\ wrote'[me] = me /\ \A c \in Calls : c # me => wrote'[c] = wrote[c]
      /\ pending'[n] = NoCandidate /\ \A m \in Names : m # n => pending'[m] = pending[m]
  BY <1>1, <1>2 DEF IInv, TypeOK
<1>10. PendingIsNew'
  <2>1. ASSUME NEW m \in Names, pending'[m] # NoCandidate
        PROVE  m # n /\ pending'[m] = pending[m] /\ pending'[m].call \in Used'
               /\ \A c \in Calls : wrote'[c] # pending'[m].call
    BY <1>3, <1>4, <1>9, <2>1 DEF IInv, Bookkeeping, PendingIsNew
  <2> QED BY <2>1 DEF IInv, Bookkeeping, PendingIsNew
<1>11. WrittenIsUsed'
  BY <1>3, <1>9 DEF IInv, Bookkeeping, WrittenIsUsed
<1>12. FramesAreRunning'
  BY <1>1 DEF IInv, Bookkeeping, FramesAreRunning, Node
<1>13. OnlyAcceptedIsWritten'
  BY <1>1, <1>3, <1>4, <1>9 DEF IInv, Bookkeeping, OnlyAcceptedIsWritten
<1> QED BY <1>3, <1>7, <1>8, <1>10, <1>11, <1>12, <1>13 DEF IInv, Bookkeeping

\* What a prepare does to the books, whoever calls it.
LEMMA PrepareKeeps ==
  ASSUME IInv, NEW n \in Names, NEW r \in Records, NEW prev \in Records \cup {NoPath},
         NEW text \in Texts, Prepare(n, Prepared(r, prev, text)),
         NEW v \in {"running", "rejected"}, verdict' = [verdict EXCEPT ![NextCall] = v],
         UNCHANGED <<wrote>>
  PROVE  /\ InOrder' /\ PendingIsNew' /\ WrittenIsUsed' /\ NextCall \in Calls
         /\ NextCall \notin Used /\ wrote[NextCall] = NoCall
         /\ verdict' \in [Calls -> {"unused", "running", "accepted", "rejected"}]
         /\ pending' \in [Names -> Candidates \cup {NoCandidate}]
         /\ pending'[n].call = NextCall /\ inner = "open"
         /\ \A m \in Names : m # n => pending'[m] = pending[m]
         /\ verdict'[NextCall] = v /\ \A c \in Calls : c # NextCall => verdict'[c] = verdict[c]
<1> DEFINE u == Prepared(r, prev, text)
           me == NextCall
<1>1. me \in Calls /\ inner = "open" /\ pending' = [pending EXCEPT ![n] = u]
  BY DEF Prepare, Usable
<1>2. u \in Candidates /\ u.call = me
  BY <1>1, PreparedIs
<1>3. /\ Used' = Used \cup {me} /\ InOrder' /\ me \notin Used
      /\ verdict'[me] = v
      /\ \A c \in Calls : c # me => verdict'[c] = verdict[c]
  BY <1>1, CallMade
<1>4. /\ \A m \in Names : pending[m].call # me
      /\ \A c \in Calls : wrote[c] # me /\ wrote[me] = NoCall
  BY <1>1, OldCalls
<1>5. verdict' \in [Calls -> {"unused", "running", "accepted", "rejected"}]
  BY DEF IInv, TypeOK
<1> HIDE DEF u, me
<1>6. pending' \in [Names -> Candidates \cup {NoCandidate}]
      /\ pending'[n] = u /\ \A m \in Names : m # n => pending'[m] = pending[m]
  BY <1>1, <1>2 DEF IInv, TypeOK
<1>7. PendingIsNew'
  <2>1. ASSUME NEW m \in Names, pending'[m] # NoCandidate
        PROVE  pending'[m].call \in Used' /\ \A c \in Calls : wrote'[c] # pending'[m].call
    <3>1. CASE m = n
      BY <1>2, <1>3, <1>4, <1>6, <3>1
    <3>2. CASE m # n
      BY <1>3, <1>6, <2>1, <3>2 DEF IInv, Bookkeeping, PendingIsNew
    <3> QED BY <3>1, <3>2
  <2>2. ASSUME NEW m \in Names, NEW q \in Names, pending'[m] # NoCandidate,
               pending'[q] # NoCandidate, pending'[m].call = pending'[q].call
        PROVE  m = q
    <3>1. CASE m # n /\ q # n
      BY <1>6, <2>2, <3>1 DEF IInv, Bookkeeping, PendingIsNew
    <3>2. CASE (m = n /\ q # n) \/ (m # n /\ q = n)
      BY <1>2, <1>4, <1>6, <2>2, <3>2
    <3> QED BY <3>1, <3>2
  <2> QED BY <2>1, <2>2 DEF PendingIsNew
<1>8. WrittenIsUsed'
  BY <1>3 DEF IInv, Bookkeeping, WrittenIsUsed
<1>9. me \in Calls /\ me \notin Used /\ wrote[me] = NoCall
  BY <1>1, <1>3, <1>4
<1> QED BY <1>1, <1>2, <1>3, <1>5, <1>6, <1>7, <1>8, <1>9 DEF me

LEMMA NodePrepareOnlyStep ==
  ASSUME IInv, NEW n \in Names, NEW r \in Records, NEW prev \in Records \cup {NoPath},
         NEW text \in Texts, NodePrepareOnly(n, r, prev, text)
  PROVE  IInv'
<1>1. /\ Node /\ Prepare(n, Prepared(r, prev, text))
      /\ verdict' = [verdict EXCEPT ![NextCall] = "rejected"]
      /\ UNCHANGED <<binding, inner, parent, tree, mutated, sheets, frames, wrote, shadowed, cut>>
  BY DEF NodePrepareOnly
<1>2. /\ InOrder' /\ PendingIsNew' /\ WrittenIsUsed'
      /\ NextCall \in Calls /\ wrote[NextCall] = NoCall
      /\ verdict' \in [Calls -> {"unused", "running", "accepted", "rejected"}]
      /\ pending' \in [Names -> Candidates \cup {NoCandidate}]
      /\ \A c \in Calls : c # NextCall => verdict'[c] = verdict[c]
  BY <1>1, PrepareKeeps
<1>3. TypeOK'
  BY <1>1, <1>2 DEF IInv, TypeOK
<1>4. OutcomeTellsTheChange'
  BY <1>1 DEF IInv, OutcomeTellsTheChange
<1>5. FramesAreRunning'
  BY <1>1 DEF IInv, Bookkeeping, FramesAreRunning, Node
<1>6. OnlyAcceptedIsWritten'
  BY <1>1, <1>2 DEF IInv, Bookkeeping, OnlyAcceptedIsWritten
<1> QED BY <1>2, <1>3, <1>4, <1>5, <1>6 DEF IInv, Bookkeeping

\* A validator begins: those below it in the same sheet lose what they prepared.
LEMMA PyPrepareStep ==
  ASSUME IInv, NEW n \in Names, NEW r \in Records, NEW prev \in Records \cup {NoPath},
         NEW text \in Texts, PyPrepare(n, r, prev, text)
  PROVE  IInv'
<1> DEFINE me == NextCall
<1>1. /\ Python /\ Prepare(n, Prepared(r, prev, text))
      /\ Len(frames) < MaxDepth
      /\ frames' = Append(frames, <<me, n>>)
      /\ shadowed' = shadowed \cup {f[1] : f \in {g \in Range(frames) : g[2] = n}}
      /\ verdict' = [verdict EXCEPT ![me] = "running"]
      /\ UNCHANGED <<binding, inner, parent, tree, mutated, sheets, wrote, cut>>
  BY DEF PyPrepare
<1>2. /\ InOrder' /\ PendingIsNew' /\ WrittenIsUsed'
      /\ me \in Calls /\ me \notin Used /\ wrote[me] = NoCall
      /\ verdict' \in [Calls -> {"unused", "running", "accepted", "rejected"}]
      /\ pending' \in [Names -> Candidates \cup {NoCandidate}]
      /\ pending'[n].call = me
      /\ \A m \in Names : m # n => pending'[m] = pending[m]
      /\ verdict'[me] = "running" /\ \A c \in Calls : c # me => verdict'[c] = verdict[c]
  BY <1>1, PrepareKeeps
<1> HIDE DEF me
<1>3. frames \in Seq(Calls \X Names) /\ Len(frames) \in Nat
  BY DEF IInv, TypeOK
<1>4. /\ frames' \in Seq(Calls \X Names) /\ Len(frames') = Len(frames) + 1
      /\ frames'[Len(frames) + 1] = <<me, n>>
      /\ \A i \in 1 .. Len(frames) : frames'[i] = frames[i] /\ frames[i] \in Calls \X Names
  BY <1>1, <1>2, <1>3
<1>5. \A i \in 1 .. Len(frames) : frames[i] \in Range(frames)
  BY <1>3 DEF Range
<1>6. shadowed' \subseteq Calls /\ shadowed \subseteq shadowed'
  <2>1. \A f \in Range(frames) : f[1] \in Calls
    BY <1>3 DEF Range
  <2> QED BY <1>1, <2>1 DEF IInv, TypeOK
<1>7. TypeOK'
  <2>1. Len(frames') <= MaxDepth
    BY <1>1, <1>3, <1>4, Bounds
  <2> QED BY <1>1, <1>2, <1>4, <1>6, <2>1 DEF IInv, TypeOK
<1>8. OutcomeTellsTheChange'
  BY <1>1 DEF IInv, OutcomeTellsTheChange
<1>9. ASSUME NEW i \in 1 .. Len(frames)
      PROVE  /\ CallOf(frames[i]) # me
             /\ verdict'[CallOf(frames[i])] = "running" /\ wrote'[CallOf(frames[i])] = NoCall
             /\ CallOf(frames[i]) \notin shadowed' =>
                  pending'[SheetOf(frames[i])].call \in {NoCall, CallOf(frames[i])}
  <2>1. /\ verdict[CallOf(frames[i])] = "running" /\ wrote[CallOf(frames[i])] = NoCall
        /\ CallOf(frames[i]) \notin shadowed =>
             pending[SheetOf(frames[i])].call \in {NoCall, CallOf(frames[i])}
    BY DEF IInv, Bookkeeping, FramesAreRunning
  <2>2. CallOf(frames[i]) \in Calls /\ SheetOf(frames[i]) \in Names
    BY <1>4 DEF CallOf, SheetOf
  <2>3. CallOf(frames[i]) # me
    BY <1>2, <2>1, <2>2 DEF Used
  <2>4. SheetOf(frames[i]) = n => CallOf(frames[i]) \in shadowed'
    BY <1>1, <1>5 DEF SheetOf, CallOf
  <2> QED BY <1>1, <1>2, <1>6, <2>1, <2>2, <2>3, <2>4
<1>10. FramesAreRunning'
  <2>1. CallOf(frames'[Len(frames) + 1]) = me /\ SheetOf(frames'[Len(frames) + 1]) = n
    BY <1>4 DEF CallOf, SheetOf
  <2>2. ASSUME NEW i \in 1 .. Len(frames')
        PROVE  /\ verdict'[CallOf(frames'[i])] = "running" /\ wrote'[CallOf(frames'[i])] = NoCall
               /\ CallOf(frames'[i]) \notin shadowed' =>
                    pending'[SheetOf(frames'[i])].call \in {NoCall, CallOf(frames'[i])}
    <3>1. CASE i = Len(frames) + 1
      BY <1>1, <1>2, <2>1, <3>1
    <3>2. CASE i # Len(frames) + 1
      <4>1. i \in 1 .. Len(frames)
        BY <1>3, <1>4, <3>2
      <4> QED BY <1>4, <1>9, <4>1
    <3> QED BY <3>1, <3>2
  <2>3. ASSUME NEW i \in 1 .. Len(frames'), NEW j \in 1 .. Len(frames'),
               CallOf(frames'[i]) = CallOf(frames'[j])
        PROVE  i = j
    <3>1. \A k \in 1 .. Len(frames') : k \in 1 .. Len(frames) \/ k = Len(frames) + 1
      BY <1>3, <1>4
    <3>2. CASE i \in 1 .. Len(frames) /\ j \in 1 .. Len(frames)
      <4>1. CallOf(frames[i]) = CallOf(frames[j])
        BY <1>4, <2>3, <3>2
      <4> QED BY <3>2, <4>1 DEF IInv, Bookkeeping, FramesAreRunning
    <3>3. CASE i \in 1 .. Len(frames) /\ j = Len(frames) + 1
      BY <1>4, <1>9, <2>1, <2>3, <3>3
    <3>4. CASE j \in 1 .. Len(frames) /\ i = Len(frames) + 1
      BY <1>4, <1>9, <2>1, <2>3, <3>4
    <3> QED BY <3>1, <3>2, <3>3, <3>4
  <2>4. ~Node'
    BY <1>1 DEF Python, Node
  <2> QED BY <2>2, <2>3, <2>4 DEF FramesAreRunning
<1>11. OnlyAcceptedIsWritten'
  BY <1>1, <1>2, <1>6 DEF IInv, Bookkeeping, OnlyAcceptedIsWritten
<1> QED BY <1>2, <1>7, <1>8, <1>10, <1>11 DEF IInv, Bookkeeping

\* The first n entries of a sequence, and what is left of it without its last one.
LEMMA PrefixFacts ==
  ASSUME NEW S, NEW s \in Seq(S), NEW n \in 0 .. Len(s)
  PROVE  /\ SubSeq(s, 1, n) \in Seq(S)
         /\ Len(SubSeq(s, 1, n)) = n
         /\ \A i \in 1 .. n : SubSeq(s, 1, n)[i] = s[i]
<1>1. SubSeq(s, 1, n) \in Seq(S)
  BY SMTT(60)
<1>2. Len(SubSeq(s, 1, n)) = n
  BY SMTT(60)
<1>3. \A i \in 1 .. n : SubSeq(s, 1, n)[i] = s[i]
  BY SMTT(60)
<1> QED BY <1>1, <1>2, <1>3, Zenon

LEMMA FrontFacts ==
  ASSUME NEW S, NEW s \in Seq(S), Len(s) > 0
  PROVE  /\ Front(s) \in Seq(S) /\ Len(Front(s)) = Len(s) - 1
         /\ \A i \in 1 .. (Len(s) - 1) : Front(s)[i] = s[i]
<1> DEFINE n == Len(s) - 1
<1>1. n \in 0 .. Len(s)
  OBVIOUS
<1>2. Front(s) = SubSeq(s, 1, n)
  BY DEF Front
<1> HIDE DEF n
<1>3. /\ Front(s) \in Seq(S) /\ Len(Front(s)) = n
      /\ \A i \in 1 .. n : Front(s)[i] = s[i]
  BY <1>1, <1>2, PrefixFacts, Zenon
<1> QED BY <1>3 DEF n

\* The innermost validator ends; the others go on as they were.
LEMMA ReturnKeeps ==
  ASSUME IInv, NEW result \in {"accepted", "rejected"}, Returns(result),
         UNCHANGED <<binding, shadowed>>
  PROVE  LET me == CallOf(Last(frames)) IN
         /\ ~Node /\ Last(frames) \in Calls \X Names
         /\ verdict[me] = "running" /\ wrote[me] = NoCall
         /\ me \notin shadowed => pending[SheetOf(Last(frames))].call \in {NoCall, me}
         /\ verdict' \in [Calls -> {"unused", "running", "accepted", "rejected"}]
         /\ verdict'[me] = result /\ \A c \in Calls : c # me => verdict'[c] = verdict[c]
         /\ Used' = Used /\ me \in Used
         /\ frames' \in Seq(Calls \X Names) /\ Len(frames') <= MaxDepth
         /\ \A i \in 1 .. Len(frames') :
              /\ i \in 1 .. Len(frames) /\ frames'[i] = frames[i] /\ frames[i] \in Calls \X Names
              /\ CallOf(frames[i]) # me
<1> DEFINE k == Len(frames)
           me == CallOf(Last(frames))
<1>1. /\ Python /\ frames # <<>> /\ frames' = Front(frames)
      /\ verdict' = [verdict EXCEPT ![me] = result]
  BY DEF Returns, CallOf
<1>2. frames \in Seq(Calls \X Names) /\ k \in Nat /\ k <= MaxDepth
  BY DEF IInv, TypeOK
<1>3. k > 0
  BY <1>1, <1>2
<1>4. Last(frames) = frames[k] /\ frames[k] \in Calls \X Names
  BY <1>2, <1>3 DEF Last
<1>5. frames' \in Seq(Calls \X Names) /\ Len(frames') = k - 1
      /\ \A i \in 1 .. (k - 1) : frames'[i] = frames[i]
  BY <1>1, <1>2, <1>3, FrontFacts
<1>6. me \in Calls
  BY <1>4 DEF CallOf
<1>7. /\ verdict[me] = "running" /\ wrote[me] = NoCall
      /\ me \notin shadowed => pending[SheetOf(Last(frames))].call \in {NoCall, me}
      /\ \A i \in 1 .. k : CallOf(frames[i]) = me => i = k
  BY <1>2, <1>3, <1>4 DEF IInv, Bookkeeping, FramesAreRunning
<1>8. verdict \in [Calls -> {"unused", "running", "accepted", "rejected"}]
  BY DEF IInv, TypeOK
<1> HIDE DEF me
<1>9. /\ verdict' \in [Calls -> {"unused", "running", "accepted", "rejected"}]
      /\ verdict'[me] = result /\ \A c \in Calls : c # me => verdict'[c] = verdict[c]
  BY <1>1, <1>6, <1>8
<1>10. Used' = Used /\ me \in Used
  BY <1>6, <1>7, <1>9 DEF Used
<1>11. Len(frames') <= MaxDepth
  BY <1>2, <1>5, Bounds
<1>12. ASSUME NEW i \in 1 .. Len(frames')
       PROVE  /\ i \in 1 .. Len(frames) /\ frames'[i] = frames[i] /\ frames[i] \in Calls \X Names
              /\ CallOf(frames[i]) # me
  <2>1. i \in 1 .. k /\ i # k /\ i \in 1 .. (k - 1)
    BY <1>2, <1>5
  <2> QED BY <1>2, <1>5, <1>7, <2>1
<1>13. ~Node
  BY <1>1 DEF Python, Node
<1> QED BY <1>4, <1>5, <1>7, <1>9, <1>10, <1>11, <1>12, <1>13 DEF me

\* The frames that are left, when nothing but the innermost call's own books and
\* what was pending for it has changed.
LEMMA FramesLeft ==
  ASSUME IInv, NEW result \in {"accepted", "rejected"}, Returns(result),
         UNCHANGED <<binding, shadowed>>,
         \A c \in Calls : c # CallOf(Last(frames)) => wrote'[c] = wrote[c],
         \A n \in Names : pending'[n] \in {pending[n], NoCandidate}
  PROVE  FramesAreRunning'
<1>1. /\ ~Node
      /\ \A c \in Calls : c # CallOf(Last(frames)) => verdict'[c] = verdict[c]
      /\ \A i \in 1 .. Len(frames') :
           /\ i \in 1 .. Len(frames) /\ frames'[i] = frames[i] /\ frames[i] \in Calls \X Names
           /\ CallOf(frames[i]) # CallOf(Last(frames))
  BY ReturnKeeps
<1>2. ASSUME NEW i \in 1 .. Len(frames')
      PROVE  /\ verdict'[CallOf(frames'[i])] = "running" /\ wrote'[CallOf(frames'[i])] = NoCall
             /\ CallOf(frames'[i]) \notin shadowed' =>
                  pending'[SheetOf(frames'[i])].call \in {NoCall, CallOf(frames'[i])}
  <2>1. CallOf(frames[i]) \in Calls /\ SheetOf(frames[i]) \in Names
    BY <1>1 DEF CallOf, SheetOf
  <2>2. /\ verdict[CallOf(frames[i])] = "running" /\ wrote[CallOf(frames[i])] = NoCall
        /\ CallOf(frames[i]) \notin shadowed =>
             pending[SheetOf(frames[i])].call \in {NoCall, CallOf(frames[i])}
    BY <1>1 DEF IInv, Bookkeeping, FramesAreRunning
  <2>3. NoCandidate.call = NoCall
    BY DEF NoCandidate
  <2>4. pending'[SheetOf(frames[i])].call \in {NoCall, pending[SheetOf(frames[i])].call}
    BY <2>1, <2>3
  <2> QED BY <1>1, <2>1, <2>2, <2>4
<1>3. ASSUME NEW i \in 1 .. Len(frames'), NEW j \in 1 .. Len(frames'),
             CallOf(frames'[i]) = CallOf(frames'[j])
      PROVE  i = j
  BY <1>1, <1>3 DEF IInv, Bookkeeping, FramesAreRunning
<1>4. ~Node'
  BY <1>1 DEF Node
<1> QED BY <1>2, <1>3, <1>4 DEF FramesAreRunning

LEMMA PyStageStep ==
  ASSUME IInv, PyStage
  PROVE  IInv'
<1> DEFINE me == CallOf(Last(frames))
           n == SheetOf(Last(frames))
           u == pending[n]
<1>1. /\ Returns("accepted") /\ Usable(n) /\ u # NoCandidate
      /\ tree' = StageUpsert(tree, sheets[n], u) /\ mutated' = TRUE
      /\ pending' = [pending EXCEPT ![n] = NoCandidate]
      /\ wrote' = [wrote EXCEPT ![me] = u.call]
      /\ UNCHANGED <<binding, inner, parent, sheets, shadowed, cut>>
  BY DEF PyStage, Stage, Mutate, TakePending, CallOf, SheetOf
<1>2. /\ Last(frames) \in Calls \X Names
      /\ verdict[me] = "running" /\ wrote[me] = NoCall
      /\ me \notin shadowed => u.call \in {NoCall, me}
      /\ verdict' \in [Calls -> {"unused", "running", "accepted", "rejected"}]
      /\ verdict'[me] = "accepted" /\ \A c \in Calls : c # me => verdict'[c] = verdict[c]
      /\ Used' = Used /\ me \in Used
      /\ frames' \in Seq(Calls \X Names) /\ Len(frames') <= MaxDepth
  BY <1>1, ReturnKeeps
<1>3. me \in Calls /\ n \in Names
  BY <1>2 DEF CallOf, SheetOf
<1>4. u \in Candidates /\ u.call \in Calls /\ u.call # NoCall
  <2>1. u \in Candidates \cup {NoCandidate}
    BY <1>3 DEF IInv, TypeOK
  <2> QED BY <1>1, <2>1, CandidateFacts
<1>5. u.call \in Used /\ \A c \in Calls : wrote[c] # u.call
  BY <1>1, <1>3 DEF IInv, Bookkeeping, PendingIsNew
<1>6. inner = "open" /\ sheets[n] \in Bases
  BY <1>1, <1>3 DEF Usable, IInv, TypeOK
<1>7. TreeOK(tree')
  BY <1>1, <1>4, <1>6, TreeIsOK, StageKeeps
<1> HIDE DEF me, n, u
<1>8. /\ wrote' \in [Calls -> Calls \cup {NoCall}]
      /\ wrote'[me] = u.call /\ \A c \in Calls : c # me => wrote'[c] = wrote[c]
      /\ pending' \in [Names -> Candidates \cup {NoCandidate}]
      /\ pending'[n] = NoCandidate /\ \A m \in Names : m # n => pending'[m] = pending[m]
  BY <1>1, <1>3, <1>4 DEF IInv, TypeOK
<1>9. TypeOK'
  BY <1>1, <1>2, <1>7, <1>8 DEF IInv, TypeOK, TreeOK
<1>10. OutcomeTellsTheChange'
  BY <1>1, <1>6 DEF OutcomeTellsTheChange
<1>11. InOrder' /\ WrittenIsUsed'
  BY <1>2, <1>5, <1>8 DEF IInv, Bookkeeping, InOrder, WrittenIsUsed
<1>12. PendingIsNew'
  <2>1. ASSUME NEW m \in Names, pending'[m] # NoCandidate
        PROVE  /\ m # n /\ pending'[m] = pending[m] /\ pending'[m].call \in Used'
               /\ \A c \in Calls : wrote'[c] # pending'[m].call
    <3>1. m # n /\ pending'[m] = pending[m]
      BY <1>8, <2>1
    <3>2. pending[m].call # u.call
      BY <1>1, <1>3, <2>1, <3>1 DEF IInv, Bookkeeping, PendingIsNew, u
    <3> QED BY <1>2, <1>8, <2>1, <3>1, <3>2, SMTT(60) DEF IInv, Bookkeeping, PendingIsNew
  <2> QED BY <2>1 DEF IInv, Bookkeeping, PendingIsNew
<1>13. FramesAreRunning'
  <2>1. \A m \in Names : pending'[m] \in {pending[m], NoCandidate}
    BY <1>8
  <2> QED BY <1>1, <1>8, <2>1, FramesLeft DEF me
<1>14. OnlyAcceptedIsWritten'
  <2>1. ASSUME NEW c \in Calls \ shadowed', wrote'[c] # NoCall
        PROVE  wrote'[c] = c /\ verdict'[c] = "accepted"
    <3>1. CASE c = me
      BY <1>1, <1>2, <1>4, <1>8, <2>1, <3>1
    <3>2. CASE c # me
      BY <1>1, <1>2, <1>8, <2>1, <3>2, ZenonT(60) DEF IInv, Bookkeeping, OnlyAcceptedIsWritten
    <3> QED BY <3>1, <3>2
  <2>2. ASSUME NEW c \in Calls, NEW d \in Calls, wrote'[c] = wrote'[d], wrote'[c] # NoCall
        PROVE  c = d
    <3>1. CASE c # me /\ d # me
      BY <1>8, <2>2, <3>1 DEF IInv, Bookkeeping, OnlyAcceptedIsWritten
    <3>2. CASE (c = me /\ d # me) \/ (c # me /\ d = me)
      BY <1>5, <1>8, <2>2, <3>2
    <3> QED BY <3>1, <3>2
  <2> QED BY <2>1, <2>2 DEF OnlyAcceptedIsWritten
<1> QED BY <1>9, <1>10, <1>11, <1>12, <1>13, <1>14 DEF IInv, Bookkeeping

\* A validator that ends without a write
LEMMA ReturnStep ==
  ASSUME IInv, PyStageFails \/ PyReject
  PROVE  IInv'
<1>1. PICK result \in {"accepted", "rejected"} : Returns(result)
  BY DEF PyStageFails, PyReject
<1>2. UNCHANGED <<binding, inner, parent, tree, mutated, sheets, pending, wrote, shadowed, cut>>
  BY DEF PyStageFails, PyReject
<1> DEFINE me == CallOf(Last(frames))
<1>3. /\ wrote[me] = NoCall
      /\ verdict' \in [Calls -> {"unused", "running", "accepted", "rejected"}]
      /\ \A c \in Calls : c # me => verdict'[c] = verdict[c]
      /\ Used' = Used
      /\ frames' \in Seq(Calls \X Names) /\ Len(frames') <= MaxDepth
  BY <1>1, <1>2, ReturnKeeps
<1>4. FramesAreRunning'
  BY <1>1, <1>2, FramesLeft
<1> HIDE DEF me
<1>5. TypeOK'
  BY <1>2, <1>3 DEF IInv, TypeOK
<1>6. OutcomeTellsTheChange'
  BY <1>2 DEF IInv, OutcomeTellsTheChange
<1>7. InOrder' /\ PendingIsNew' /\ WrittenIsUsed'
  BY <1>2, <1>3 DEF IInv, Bookkeeping, InOrder, PendingIsNew, WrittenIsUsed
<1>8. OnlyAcceptedIsWritten'
  BY <1>2, <1>3 DEF IInv, Bookkeeping, OnlyAcceptedIsWritten
<1> QED BY <1>4, <1>5, <1>6, <1>7, <1>8 DEF IInv, Bookkeeping

-----------------------------------------------------------------------------
LEMMA StepInv == IInv /\ [Next]_vars => IInv'
<1> SUFFICES ASSUME IInv, [Next]_vars PROVE IInv'
  OBVIOUS
<1>1. CASE UNCHANGED vars
  BY <1>1 DEF vars, IInv, TypeOK, OutcomeTellsTheChange, Bookkeeping, InOrder, PendingIsNew,
              WrittenIsUsed, FramesAreRunning, OnlyAcceptedIsWritten, Used, Node
<1>2. ASSUME NEW n \in Names, NEW b \in Bases, NodeOpenSheet(n, b) \/ PyOpenSheet(n, b)
      PROVE  IInv'
  BY <1>2, OpenSheetStep DEF NodeOpenSheet, PyOpenSheet
<1>3. ASSUME NEW n \in Names, NEW r \in Records, NEW prev \in Records \cup {NoPath},
             NEW text \in Texts,
             \/ NodeUpsert(n, r, prev, text) \/ NodePrepareOnly(n, r, prev, text)
             \/ PyPrepare(n, r, prev, text)
      PROVE  IInv'
  BY <1>3, NodeUpsertStep, NodePrepareOnlyStep, PyPrepareStep
<1>4. CASE PyStage \/ PyStageFails \/ PyReject
  BY <1>4, PyStageStep, ReturnStep
<1>5. ASSUME NEW n \in Names, NEW r \in Records,
             \/ NodeDelete(n, r) \/ PyDelete(n, r)
             \/ NodeDeleteAttachments(n, r) \/ PyDeleteAttachments(n, r)
      PROVE  IInv'
  BY <1>5, DirectWriteStep
    DEF NodeDelete, PyDelete, NodeDeleteAttachments, PyDeleteAttachments
<1>6. ASSUME NEW n \in Names, NEW r \in Records, NEW names \in SUBSET Attachments,
             NEW blob \in Texts,
             \/ NodeSetAttachments(n, r, names, blob) \/ PySetAttachments(n, r, names, blob)
             \/ SetAttachmentsFails(n, r, names, blob)
      PROVE  IInv'
  BY <1>6, DirectWriteStep, SetAttachmentsFailsStep DEF NodeSetAttachments, PySetAttachments
<1>7. ASSUME NEW n \in Names, NEW r \in Records, NEW name \in Attachments,
             \/ NodeDeleteAttachment(n, r, name) \/ PyDeleteAttachment(n, r, name)
             \/ \E blob \in Texts :
                   NodeSetAttachment(n, r, name, blob) \/ PySetAttachment(n, r, name, blob)
      PROVE  IInv'
  <2>1. {name} \in SUBSET Attachments
    OBVIOUS
  <2> QED BY <1>7, <2>1, DirectWriteStep
        DEF NodeDeleteAttachment, PyDeleteAttachment, NodeSetAttachment, PySetAttachment,
            NodeSetAttachments, PySetAttachments
<1>8. ASSUME NEW n \in Names, NodeClear(n) \/ PyClear(n)
      PROVE  IInv'
  BY <1>8, ClearStep DEF NodeClear, PyClear
<1>9. ASSUME NEW f \in Files,
             NodeDeleteFile(f) \/ \E text \in Texts : NodeWriteFile(f, text)
      PROVE  IInv'
  BY <1>9, FileStep
<1>10. CASE NodeFinalize \/ NodeDiscard \/ PyFinalize \/ PyDiscard
  BY <1>10, EndStep DEF NodeFinalize, NodeDiscard, PyFinalize, PyDiscard
<1> QED BY <1>1, <1>2, <1>3, <1>4, <1>5, <1>6, <1>7, <1>8, <1>9, <1>10 DEF Next

LEMMA Invariance == Spec => []IInv
<1> QED BY InitInv, StepInv, PTL DEF Spec

-----------------------------------------------------------------------------
\* Every variable stays within its type; above all, the files of the tree are
\* records and attachments (the fields of CoreTransaction, sheet.rs).
THEOREM TypeCorrect == Spec => []TypeOK
<1>1. IInv => TypeOK
  BY DEF IInv
<1> QED BY <1>1, Invariance, PTL

\* However deeply upserts are nested in each other's validators: one whose
\* validator leaves its sheet alone writes its own record, after its validator
\* has accepted, or nothing, and no candidate is written twice (prepare_upsert,
\* stage_upsert).
THEOREM OnlyAcceptedRecords == Spec => []OnlyAcceptedIsWritten
<1>1. IInv => OnlyAcceptedIsWritten
  BY DEF IInv, Bookkeeping
<1> QED BY <1>1, Invariance, PTL

\* finalize tells its caller what has become of the tree (mark_mutated, finalize).
THEOREM OutcomesTellTheChange == Spec => []OutcomeTellsTheChange
<1>1. IInv => OutcomeTellsTheChange
  BY DEF IInv
<1> QED BY <1>1, Invariance, PTL

-----------------------------------------------------------------------------
(* sheet.rs on the two phases, which Spec does not keep: what it takes.    *)

\* Only a validator in the same process as the facade upserts while it runs.
NodeIsNotShadowed == Node => shadowed = {}

LEMMA ShadowStep == NodeIsNotShadowed /\ [Next]_vars => NodeIsNotShadowed'
<1> SUFFICES ASSUME NodeIsNotShadowed, Node', [Next]_vars PROVE shadowed' = {}
  BY DEF NodeIsNotShadowed
<1> SUFFICES binding' = binding /\ (shadowed' = shadowed \/ Python)
  BY DEF NodeIsNotShadowed, Node, Python
<1>1. ASSUME NEW n \in Names, NEW r \in Records, NEW prev \in Records \cup {NoPath}, NEW text \in Texts,
             \/ NodeUpsert(n, r, prev, text) \/ NodePrepareOnly(n, r, prev, text)
             \/ PyPrepare(n, r, prev, text)
      PROVE  binding' = binding /\ (shadowed' = shadowed \/ Python)
  BY <1>1 DEF NodeUpsert, NodePrepareOnly, PyPrepare
<1>2. CASE PyStage \/ PyStageFails \/ PyReject
  BY <1>2 DEF PyStage, PyStageFails, PyReject
<1>3. ASSUME NEW t, Write(t)
      PROVE  binding' = binding /\ (shadowed' = shadowed \/ Python)
  BY <1>3 DEF Write, history
<1>4. ASSUME NEW n \in Names, NEW r \in Records,
             NodeDelete(n, r) \/ PyDelete(n, r)
               \/ NodeDeleteAttachments(n, r) \/ PyDeleteAttachments(n, r)
      PROVE  binding' = binding /\ (shadowed' = shadowed \/ Python)
  BY <1>3, <1>4 DEF NodeDelete, PyDelete, NodeDeleteAttachments, PyDeleteAttachments, Delete, DeleteAll
<1>5. ASSUME NEW n \in Names, NEW r \in Records, NEW names, NEW blob,
             \/ NodeSetAttachments(n, r, names, blob) \/ PySetAttachments(n, r, names, blob)
             \/ SetAttachmentsFails(n, r, names, blob)
      PROVE  binding' = binding /\ (shadowed' = shadowed \/ Python)
  BY <1>3, <1>5 DEF NodeSetAttachments, PySetAttachments, SetAll, SetAttachmentsFails
<1>6. ASSUME NEW n \in Names, NEW r \in Records, NEW name \in Attachments,
             \/ NodeDeleteAttachment(n, r, name) \/ PyDeleteAttachment(n, r, name)
             \/ \E blob \in Texts :
                  NodeSetAttachment(n, r, name, blob) \/ PySetAttachment(n, r, name, blob)
      PROVE  binding' = binding /\ (shadowed' = shadowed \/ Python)
  BY <1>3, <1>5, <1>6 DEF NodeDeleteAttachment, PyDeleteAttachment, DeleteOne,
     NodeSetAttachment, PySetAttachment
<1>7. ASSUME NEW n \in Names, NodeClear(n) \/ PyClear(n)
      PROVE  binding' = binding /\ (shadowed' = shadowed \/ Python)
  BY <1>3, <1>7 DEF NodeClear, PyClear, ClearSheet
<1>8. ASSUME NEW f \in Files, NodeDeleteFile(f) \/ \E text \in Texts : NodeWriteFile(f, text)
      PROVE  binding' = binding /\ (shadowed' = shadowed \/ Python)
  BY <1>3, <1>8 DEF NodeDeleteFile, NodeWriteFile
<1>9. CASE NodeFinalize \/ NodeDiscard \/ PyFinalize \/ PyDiscard
  BY <1>9 DEF NodeFinalize, NodeDiscard, PyFinalize, PyDiscard, End, history
<1>10. ASSUME NEW n \in Names, NEW b \in Bases, NodeOpenSheet(n, b) \/ PyOpenSheet(n, b)
       PROVE  binding' = binding /\ (shadowed' = shadowed \/ Python)
  BY <1>10 DEF NodeOpenSheet, PyOpenSheet, OpenSheet, history
<1>11. CASE UNCHANGED vars
  BY <1>11 DEF vars
<1> QED BY <1>1, <1>2, <1>4, <1>5, <1>6, <1>7, <1>8, <1>9, <1>10, <1>11 DEF Next

\* A rejected record's bytes are never written in Node; nor in Python, until an
\* upsert's validator upserts into the same sheet: nothing else puts them under
\* another call's stage_upsert (prepare_upsert, stage_upsert).
THEOREM RejectedOnlyByReentry == Spec => [](Node \/ shadowed = {} => RejectedIsNotWritten)
<1>1. Init => NodeIsNotShadowed
  BY DEF Init, NodeBegin, PyBegin, Begun, NodeIsNotShadowed
<1>2. IInv /\ NodeIsNotShadowed => (Node \/ shadowed = {} => RejectedIsNotWritten)
  <2> SUFFICES ASSUME IInv, shadowed = {}, NEW c \in Calls, wrote[c] # NoCall
               PROVE  verdict[wrote[c]] = "accepted"
    BY DEF NodeIsNotShadowed, RejectedIsNotWritten
  <2>1. wrote[c] = c /\ verdict[c] = "accepted"
    BY DEF IInv, Bookkeeping, OnlyAcceptedIsWritten
  <2> QED BY <2>1
<1>3. Spec => []NodeIsNotShadowed
  BY <1>1, ShadowStep, PTL DEF Spec
<1> QED BY <1>2, <1>3, Invariance, PTL

-----------------------------------------------------------------------------
(***************************************************************************)
(* Session implements SheetStore, for any sheets that are Apart: no two    *)
(* records or attachments share a place in the tree, and what an operation *)
(* deletes beneath a path is exactly what the abstract operation names.    *)
(***************************************************************************)
\* A name is a stem and an extension, and a directory's name has none.
Name == (STRING \cup {""}) \X (STRING \cup {""})

-----------------------------------------------------------------------------
(* Paths, name by name.                                                    *)

LEMMA PrefixIsPointwise ==
  ASSUME NEW S, NEW s \in Seq(S), NEW t \in Seq(S)
  PROVE  IsPrefix(s, t) <=>
           (Len(s) <= Len(t) /\ \A i \in 1 .. Len(s) : s[i] = t[i])
<1>1. Len(s) \in Nat /\ Len(t) \in Nat /\ SubSeq(s, 1, Len(s)) = s
  BY SubSeqFull, LenProperties
<1>2. ASSUME Len(s) <= Len(t)
      PROVE  /\ SubSeq(t, 1, Len(s)) \in Seq(S)
             /\ Len(SubSeq(t, 1, Len(s))) = Len(s)
             /\ \A i \in 1 .. Len(s) : SubSeq(t, 1, Len(s))[i] = t[i]
  <2>1. Len(s) \in 0 .. Len(t)
    BY <1>1, <1>2
  <2> QED BY <2>1, PrefixFacts, Zenon
<1>3. ASSUME Len(s) <= Len(t)
      PROVE  SubSeq(t, 1, Len(s)) = s <=> \A i \in 1 .. Len(s) : s[i] = t[i]
  BY <1>2, <1>3, SeqEqual
<1> QED BY <1>1, <1>3 DEF IsPrefix

LEMMA PlainNames == STRING \X {""} \subseteq Name
<1> DEFINE none == ""
<1> HIDE DEF none
<1>1. STRING \X {none} \subseteq (STRING \cup {none}) \X (STRING \cup {none})
  OBVIOUS
<1> QED BY <1>1 DEF Name, none

LEMMA NamesAre == Extension \in STRING \cup {""} /\ Attachments \subseteq Name
<1>1. Extension \in STRING /\ Attachments \subseteq STRING \X STRING
  BY ConstantsOK, Zenon
<1> DEFINE none == ""
<1> HIDE DEF none
<1>2. STRING \X STRING \subseteq (STRING \cup {none}) \X (STRING \cup {none})
  OBVIOUS
<1> QED BY <1>1, <1>2 DEF Name, none

LEMMA BaseIs ==
  ASSUME NEW b \in Bases
  PROVE  b \in Seq(Name) /\ Len(b) \in Nat /\ \A i \in 1 .. Len(b) : b[i] \in Name /\ b[i][2] = ""
<1>1. b \in Seq(STRING \X {""})
  BY ConstantsOK, Zenon
<1>2. \A i \in 1 .. Len(b) : b[i] \in STRING \X {""}
  BY <1>1, ElementOfSeq
<1>3. b \in Seq(Name)
  BY <1>1, PlainNames, SeqMonotonic
<1>4. \A x \in STRING \X {""} : x \in Name /\ x[2] = ""
  BY PlainNames
<1> QED BY <1>2, <1>3, <1>4, LenProperties

LEMMA RecordIs ==
  ASSUME NEW r \in Records
  PROVE  r \in Seq(Name) /\ Len(r) \in Nat /\ Len(r) > 0
         /\ \A i \in 1 .. Len(r) : r[i] \in Name /\ r[i][2] = ""
<1>1. r \in Seq(STRING \X {""}) /\ r # <<>>
  BY ConstantsOK, Zenon
<1>2. \A i \in 1 .. Len(r) : r[i] \in STRING \X {""}
  BY <1>1, ElementOfSeq
<1>3. r \in Seq(Name)
  BY <1>1, PlainNames, SeqMonotonic
<1>4. \A x \in STRING \X {""} : x \in Name /\ x[2] = ""
  BY PlainNames
<1>5. Len(r) \in Nat \ {0}
  BY <1>1, EmptySeq, Zenon
<1>6. Len(r) \in Nat /\ Len(r) > 0
  BY <1>5
<1> QED BY <1>2, <1>3, <1>4, <1>6

LEMMA NothingBeneath ==
  ASSUME NEW S, NEW s \in Seq(S)
  PROVE  IsPrefix(s, s)
BY PrefixIsPointwise, LenProperties

LEMMA PrefixesMeet ==
  ASSUME NEW S, NEW s \in Seq(S), NEW t \in Seq(S), NEW u \in Seq(S),
         IsPrefix(s, t), IsPrefix(t, u)
  PROVE  IsPrefix(s, u)
<1>1. /\ Len(s) \in Nat /\ Len(t) \in Nat /\ Len(u) \in Nat
      /\ Len(s) <= Len(t) /\ Len(t) <= Len(u)
      /\ \A i \in 1 .. Len(s) : s[i] = t[i]
      /\ \A i \in 1 .. Len(t) : t[i] = u[i]
  BY LenProperties, PrefixIsPointwise
<1>2. \A i \in 1 .. Len(s) : i \in 1 .. Len(t)
  BY <1>1
<1>3. \A i \in 1 .. Len(s) : s[i] = u[i]
  BY <1>1, <1>2
<1> QED BY <1>1, <1>3, PrefixIsPointwise

\* The prefixes of a path are those of its directory, and itself.
LEMMA PrefixOfAppend ==
  ASSUME NEW S, NEW u \in Seq(S), NEW v \in Seq(S), NEW y \in S
  PROVE  IsPrefix(u, Append(v, y)) <=> IsPrefix(u, v) \/ u = Append(v, y)
<1> DEFINE n == Len(u)
           k == Len(v)
           x == Append(v, y)
<1>1. x \in Seq(S) /\ Len(x) = k + 1 /\ \A i \in 1 .. k : x[i] = v[i]
  BY AppendProperties
<1>2. n \in Nat /\ k \in Nat
  BY LenProperties
<1>3. IsPrefix(x, x)
  BY <1>1, NothingBeneath
<1> HIDE DEF x
<1>4. IsPrefix(u, x) <=> (n <= Len(x) /\ \A i \in 1 .. n : u[i] = x[i])
  BY <1>1, PrefixIsPointwise
<1>5. IsPrefix(u, v) <=> (n <= k /\ \A i \in 1 .. n : u[i] = v[i])
  BY PrefixIsPointwise
<1>6. n = Len(x) /\ (\A i \in 1 .. n : u[i] = x[i]) => u = x
  BY <1>1, SeqEqual
<1> HIDE DEF n, k
<1>7. n <= k => \A i \in 1 .. n : i \in 1 .. k
  BY <1>2
<1>8. n <= k + 1 <=> n <= k \/ n = k + 1
  BY <1>2
<1>9. n <= k => (IsPrefix(u, x) <=> IsPrefix(u, v))
  BY <1>1, <1>4, <1>5, <1>7, <1>8
<1>10. n = k + 1 /\ IsPrefix(u, x) => u = x
  BY <1>1, <1>4, <1>6
<1>11. IsPrefix(u, v) => n <= k
  BY <1>5
<1>12. IsPrefix(u, x) => n <= k \/ n = k + 1
  BY <1>1, <1>4, <1>8
<1> QED BY <1>3, <1>9, <1>10, <1>11, <1>12 DEF x

\* The last name of a prefix is a name of the path.
LEMMA LastNameIsThere ==
  ASSUME NEW S, NEW u \in Seq(S), NEW y \in S, NEW v \in Seq(S)
  PROVE  IsPrefix(Append(u, y), v) => \E i \in 1 .. Len(v) : v[i] = y
<1> DEFINE n == Len(u)
           k == Len(v)
           x == Append(u, y)
<1>1. x \in Seq(S) /\ Len(x) = n + 1 /\ x[n + 1] = y
  BY AppendProperties
<1>2. n \in Nat /\ k \in Nat
  BY LenProperties
<1>3. IsPrefix(x, v) => Len(x) <= k /\ \A i \in 1 .. Len(x) : x[i] = v[i]
  BY <1>1, PrefixIsPointwise, ZenonT(60)
<1> HIDE DEF n, k, x
<1>4. n + 1 \in 1 .. n + 1 /\ (n + 1 <= k => n + 1 \in 1 .. k)
  BY <1>2
<1>5. ASSUME IsPrefix(x, v)
      PROVE  n + 1 \in 1 .. k /\ v[n + 1] = y
  BY <1>1, <1>3, <1>4, <1>5
<1> QED BY <1>5 DEF k, x

\* A path is no prefix of its own directory.
LEMMA NotInItself ==
  ASSUME NEW S, NEW u \in Seq(S), NEW y \in S
  PROVE  ~IsPrefix(Append(u, y), u)
<1> DEFINE n == Len(u)
           x == Append(u, y)
<1>1. x \in Seq(S) /\ Len(x) = n + 1 /\ n \in Nat
  BY AppendProperties, LenProperties
<1>2. IsPrefix(x, u) => Len(x) <= n
  BY <1>1, PrefixIsPointwise
<1> HIDE DEF n, x
<1>3. ~(n + 1 <= n)
  BY <1>1
<1> QED BY <1>1, <1>2, <1>3 DEF x

\* The name of a record's file, which is the file's path below the base but for
\* the directories
FileName(r) == <<Last(r)[1], Extension>>
Leaf(r) == Append(Front(r), FileName(r))

LEMMA RecordSplit ==
  ASSUME NEW r \in Records
  PROVE  /\ Front(r) \in Seq(Name) /\ Last(r) \in Name /\ Last(r)[2] = ""
         /\ r = Append(Front(r), Last(r))
         /\ FileName(r) \in Name /\ FileName(r) = <<Last(r)[1], Extension>>
         /\ Leaf(r) \in Seq(Name)
<1> DEFINE f == Front(r)
           n == Len(r)
<1>1. r \in Seq(Name) /\ n \in Nat /\ n > 0
  BY RecordIs
<1>2. f \in Seq(Name) /\ Len(f) = n - 1 /\ \A i \in 1 .. n - 1 : f[i] = r[i]
  BY <1>1, FrontFacts
<1>3. n \in 1 .. n
  <2> HIDE DEF n
  <2> QED BY <1>1
<1>4. Last(r) = r[n]
  BY DEF Last
<1>5. Last(r) \in Name /\ Last(r)[2] = ""
  BY <1>3, <1>4, RecordIs
<1>6. FileName(r) \in Name
  BY <1>5, NamesAre DEF FileName, Name
<1>7. r = Append(f, Last(r))
  <2> DEFINE y == Last(r)
             x == Append(f, y)
  <2>1. y \in Name
    BY <1>5
  <2> HIDE DEF f, n, y
  <2>2. /\ x \in Seq(Name) /\ Len(x) = Len(f) + 1 /\ \A i \in 1 .. Len(f) : x[i] = f[i]
        /\ x[Len(f) + 1] = y
    BY <1>2, <2>1, AppendProperties
  <2> HIDE DEF x
  <2>3. n - 1 + 1 = n /\ \A i \in 1 .. n : i \in 1 .. n - 1 \/ i = n
    BY <1>1
  <2>4. Len(x) = n
    BY <1>2, <2>2, <2>3
  <2>5. \A i \in 1 .. n : x[i] = r[i]
    BY <1>2, <1>4, <2>2, <2>3 DEF y
  <2>6. x = r
    BY <1>1, <2>2, <2>4, <2>5, SeqEqual DEF n
  <2> QED BY <2>6 DEF x, y
<1>8. Leaf(r) \in Seq(Name)
  BY <1>2, <1>6, AppendProperties DEF Leaf
<1> QED BY <1>2, <1>5, <1>6, <1>7, <1>8 DEF FileName

\* Where things are, as paths below their base
LEMMA PathsAre ==
  ASSUME NEW b \in Bases, NEW r \in Records
  PROVE  /\ RecordDir(b, r) = b \o r /\ RecordDir(b, r) \in Seq(Name)
         /\ RecordFile(b, r) = b \o Leaf(r) /\ RecordFile(b, r) \in Seq(Name)
         /\ \A a \in Attachments :
              /\ AttachmentFile(b, r, a) = b \o Append(r, a)
              /\ Append(r, a) \in Seq(Name) /\ AttachmentFile(b, r, a) \in Seq(Name)
<1>1. b \in Seq(Name) /\ r \in Seq(Name)
  BY BaseIs, RecordIs
<1>2. RecordDir(b, r) = b \o r /\ b \o r \in Seq(Name)
  BY <1>1, ConcatProperties DEF RecordDir
<1>3. RecordFile(b, r) = b \o Leaf(r) /\ b \o Leaf(r) \in Seq(Name)
  <2> DEFINE f == Front(r)
             y == FileName(r)
  <2>1. f \in Seq(Name) /\ y \in Name /\ Leaf(r) = Append(f, y) /\ Leaf(r) \in Seq(Name)
    BY RecordSplit DEF Leaf
  <2>2. RecordFile(b, r) = (b \o f) \o <<y>>
    BY DEF RecordFile, FileName
  <2> HIDE DEF f, y
  <2>3. <<y>> \in Seq(Name)
    BY <2>1
  <2>4. Append(f, y) = f \o <<y>>
    BY <2>1, AppendIsConcat
  <2>5. (b \o f) \o <<y>> = b \o (f \o <<y>>)
    BY <1>1, <2>1, <2>3, ConcatAssociative
  <2> QED BY <1>1, <2>1, <2>2, <2>4, <2>5, ConcatProperties
<1>4. ASSUME NEW a \in Attachments
      PROVE  /\ AttachmentFile(b, r, a) = b \o Append(r, a)
             /\ Append(r, a) \in Seq(Name) /\ b \o Append(r, a) \in Seq(Name)
  <2>1. a \in Name
    BY NamesAre
  <2>2. <<a>> \in Seq(Name)
    BY <2>1
  <2>3. Append(b \o r, a) = (b \o r) \o <<a>> /\ Append(r, a) = r \o <<a>>
    BY <1>1, <1>2, <2>1, AppendIsConcat
  <2>4. (b \o r) \o <<a>> = b \o (r \o <<a>>)
    BY <1>1, <2>2, ConcatAssociative
  <2>5. Append(r, a) \in Seq(Name)
    BY <1>1, <2>1, AppendProperties
  <2>6. b \o Append(r, a) \in Seq(Name)
    BY <1>1, <2>5, ConcatProperties
  <2> QED BY <1>2, <2>3, <2>4, <2>5, <2>6 DEF AttachmentFile
<1> QED BY <1>2, <1>3, <1>4

-----------------------------------------------------------------------------
(* What lies beneath what.                                                 *)

LEMMA PrefixBeneath ==
  ASSUME NEW S, NEW b \in Seq(S), NEW u \in Seq(S), NEW v \in Seq(S)
  PROVE  IsPrefix(b \o u, b \o v) <=> IsPrefix(u, v)
<1> DEFINE m == Len(b)
           n == Len(u)
           k == Len(v)
           d == b \o u
           f == b \o v
<1>1. m \in Nat /\ n \in Nat /\ k \in Nat
  BY LenProperties
<1>2. /\ d \in Seq(S) /\ f \in Seq(S) /\ Len(d) = m + n /\ Len(f) = m + k
      /\ \A i \in 1 .. m + n : d[i] = IF i <= m THEN b[i] ELSE u[i - m]
      /\ \A i \in 1 .. m + k : f[i] = IF i <= m THEN b[i] ELSE v[i - m]
  BY ConcatProperties
<1>3. IsPrefix(d, f) <=> (Len(d) <= Len(f) /\ \A i \in 1 .. Len(d) : d[i] = f[i])
  BY <1>2, PrefixIsPointwise, ZenonT(60)
<1>4. IsPrefix(u, v) <=> (n <= k /\ \A i \in 1 .. n : u[i] = v[i])
  BY PrefixIsPointwise
<1> HIDE DEF m, n, k, d, f
<1>5. ASSUME n <= k, \A i \in 1 .. m + n : d[i] = f[i], NEW j \in 1 .. n
      PROVE  u[j] = v[j]
  <2>1. /\ m + j \in 1 .. m + n /\ m + j \in 1 .. m + k
        /\ ~(m + j <= m) /\ (m + j) - m = j
    BY <1>1, <1>5
  <2> QED BY <1>2, <1>5, <2>1
<1>6. ASSUME n <= k, \A i \in 1 .. n : u[i] = v[i], NEW j \in 1 .. m + n
      PROVE  d[j] = f[j]
  <2>1. j \in 1 .. m + k /\ (j <= m \/ j - m \in 1 .. n)
    BY <1>1, <1>6
  <2> QED BY <1>2, <1>6, <2>1
<1>7. m + n <= m + k <=> n <= k
  BY <1>1
<1> QED BY <1>2, <1>3, <1>4, <1>5, <1>6, <1>7 DEF d, f

LEMMA PrefixOfConcat ==
  ASSUME NEW S, NEW s \in Seq(S), NEW t \in Seq(S)
  PROVE  IsPrefix(s, s \o t)
<1> DEFINE c == s \o t
           n == Len(s)
           k == Len(t)
<1>1. /\ c \in Seq(S) /\ Len(c) = n + k /\ n \in Nat /\ k \in Nat
      /\ \A i \in 1 .. n + k : c[i] = IF i <= n THEN s[i] ELSE t[i - n]
  BY ConcatProperties, LenProperties
<1>2. IsPrefix(s, c) <=> (n <= Len(c) /\ \A i \in 1 .. n : s[i] = c[i])
  BY <1>1, PrefixIsPointwise
<1> HIDE DEF c, n, k
<1>3. \A i \in 1 .. n : i \in 1 .. n + k /\ i <= n
  BY <1>1
<1>4. n <= n + k
  BY <1>1
<1> QED BY <1>1, <1>2, <1>3, <1>4 DEF c

\* Nothing lies beneath two bases.
LEMMA OneRoot ==
  ASSUME Apart, NEW b \in Bases, NEW c \in Bases, NEW s \in Seq(Name),
         IsPrefix(b, s), IsPrefix(c, s)
  PROVE  b = c
<1>1. b \in Seq(Name) /\ c \in Seq(Name) /\ Len(b) \in Nat /\ Len(c) \in Nat
  BY BaseIs
<1>2. /\ \A i \in 1 .. Len(b) : b[i] = s[i]
      /\ \A i \in 1 .. Len(c) : c[i] = s[i]
  BY <1>1, PrefixIsPointwise
<1>3. ASSUME Len(b) <= Len(c) PROVE IsPrefix(b, c)
  <2>1. \A i \in 1 .. Len(b) : i \in 1 .. Len(c)
    BY <1>1, <1>3
  <2>2. \A i \in 1 .. Len(b) : b[i] = c[i]
    BY <1>2, <2>1
  <2> QED BY <1>1, <1>3, <2>2, PrefixIsPointwise
<1>4. ASSUME Len(c) <= Len(b) PROVE IsPrefix(c, b)
  <2>1. \A i \in 1 .. Len(c) : i \in 1 .. Len(b)
    BY <1>1, <1>4
  <2>2. \A i \in 1 .. Len(c) : c[i] = b[i]
    BY <1>2, <2>1
  <2> QED BY <1>1, <1>4, <2>2, PrefixIsPointwise
<1>5. Len(b) <= Len(c) \/ Len(c) <= Len(b)
  BY <1>1
<1> QED BY <1>3, <1>4, <1>5 DEF Apart

\* A path below a base that is a prefix of a path below a base
LEMMA Beside ==
  ASSUME Apart, NEW b \in Bases, NEW c \in Bases, NEW u \in Seq(Name), NEW v \in Seq(Name)
  PROVE  /\ IsPrefix(b \o u, c \o v) <=> b = c /\ IsPrefix(u, v)
         /\ IsPrefix(b, c \o v) <=> b = c
<1>1. /\ b \in Seq(Name) /\ c \in Seq(Name) /\ b \o u \in Seq(Name) /\ c \o v \in Seq(Name)
      /\ IsPrefix(b, b \o u) /\ IsPrefix(c, c \o v)
  BY BaseIs, ConcatProperties, PrefixOfConcat
<1>2. IsPrefix(b, c \o v) => b = c
  BY <1>1, OneRoot
<1>3. IsPrefix(b \o u, c \o v) => b = c
  BY <1>1, <1>2, PrefixesMeet
<1>4. IsPrefix(b \o u, b \o v) <=> IsPrefix(u, v)
  BY <1>1, PrefixBeneath
<1> QED BY <1>1, <1>2, <1>3, <1>4

-----------------------------------------------------------------------------
(* Directories, records' files and attachments below one base              *)

\* The name of a record's file is on no record's path.
LEMMA FilesAreNotOnPaths ==
  ASSUME Apart, NEW u \in Seq(Name), NEW y \in Name, y[2] = Extension, NEW r \in Records
  PROVE  ~IsPrefix(Append(u, y), r)
<1>1. r \in Seq(Name) /\ \A i \in 1 .. Len(r) : r[i][2] = ""
  BY RecordIs
<1>2. Extension # ""
  BY DEF Apart
<1>3. IsPrefix(Append(u, y), r) => \E i \in 1 .. Len(r) : r[i] = y
  BY <1>1, LastNameIsThere, ZenonT(60)
<1> QED BY <1>1, <1>2, <1>3

LEMMA FileNameIs ==
  ASSUME NEW r \in Records
  PROVE  FileName(r)[2] = Extension
BY DEF FileName

\* In a record's directory are the files of the records whose paths go on from
\* it, but not its own file.
LEMMA LeafInDir ==
  ASSUME Apart, NEW r \in Records, NEW q \in Records
  PROVE  IsPrefix(r, Leaf(q)) <=> IsPrefix(r, q) /\ r # q
<1> DEFINE f == Front(q)
           x == Last(q)
           y == FileName(q)
<1>1. /\ f \in Seq(Name) /\ x \in Name /\ y \in Name
      /\ q = Append(f, x) /\ Leaf(q) = Append(f, y)
  BY RecordSplit DEF Leaf
<1>2. y[2] = Extension
  BY FileNameIs
<1>3. r \in Seq(Name)
  BY RecordIs
<1> HIDE DEF f, x, y
<1>4. IsPrefix(r, Append(f, y)) <=> IsPrefix(r, f) \/ r = Append(f, y)
  BY <1>1, <1>3, PrefixOfAppend
<1>5. IsPrefix(r, Append(f, x)) <=> IsPrefix(r, f) \/ r = Append(f, x)
  BY <1>1, <1>3, PrefixOfAppend
<1>6. ~IsPrefix(Append(f, y), r)
  BY <1>1, <1>2, FilesAreNotOnPaths
<1>7. r # Append(f, y)
  BY <1>3, <1>6, NothingBeneath
<1>8. ~IsPrefix(Append(f, x), f)
  BY <1>1, NotInItself
<1> QED BY <1>1, <1>4, <1>5, <1>7, <1>8

\* In a record's directory are its own attachments and those of the records
\* whose paths go on from it.
LEMMA AppendedInDir ==
  ASSUME Apart, NEW r \in Records, NEW q \in Records, NEW a \in Attachments
  PROVE  IsPrefix(r, Append(q, a)) <=> IsPrefix(r, q)
<1>1. r \in Seq(Name) /\ q \in Seq(Name) /\ a \in Name
  BY RecordIs, NamesAre
<1>2. IsPrefix(r, Append(q, a)) <=> IsPrefix(r, q) \/ r = Append(q, a)
  BY <1>1, PrefixOfAppend
<1>3. ~IsPrefix(Append(q, a), r)
  BY DEF Apart
<1>4. r # Append(q, a)
  BY <1>1, <1>3, NothingBeneath
<1> QED BY <1>2, <1>4

\* Nothing is beneath a file.
LEMMA LeafLeaf ==
  ASSUME Apart, NEW r \in Records, NEW q \in Records
  PROVE  IsPrefix(Leaf(r), Leaf(q)) <=> r = q
<1> DEFINE f == Front(q)
           y == FileName(q)
           g == Front(r)
           z == FileName(r)
<1>1. /\ f \in Seq(Name) /\ y \in Name /\ Leaf(q) = Append(f, y)
      /\ g \in Seq(Name) /\ z \in Name /\ Leaf(r) = Append(g, z)
      /\ Append(g, z) \in Seq(Name) /\ Append(f, y) \in Seq(Name)
  BY RecordSplit DEF Leaf
<1>2. /\ q = Append(f, Last(q)) /\ Last(q) \in Name /\ Last(q)[2] = ""
      /\ r = Append(g, Last(r)) /\ Last(r) \in Name /\ Last(r)[2] = ""
      /\ y = <<Last(q)[1], Extension>> /\ z = <<Last(r)[1], Extension>>
  BY RecordSplit
<1>3. z[2] = Extension
  BY FileNameIs
<1> HIDE DEF f, y, g, z
<1>4. IsPrefix(Append(g, z), Append(f, y)) <=>
        IsPrefix(Append(g, z), f) \/ Append(g, z) = Append(f, y)
  BY <1>1, PrefixOfAppend
<1>5. ~IsPrefix(Append(g, z), q)
  BY <1>1, <1>3, FilesAreNotOnPaths
<1>6. IsPrefix(Append(g, z), f) => IsPrefix(Append(g, z), q)
  BY <1>1, <1>2, PrefixOfAppend
<1>7. Append(g, z) = Append(f, y) <=> g = f /\ z = y
  BY <1>1, AppendInjective
<1>8. z = y => Last(r) = Last(q)
  <2> DEFINE c == Last(r)
             d == Last(q)
  <2>1. c \in Name /\ d \in Name /\ c[2] = d[2]
    BY <1>2
  <2>2. z = y => c[1] = d[1]
    BY <1>2
  <2> HIDE DEF c, d
  <2>3. \A u, v \in Name : u[1] = v[1] /\ u[2] = v[2] => u = v
    <3> DEFINE none == STRING \cup {""}
    <3> HIDE DEF none
    <3>1. \A u, v \in none \X none : u[1] = v[1] /\ u[2] = v[2] => u = v
      OBVIOUS
    <3> QED BY <3>1 DEF Name, none
  <2>4. z = y => c = d
    BY <2>1, <2>2, <2>3
  <2> QED BY <2>4 DEF c, d
<1>9. r = q => Leaf(r) = Leaf(q)
  OBVIOUS
<1>10. g = f /\ z = y => r = q
  BY <1>2, <1>8
<1> QED BY <1>1, <1>4, <1>5, <1>6, <1>7, <1>9, <1>10

LEMMA LeafAppended ==
  ASSUME Apart, NEW r \in Records, NEW q \in Records, NEW a \in Attachments
  PROVE  ~IsPrefix(Leaf(r), Append(q, a)) /\ ~IsPrefix(Append(q, a), Leaf(r))
<1> DEFINE g == Front(r)
           z == FileName(r)
<1>1. /\ g \in Seq(Name) /\ z \in Name /\ Leaf(r) = Append(g, z) /\ Leaf(r) \in Seq(Name)
      /\ r = Append(g, Last(r)) /\ Last(r) \in Name
  BY RecordSplit DEF Leaf
<1>2. z[2] = Extension
  BY FileNameIs
<1>3. q \in Seq(Name) /\ a \in Name /\ Append(q, a) \in Seq(Name)
  BY RecordIs, NamesAre, AppendProperties
<1>4. ~IsPrefix(Append(q, a), r) /\ a[2] # Extension
  BY DEF Apart
<1> HIDE DEF g, z
<1>5. ~IsPrefix(Append(g, z), q)
  BY <1>1, <1>2, FilesAreNotOnPaths
<1>6. Append(g, z) = Append(q, a) <=> g = q /\ z = a
  BY <1>1, <1>3, AppendInjective
<1>7. Append(g, z) # Append(q, a)
  BY <1>2, <1>4, <1>6
<1>8. ~IsPrefix(Append(g, z), Append(q, a))
  BY <1>1, <1>3, <1>5, <1>7, PrefixOfAppend
<1>9. IsPrefix(Append(q, a), Append(g, z)) <=>
        IsPrefix(Append(q, a), g) \/ Append(q, a) = Append(g, z)
  BY <1>1, <1>3, PrefixOfAppend, ZenonT(60)
<1>10. IsPrefix(Append(q, a), g) => IsPrefix(Append(q, a), r)
  BY <1>1, <1>3, PrefixOfAppend
<1> QED BY <1>1, <1>4, <1>7, <1>8, <1>9, <1>10

LEMMA AppendedAppended ==
  ASSUME Apart, NEW r \in Records, NEW q \in Records, NEW a \in Attachments, NEW d \in Attachments
  PROVE  IsPrefix(Append(r, a), Append(q, d)) <=> r = q /\ a = d
<1>1. r \in Seq(Name) /\ q \in Seq(Name) /\ a \in Name /\ d \in Name
  BY RecordIs, NamesAre
<1>2. Append(r, a) \in Seq(Name)
  BY <1>1, AppendProperties
<1>3. IsPrefix(Append(r, a), Append(q, d)) <=>
        IsPrefix(Append(r, a), q) \/ Append(r, a) = Append(q, d)
  BY <1>1, <1>2, PrefixOfAppend, ZenonT(60)
<1>4. ~IsPrefix(Append(r, a), q)
  BY DEF Apart
<1>5. Append(r, a) = Append(q, d) <=> r = q /\ a = d
  BY <1>1, AppendInjective
<1> QED BY <1>3, <1>4, <1>5

-----------------------------------------------------------------------------
(* The same for whole sheets: keys of records, and keys of attachments          *)

Keys == Bases \X Records
AttachKeys == Keys \X Attachments

DirOf(k) == RecordDir(k[1], k[2])
FileOf(k) == RecordFile(k[1], k[2])
AttachOf(a) == AttachmentFile(a[1][1], a[1][2], a[2])

LEMMA RecordFilesApart ==
  ASSUME Apart, NEW j \in Keys, NEW k \in Keys
  PROVE  /\ IsPrefix(FileOf(j), FileOf(k)) <=> j = k
         /\ FileOf(j) = FileOf(k) <=> j = k
<1>1. PICK b \in Bases, r \in Records : j = <<b, r>>
  BY DEF Keys
<1>2. PICK c \in Bases, q \in Records : k = <<c, q>>
  BY DEF Keys
<1>3. FileOf(j) = b \o Leaf(r) /\ FileOf(k) = c \o Leaf(q) /\ FileOf(j) \in Seq(Name)
  BY <1>1, <1>2, PathsAre DEF FileOf
<1>4. Leaf(r) \in Seq(Name) /\ Leaf(q) \in Seq(Name)
  BY RecordSplit
<1>5. IsPrefix(FileOf(j), FileOf(k)) <=> j = k
  <2>1. IsPrefix(b \o Leaf(r), c \o Leaf(q)) <=> b = c /\ IsPrefix(Leaf(r), Leaf(q))
    BY <1>4, Beside
  <2>2. IsPrefix(Leaf(r), Leaf(q)) <=> r = q
    BY LeafLeaf
  <2>3. <<b, r>> = <<c, q>> <=> b = c /\ r = q
    OBVIOUS
  <2> QED BY <1>1, <1>2, <1>3, <2>1, <2>2, <2>3, Zenon
<1>6. IsPrefix(FileOf(j), FileOf(j))
  BY <1>3, NothingBeneath
<1> QED BY <1>5, <1>6, Zenon

LEMMA AttachmentFilesApart ==
  ASSUME Apart, NEW a \in AttachKeys, NEW d \in AttachKeys
  PROVE  /\ IsPrefix(AttachOf(a), AttachOf(d)) <=> a = d
         /\ AttachOf(a) = AttachOf(d) <=> a = d
<1>1. PICK e \in Bases, s \in Records, n \in Attachments : a = <<<<e, s>>, n>>
  BY DEF Keys, AttachKeys
<1>2. PICK g \in Bases, u \in Records, m \in Attachments : d = <<<<g, u>>, m>>
  BY DEF Keys, AttachKeys
<1>3. /\ AttachOf(a) = e \o Append(s, n) /\ AttachOf(d) = g \o Append(u, m)
      /\ AttachOf(a) \in Seq(Name)
  BY <1>1, <1>2, PathsAre DEF AttachOf
<1>4. Append(s, n) \in Seq(Name) /\ Append(u, m) \in Seq(Name)
  BY PathsAre
<1>5. IsPrefix(AttachOf(a), AttachOf(d)) <=> a = d
  <2>1. IsPrefix(e \o Append(s, n), g \o Append(u, m))
          <=> e = g /\ IsPrefix(Append(s, n), Append(u, m))
    BY <1>4, Beside
  <2>2. IsPrefix(Append(s, n), Append(u, m)) <=> s = u /\ n = m
    BY AppendedAppended
  <2>3. <<<<e, s>>, n>> = <<<<g, u>>, m>> <=> e = g /\ s = u /\ n = m
    OBVIOUS
  <2> QED BY <1>1, <1>2, <1>3, <2>1, <2>2, <2>3, Zenon
<1>6. IsPrefix(AttachOf(a), AttachOf(a))
  BY <1>3, NothingBeneath
<1> QED BY <1>5, <1>6, Zenon

LEMMA RecordsAndAttachmentsApart ==
  ASSUME Apart, NEW j \in Keys, NEW a \in AttachKeys
  PROVE  /\ ~IsPrefix(FileOf(j), AttachOf(a)) /\ ~IsPrefix(AttachOf(a), FileOf(j))
         /\ FileOf(j) # AttachOf(a)
<1>1. PICK b \in Bases, r \in Records : j = <<b, r>>
  BY DEF Keys
<1>2. PICK e \in Bases, s \in Records, n \in Attachments : a = <<<<e, s>>, n>>
  BY DEF Keys, AttachKeys
<1>3. /\ FileOf(j) = b \o Leaf(r) /\ AttachOf(a) = e \o Append(s, n)
      /\ FileOf(j) \in Seq(Name)
  BY <1>1, <1>2, PathsAre DEF FileOf, AttachOf
<1>4. Leaf(r) \in Seq(Name) /\ Append(s, n) \in Seq(Name)
  BY RecordSplit, PathsAre
<1>5. ~IsPrefix(FileOf(j), AttachOf(a)) /\ ~IsPrefix(AttachOf(a), FileOf(j))
  <2>1. IsPrefix(b \o Leaf(r), e \o Append(s, n)) => IsPrefix(Leaf(r), Append(s, n))
    BY <1>4, Beside, Zenon
  <2>2. IsPrefix(e \o Append(s, n), b \o Leaf(r)) => IsPrefix(Append(s, n), Leaf(r))
    BY <1>4, Beside, Zenon
  <2>3. ~IsPrefix(Leaf(r), Append(s, n)) /\ ~IsPrefix(Append(s, n), Leaf(r))
    BY LeafAppended
  <2> QED BY <1>3, <2>1, <2>2, <2>3, Zenon
<1>6. IsPrefix(FileOf(j), FileOf(j))
  BY <1>3, NothingBeneath
<1> QED BY <1>5, <1>6, Zenon

LEMMA FilesInDirectories ==
  ASSUME Apart, NEW j \in Keys, NEW k \in Keys
  PROVE  /\ IsPrefix(DirOf(j), FileOf(k)) <=> Sheets!InDirOf(j, k) /\ k # j
         /\ \A b \in Bases : IsPrefix(b, FileOf(k)) <=> k[1] = b
<1>1. PICK c \in Bases, r \in Records : j = <<c, r>>
  BY DEF Keys
<1>2. PICK e \in Bases, q \in Records : k = <<e, q>>
  BY DEF Keys
<1>3. DirOf(j) = c \o r /\ FileOf(k) = e \o Leaf(q)
  BY <1>1, <1>2, PathsAre DEF DirOf, FileOf
<1>4. r \in Seq(Name) /\ Leaf(q) \in Seq(Name)
  BY RecordIs, RecordSplit
<1>5. IsPrefix(DirOf(j), FileOf(k)) <=> c = e /\ IsPrefix(r, q) /\ r # q
  <2>1. IsPrefix(c \o r, e \o Leaf(q)) <=> c = e /\ IsPrefix(r, Leaf(q))
    BY <1>4, Beside, Zenon
  <2>2. IsPrefix(r, Leaf(q)) <=> IsPrefix(r, q) /\ r # q
    BY LeafInDir
  <2> QED BY <1>3, <2>1, <2>2, Zenon
<1>6. ASSUME NEW b \in Bases PROVE IsPrefix(b, FileOf(k)) <=> b = e
  <2>1. IsPrefix(b, e \o Leaf(q)) <=> b = e
    BY <1>4, Beside
  <2> QED BY <1>3, <2>1, Zenon
<1>7. j[1] = c /\ j[2] = r /\ k[1] = e /\ k[2] = q /\ (j = k <=> c = e /\ r = q)
  BY <1>1, <1>2
<1>8. Sheets!InDirOf(j, k) <=> e = c /\ IsPrefix(r, q)
  BY <1>7, Zenon DEF Sheets!InDirOf, Sheets!IsPrefix, IsPrefix
<1> QED BY <1>5, <1>6, <1>7, <1>8, Zenon

LEMMA AttachmentsInDirectories ==
  ASSUME Apart, NEW j \in Keys, NEW a \in AttachKeys
  PROVE  /\ IsPrefix(DirOf(j), AttachOf(a)) <=> Sheets!InDirOf(j, a[1])
         /\ \A b \in Bases : IsPrefix(b, AttachOf(a)) <=> a[1][1] = b
<1>1. PICK c \in Bases, r \in Records : j = <<c, r>>
  BY DEF Keys
<1>2. PICK g \in Bases, s \in Records, n \in Attachments : a = <<<<g, s>>, n>>
  BY DEF Keys, AttachKeys
<1>3. DirOf(j) = c \o r /\ AttachOf(a) = g \o Append(s, n)
  BY <1>1, <1>2, PathsAre DEF DirOf, AttachOf
<1>4. r \in Seq(Name) /\ Append(s, n) \in Seq(Name)
  BY RecordIs, PathsAre
<1>5. IsPrefix(DirOf(j), AttachOf(a)) <=> c = g /\ IsPrefix(r, s)
  <2>1. IsPrefix(c \o r, g \o Append(s, n)) <=> c = g /\ IsPrefix(r, Append(s, n))
    BY <1>4, Beside, Zenon
  <2>2. IsPrefix(r, Append(s, n)) <=> IsPrefix(r, s)
    BY AppendedInDir
  <2> QED BY <1>3, <2>1, <2>2, Zenon
<1>6. ASSUME NEW b \in Bases PROVE IsPrefix(b, AttachOf(a)) <=> b = g
  <2>1. IsPrefix(b, g \o Append(s, n)) <=> b = g
    BY <1>4, Beside
  <2> QED BY <1>3, <2>1, Zenon
<1>7. j[1] = c /\ j[2] = r /\ a[1] = <<g, s>> /\ a[1][1] = g /\ a[1][2] = s
  BY <1>1, <1>2
<1>8. Sheets!InDirOf(j, a[1]) <=> g = c /\ IsPrefix(r, s)
  BY <1>7, Zenon DEF Sheets!InDirOf, Sheets!IsPrefix, IsPrefix
<1> QED BY <1>5, <1>6, <1>7, <1>8, Zenon

-----------------------------------------------------------------------------
(* What the sheets of a tree hold, and how it changes with the tree            *)

RecordsOf(t) == [k \in {j \in Keys : FileOf(j) \in DOMAIN t} |-> t[FileOf(k)]]
AttachedOf(t) == [a \in {d \in AttachKeys : AttachOf(d) \in DOMAIN t} |-> t[AttachOf(a)]]

LEMMA AbsentOrHeld ==
  ASSUME NEW t, TreeOK(t), NEW p
  PROVE  At(t, p) # NoFile <=> p \in DOMAIN t
<1>1. NoFile \notin Texts
  BY ConstantsOK, Zenon
<1>2. p \in DOMAIN t => t[p] \in Texts
  BY DEF TreeOK, Range
<1> QED BY <1>1, <1>2 DEF At

LEMMA ViewsAre ==
  ASSUME NEW t, TreeOK(t)
  PROVE  /\ [k \in {j \in Bases \X Records : Exists(t, j[1], j[2])} |->
                t[RecordFile(k[1], k[2])]] = RecordsOf(t)
         /\ [a \in {d \in (Bases \X Records) \X Attachments :
                      HasAttachment(t, d[1][1], d[1][2], d[2])} |->
                GetAttachment(t, a[1][1], a[1][2], a[2])] = AttachedOf(t)
<1>1. \A j \in Keys : Exists(t, j[1], j[2]) <=> FileOf(j) \in DOMAIN t
  BY AbsentOrHeld DEF Exists, FileOf
<1>2. \A d \in AttachKeys :
        HasAttachment(t, d[1][1], d[1][2], d[2]) <=> AttachOf(d) \in DOMAIN t
  BY AbsentOrHeld DEF HasAttachment, GetAttachment, AttachOf
<1>3. \A d \in AttachKeys : AttachOf(d) \in DOMAIN t =>
        GetAttachment(t, d[1][1], d[1][2], d[2]) = t[AttachOf(d)]
  BY DEF GetAttachment, At, AttachOf
<1>4. {j \in Keys : Exists(t, j[1], j[2])} = {j \in Keys : FileOf(j) \in DOMAIN t}
  BY <1>1
<1>5. {d \in AttachKeys : HasAttachment(t, d[1][1], d[1][2], d[2])}
        = {d \in AttachKeys : AttachOf(d) \in DOMAIN t}
  BY <1>2
<1>6. \A k \in Keys : t[RecordFile(k[1], k[2])] = t[FileOf(k)]
  BY DEF FileOf
<1> QED BY <1>3, <1>4, <1>5, <1>6 DEF RecordsOf, AttachedOf, Keys, AttachKeys

\* A tree of which files are taken
LEMMA Taken ==
  ASSUME NEW t, NEW p, NEW S, NEW T,
         \A k \in Keys : IsPrefix(p, FileOf(k)) <=> k \in S,
         \A a \in AttachKeys : IsPrefix(p, AttachOf(a)) <=> a \in T
  PROVE  /\ RecordsOf(Without(t, p)) = Sheets!Drop(RecordsOf(t), S)
         /\ AttachedOf(Without(t, p)) = Sheets!Drop(AttachedOf(t), T)
<1> DEFINE u == Without(t, p)
<1>1. /\ DOMAIN u = {f \in DOMAIN t : ~IsPrefix(p, f)}
      /\ \A f \in DOMAIN u : u[f] = t[f]
  BY DEF Without, Restrict, Beneath
<1> HIDE DEF u
<1>2. RecordsOf(u) = Sheets!Drop(RecordsOf(t), S)
  BY <1>1 DEF RecordsOf, Sheets!Drop, Sheets!Restrict
<1>3. AttachedOf(u) = Sheets!Drop(AttachedOf(t), T)
  BY <1>1 DEF AttachedOf, Sheets!Drop, Sheets!Restrict
<1> QED BY <1>2, <1>3 DEF u

\* A tree in which files are placed
Placed(t, P, x) == [f \in DOMAIN t \cup P |-> IF f \in P THEN x ELSE t[f]]

LEMMA PlacedIs ==
  ASSUME NEW t, NEW P, NEW x, NEW S \in SUBSET Keys, NEW T \in SUBSET AttachKeys,
         \A k \in Keys : FileOf(k) \in P <=> k \in S,
         \A a \in AttachKeys : AttachOf(a) \in P <=> a \in T
  PROVE  /\ RecordsOf(Placed(t, P, x)) = Sheets!Store(RecordsOf(t), S, x)
         /\ AttachedOf(Placed(t, P, x)) = Sheets!Store(AttachedOf(t), T, x)
<1> DEFINE u == Placed(t, P, x)
<1>1. /\ DOMAIN u = DOMAIN t \cup P
      /\ \A f \in DOMAIN u : u[f] = IF f \in P THEN x ELSE t[f]
  BY DEF Placed
<1> HIDE DEF u
<1>2. RecordsOf(u) = Sheets!Store(RecordsOf(t), S, x)
  BY <1>1 DEF RecordsOf, Sheets!Store
<1>3. AttachedOf(u) = Sheets!Store(AttachedOf(t), T, x)
  BY <1>1 DEF AttachedOf, Sheets!Store
<1> QED BY <1>2, <1>3 DEF u

LEMMA DropsAndStores ==
  ASSUME NEW f, NEW S, NEW T, NEW x, f = [k \in DOMAIN f |-> f[k]]
  PROVE  /\ Sheets!Drop(f, {}) = f
         /\ Sheets!Store(f, {}, x) = f
         /\ Sheets!Drop(Sheets!Drop(f, S), T) = Sheets!Drop(f, S \cup T)
BY DEF Sheets!Drop, Sheets!Store, Sheets!Restrict

-----------------------------------------------------------------------------
(* Each write of the core, seen as what it does to the sheets                  *)

LEMMA FunctionsAre ==
  ASSUME NEW t
  PROVE  /\ RecordsOf(t) = [k \in DOMAIN RecordsOf(t) |-> RecordsOf(t)[k]]
         /\ AttachedOf(t) = [a \in DOMAIN AttachedOf(t) |-> AttachedOf(t)[a]]
BY DEF RecordsOf, AttachedOf

\* write_child of a record's file
LEMMA RecordWritten ==
  ASSUME Apart, NEW t, NEW k \in Keys, NEW x
  PROVE  /\ RecordsOf(Put(t, FileOf(k), x)) = Sheets!Store(RecordsOf(t), {k}, x)
         /\ AttachedOf(Put(t, FileOf(k), x)) = AttachedOf(t)
<1>1. Put(t, FileOf(k), x) = Placed(t, {FileOf(k)}, x)
  BY DEF Put, Placed
<1>2. \A j \in Keys : FileOf(j) \in {FileOf(k)} <=> j \in {k}
  BY RecordFilesApart
<1>3. \A a \in AttachKeys : AttachOf(a) \in {FileOf(k)} <=> a \in {}
  BY RecordsAndAttachmentsApart
<1>4. /\ RecordsOf(Placed(t, {FileOf(k)}, x)) = Sheets!Store(RecordsOf(t), {k}, x)
      /\ AttachedOf(Placed(t, {FileOf(k)}, x)) = Sheets!Store(AttachedOf(t), {}, x)
  BY <1>2, <1>3, PlacedIs
<1> QED BY <1>1, <1>4, FunctionsAre, DropsAndStores

\* delete_child_deep of a record's file
LEMMA RecordTaken ==
  ASSUME Apart, NEW t, NEW k \in Keys
  PROVE  /\ RecordsOf(Without(t, FileOf(k))) = Sheets!Drop(RecordsOf(t), {k})
         /\ AttachedOf(Without(t, FileOf(k))) = AttachedOf(t)
<1>1. \A j \in Keys : IsPrefix(FileOf(k), FileOf(j)) <=> j \in {k}
  BY RecordFilesApart
<1>2. \A a \in AttachKeys : IsPrefix(FileOf(k), AttachOf(a)) <=> a \in {}
  BY RecordsAndAttachmentsApart
<1>3. /\ RecordsOf(Without(t, FileOf(k))) = Sheets!Drop(RecordsOf(t), {k})
      /\ AttachedOf(Without(t, FileOf(k))) = Sheets!Drop(AttachedOf(t), {})
  BY <1>1, <1>2, Taken
<1> QED BY <1>3, FunctionsAre, DropsAndStores

Named(k, names) == {k} \X names

\* set_attachments: what is placed of the batch
LEMMA AttachmentsWritten ==
  ASSUME Apart, NEW t, NEW k \in Keys, NEW names \in SUBSET Attachments, NEW x
  PROVE  /\ RecordsOf(SetAttachments(t, k[1], k[2], names, x)) = RecordsOf(t)
         /\ AttachedOf(SetAttachments(t, k[1], k[2], names, x)) =
              Sheets!Store(AttachedOf(t), Named(k, names), x)
<1> DEFINE P == {AttachmentFile(k[1], k[2], n) : n \in names}
<1>1. SetAttachments(t, k[1], k[2], names, x) = Placed(t, P, x)
  BY DEF SetAttachments, Placed
<1>2. \A n \in names : <<k, n>> \in AttachKeys /\ AttachOf(<<k, n>>) = AttachmentFile(k[1], k[2], n)
  BY DEF AttachOf, AttachKeys
<1>3. Named(k, names) \in SUBSET AttachKeys
  BY DEF AttachKeys, Named
<1>4. ASSUME NEW j \in Keys PROVE FileOf(j) \in P <=> j \in {}
  BY <1>2, RecordsAndAttachmentsApart
<1>5. ASSUME NEW a \in AttachKeys PROVE AttachOf(a) \in P <=> a \in Named(k, names)
  <2>1. AttachOf(a) \in P <=> \E n \in names : AttachOf(a) = AttachOf(<<k, n>>)
    BY <1>2
  <2>2. \A n \in names : AttachOf(a) = AttachOf(<<k, n>>) <=> a = <<k, n>>
    BY <1>2, AttachmentFilesApart
  <2>3. a \in Named(k, names) <=> \E n \in names : a = <<k, n>>
    BY DEF Named
  <2> QED BY <2>1, <2>2, <2>3, Zenon
<1> HIDE DEF P
<1> DEFINE T == Named(k, names)
<1>6. /\ T \in SUBSET AttachKeys /\ {} \in SUBSET Keys
      /\ \A j \in Keys : FileOf(j) \in P <=> j \in {}
      /\ \A a \in AttachKeys : AttachOf(a) \in P <=> a \in T
  BY <1>3, <1>4, <1>5
<1> HIDE DEF T
<1>7. /\ RecordsOf(Placed(t, P, x)) = Sheets!Store(RecordsOf(t), {}, x)
      /\ AttachedOf(Placed(t, P, x)) = Sheets!Store(AttachedOf(t), T, x)
  BY <1>6, PlacedIs
<1> QED BY <1>1, <1>7, FunctionsAre, DropsAndStores DEF T

LEMMA AttachmentWritten ==
  ASSUME Apart, NEW t, NEW a \in AttachKeys, NEW x
  PROVE  /\ RecordsOf(Put(t, AttachOf(a), x)) = RecordsOf(t)
         /\ AttachedOf(Put(t, AttachOf(a), x)) = Sheets!Store(AttachedOf(t), Named(a[1], {a[2]}), x)
<1> DEFINE k == a[1]
           names == {a[2]}
<1>1. k \in Keys /\ names \in SUBSET Attachments
  BY DEF AttachKeys
<1>2. Put(t, AttachOf(a), x) = SetAttachments(t, k[1], k[2], names, x)
  BY DEF Put, SetAttachments, AttachOf
<1> HIDE DEF k, names
<1>3. /\ RecordsOf(Put(t, AttachOf(a), x)) = RecordsOf(t)
      /\ AttachedOf(Put(t, AttachOf(a), x)) = Sheets!Store(AttachedOf(t), Named(k, names), x)
  BY <1>1, <1>2, AttachmentsWritten, ZenonT(60)
<1> QED BY <1>3 DEF k, names

\* delete_attachment
LEMMA AttachmentTaken ==
  ASSUME Apart, NEW t, NEW a \in AttachKeys
  PROVE  /\ RecordsOf(Without(t, AttachOf(a))) = RecordsOf(t)
         /\ AttachedOf(Without(t, AttachOf(a))) = Sheets!Drop(AttachedOf(t), {a})
<1>1. \A j \in Keys : IsPrefix(AttachOf(a), FileOf(j)) <=> j \in {}
  BY RecordsAndAttachmentsApart
<1>2. \A d \in AttachKeys : IsPrefix(AttachOf(a), AttachOf(d)) <=> d \in {a}
  BY AttachmentFilesApart
<1>3. /\ RecordsOf(Without(t, AttachOf(a))) = Sheets!Drop(RecordsOf(t), {})
      /\ AttachedOf(Without(t, AttachOf(a))) = Sheets!Drop(AttachedOf(t), {a})
  BY <1>1, <1>2, Taken
<1> QED BY <1>3, FunctionsAre, DropsAndStores

\* delete_attachments: the directory of a record's name, with all that is in it
LEMMA DirTaken ==
  ASSUME Apart, NEW t, NEW k \in Keys
  PROVE  /\ RecordsOf(Without(t, DirOf(k))) =
              Sheets!Drop(RecordsOf(t), {j \in Keys : Sheets!InDirOf(k, j) /\ j # k})
         /\ AttachedOf(Without(t, DirOf(k))) =
              Sheets!Drop(AttachedOf(t), {a \in AttachKeys : Sheets!InDirOf(k, a[1])})
<1> DEFINE S == {j \in Keys : Sheets!InDirOf(k, j) /\ j # k}
           T == {a \in AttachKeys : Sheets!InDirOf(k, a[1])}
<1>1. \A j \in Keys : IsPrefix(DirOf(k), FileOf(j)) <=> j \in S
  BY FilesInDirectories
<1>2. \A a \in AttachKeys : IsPrefix(DirOf(k), AttachOf(a)) <=> a \in T
  BY AttachmentsInDirectories
<1> HIDE DEF S, T
<1>3. /\ RecordsOf(Without(t, DirOf(k))) = Sheets!Drop(RecordsOf(t), S)
      /\ AttachedOf(Without(t, DirOf(k))) = Sheets!Drop(AttachedOf(t), T)
  BY <1>1, <1>2, Taken
<1> QED BY <1>3 DEF S, T

\* delete_at_path: a record's file, and the directory of its name
LEMMA RecordDeleted ==
  ASSUME Apart, NEW t, NEW k \in Keys
  PROVE  /\ RecordsOf(DeleteAtPath(t, k[1], k[2])) =
              Sheets!Drop(RecordsOf(t), {j \in Keys : Sheets!InDirOf(k, j)})
         /\ AttachedOf(DeleteAtPath(t, k[1], k[2])) =
              Sheets!Drop(AttachedOf(t), {a \in AttachKeys : Sheets!InDirOf(k, a[1])})
<1> DEFINE u == Without(t, FileOf(k))
           S == {j \in Keys : Sheets!InDirOf(k, j) /\ j # k}
           T == {a \in AttachKeys : Sheets!InDirOf(k, a[1])}
<1>1. DeleteAtPath(t, k[1], k[2]) = Without(u, DirOf(k))
  BY DEF DeleteAtPath, FileOf, DirOf
<1>2. RecordsOf(u) = Sheets!Drop(RecordsOf(t), {k}) /\ AttachedOf(u) = AttachedOf(t)
  BY RecordTaken
<1>3. /\ RecordsOf(Without(u, DirOf(k))) = Sheets!Drop(RecordsOf(u), S)
      /\ AttachedOf(Without(u, DirOf(k))) = Sheets!Drop(AttachedOf(u), T)
  BY DirTaken, Zenon
<1>4. {k} \cup S = {j \in Keys : Sheets!InDirOf(k, j)}
  <2>1. k[2] \in Seq(Name)
    BY RecordIs DEF Keys
  <2>2. Sheets!InDirOf(k, k)
    BY <2>1, NothingBeneath, Zenon DEF Sheets!InDirOf, Sheets!IsPrefix, IsPrefix
  <2> QED BY <2>2
<1> HIDE DEF S, T, u
<1>5. Sheets!Drop(Sheets!Drop(RecordsOf(t), {k}), S) = Sheets!Drop(RecordsOf(t), {k} \cup S)
  BY FunctionsAre, DropsAndStores
<1> QED BY <1>1, <1>2, <1>3, <1>4, <1>5 DEF T

\* clear: all that is below the sheet's base
LEMMA BaseTaken ==
  ASSUME Apart, NEW t, NEW b \in Bases
  PROVE  /\ RecordsOf(Clear(t, b)) = Sheets!Drop(RecordsOf(t), {j \in Keys : j[1] = b})
         /\ AttachedOf(Clear(t, b)) =
              Sheets!Drop(AttachedOf(t), {a \in AttachKeys : a[1][1] = b})
<1> DEFINE S == {j \in Keys : j[1] = b}
           T == {a \in AttachKeys : a[1][1] = b}
<1>1. \A j \in Keys : IsPrefix(b, FileOf(j)) <=> j \in S
  BY FilesInDirectories
<1>2. \A a \in AttachKeys : IsPrefix(b, AttachOf(a)) <=> a \in T
  <2>1. \A a \in AttachKeys : a[1] \in Keys
    BY DEF AttachKeys
  <2> QED BY <2>1, AttachmentsInDirectories
<1> HIDE DEF S, T
<1>3. /\ RecordsOf(Without(t, b)) = Sheets!Drop(RecordsOf(t), S)
      /\ AttachedOf(Without(t, b)) = Sheets!Drop(AttachedOf(t), T)
  BY <1>1, <1>2, Taken
<1> QED BY <1>3 DEF S, T, Clear

\* stage_upsert: a candidate is written, and taken from where it was before.
LEMMA Staged ==
  ASSUME Apart, NEW t, NEW b \in Bases, NEW u \in Candidates
  PROVE  LET k == <<b, u.path>>
             j == <<b, u.previous>>
             moved == u.previous \notin {NoPath, u.path}
         IN  /\ moved => u.previous \in Records
             /\ AttachedOf(StageUpsert(t, b, u)) = AttachedOf(t)
             /\ RecordsOf(StageUpsert(t, b, u)) =
                  IF moved
                  THEN Sheets!Store(Sheets!Drop(RecordsOf(t), {j}), {k}, u.text)
                  ELSE Sheets!Store(RecordsOf(t), {k}, u.text)
<1> DEFINE k == <<b, u.path>>
           j == <<b, u.previous>>
           moved == u.previous \notin {NoPath, u.path}
           rest == IF moved THEN Without(t, FileOf(j)) ELSE t
<1>1. u.path \in Records /\ u.previous \in Records \cup {NoPath}
  BY DEF Candidates
<1>2. k \in Keys /\ (moved => u.previous \in Records /\ j \in Keys)
  BY <1>1 DEF Keys
<1>3. StageUpsert(t, b, u) = Put(rest, FileOf(k), u.text)
  BY DEF StageUpsert, FileOf
<1>4. /\ AttachedOf(rest) = AttachedOf(t)
      /\ RecordsOf(rest) = IF moved THEN Sheets!Drop(RecordsOf(t), {j}) ELSE RecordsOf(t)
  <2>1. CASE moved
    BY <1>2, <2>1, RecordTaken
  <2>2. CASE ~moved
    BY <2>2
  <2> QED BY <2>1, <2>2
<1> HIDE DEF rest, moved, k, j
<1>5. /\ RecordsOf(Put(rest, FileOf(k), u.text)) = Sheets!Store(RecordsOf(rest), {k}, u.text)
      /\ AttachedOf(Put(rest, FileOf(k), u.text)) = AttachedOf(rest)
  BY <1>2, RecordWritten
<1>6. /\ moved => u.previous \in Records
      /\ AttachedOf(StageUpsert(t, b, u)) = AttachedOf(t)
      /\ RecordsOf(StageUpsert(t, b, u)) =
           IF moved
           THEN Sheets!Store(Sheets!Drop(RecordsOf(t), {j}), {k}, u.text)
           ELSE Sheets!Store(RecordsOf(t), {k}, u.text)
  BY <1>2, <1>3, <1>4, <1>5
<1> QED BY <1>6 DEF moved, k, j

-----------------------------------------------------------------------------
(* Each step of the session, seen by the sheets                                *)

LEMMA SheetsSeen == IInv => RecordView = RecordsOf(tree) /\ AttachmentView = AttachedOf(tree)
<1>1. IInv => TreeOK(tree)
  BY TreeIsOK
<1> QED BY <1>1, ViewsAre DEF RecordView, RecordKeys, AttachmentView, AttachmentKeys

LEMMA SheetsSeenNext ==
  IInv' => RecordView' = RecordsOf(tree') /\ AttachmentView' = AttachedOf(tree')
<1>1. IInv' => TreeOK(tree')
  BY DEF IInv, TypeOK, TreeOK
<1> QED BY <1>1, ViewsAre DEF RecordView, RecordKeys, AttachmentView, AttachmentKeys

LEMMA InitImplements == ASSUME Apart, Init PROVE Sheets!Init
<1>1. tree = parent
      /\ parent \in {Empty} \cup {Put(Empty, RecordFile(b, r), t) : b \in Bases, r \in Records, t \in Texts}
      /\ Node \in BOOLEAN
  BY DEF Init, NodeBegin, PyBegin, Begun, Node
<1>2. RecordsOf(Empty) = <<>> /\ AttachedOf(Empty) = <<>>
  BY DEF RecordsOf, AttachedOf, Empty
<1>3. IInv
  BY InitInv
<1>4. RecordView = RecordsOf(tree) /\ AttachmentView = AttachedOf(tree)
  BY <1>3, SheetsSeen
<1>5. CASE tree = Empty
  BY <1>1, <1>2, <1>4, <1>5 DEF Sheets!Init
<1>6. ASSUME NEW b \in Bases, NEW r \in Records, NEW t \in Texts,
             tree = Put(Empty, RecordFile(b, r), t)
      PROVE  Sheets!Init
  <2> DEFINE k == <<b, r>>
  <2>1. k \in Keys /\ FileOf(k) = RecordFile(b, r)
    BY DEF Keys, FileOf
  <2>2. /\ RecordsOf(tree) = Sheets!Store(<<>>, {k}, t)
        /\ AttachedOf(tree) = <<>>
    BY <1>2, <1>6, <2>1, RecordWritten, ZenonT(60)
  <2>3. k \in Sheets!Keys
    BY <2>1 DEF Sheets!Keys, Keys
  <2> HIDE DEF k
  <2> DEFINE One(j, x) == Sheets!Store(<<>>, {j}, x)
             none == <<>>
             ones == {One(j, x) : j \in Sheets!Keys, x \in Texts}
  <2>4. RecordsOf(tree) = One(k, t) /\ AttachedOf(tree) = none
    BY <2>2
  <2>5. Sheets!Init <=>
          RecordView \in {none} \cup ones /\ AttachmentView = none /\ Node \in BOOLEAN
    BY DEF Sheets!Init
  <2> HIDE DEF One, none
  <2>6. One(k, t) \in ones
    BY <2>3
  <2> HIDE DEF ones
  <2> QED BY <1>1, <1>4, <2>4, <2>5, <2>6
<1> QED BY <1>1, <1>5, <1>6

LEMMA StutterSeen ==
  ASSUME IInv, IInv', UNCHANGED <<tree, binding>>
  PROVE  UNCHANGED Sheets!vars
<1>1. RecordView' = RecordView /\ AttachmentView' = AttachmentView
  BY SheetsSeen, SheetsSeenNext
<1>2. Node' <=> Node
  BY DEF Node
<1> QED BY <1>1, <1>2 DEF Sheets!vars

\* An operation of the core on the record k of an opened sheet
LEMMA WritesSeen ==
  ASSUME Apart, IInv, IInv', UNCHANGED binding, NEW b \in Bases, NEW r \in Records,
         \/ \E u \in Candidates : tree' = StageUpsert(tree, b, u)
         \/ Exists(tree, b, r) /\ tree' = DeleteAtPath(tree, b, r)
         \/ tree' = DeleteAttachments(tree, b, r)
         \/ \E names \in SUBSET Attachments, x \in Texts : tree' = SetAttachments(tree, b, r, names, x)
         \/ \E n \in Attachments : tree' = DeleteAttachment(tree, b, r, n)
         \/ \E x \in Texts : tree' = Put(tree, RecordFile(b, r), x)
         \/ \E n \in Attachments, x \in Texts : tree' = Put(tree, AttachmentFile(b, r, n), x)
         \/ Node /\ tree' = Without(tree, RecordFile(b, r))
         \/ \E n \in Attachments : tree' = Without(tree, AttachmentFile(b, r, n))
  PROVE  Sheets!Next /\ UNCHANGED Node
<1> DEFINE k == <<b, r>>
           S == {j \in Keys : Sheets!InDirOf(k, j)}
           T == {a \in AttachKeys : Sheets!InDirOf(k, a[1])}
<1>1. /\ RecordView = RecordsOf(tree) /\ AttachmentView = AttachedOf(tree)
      /\ RecordView' = RecordsOf(tree') /\ AttachmentView' = AttachedOf(tree')
  BY SheetsSeen, SheetsSeenNext
<1>2. k \in Keys /\ k[1] = b /\ k[2] = r /\ Keys = Sheets!Keys
      /\ FileOf(k) = RecordFile(b, r) /\ DirOf(k) = RecordDir(b, r)
  BY DEF Keys, Sheets!Keys, FileOf, DirOf
<1>3. \A n \in Attachments : <<k, n>> \in AttachKeys /\ AttachOf(<<k, n>>) = AttachmentFile(b, r, n)
  BY <1>2 DEF AttachKeys, AttachOf
<1>4. UNCHANGED Node
  BY DEF Node
<1> HIDE DEF k
<1>5. ASSUME NEW u \in Candidates, tree' = StageUpsert(tree, b, u)
      PROVE  Sheets!Next
  <2> DEFINE h == <<b, u.path>>
             moved == u.previous \notin {NoPath, u.path}
  <2>1. h \in Sheets!Keys /\ u.text \in Texts /\ h[1] = b
    BY DEF Sheets!Keys, Candidates
  <2>2. /\ moved => u.previous \in Records
        /\ AttachedOf(tree') = AttachedOf(tree)
        /\ RecordsOf(tree') =
             IF moved
             THEN Sheets!Store(Sheets!Drop(RecordsOf(tree), {<<b, u.previous>>}), {h}, u.text)
             ELSE Sheets!Store(RecordsOf(tree), {h}, u.text)
    BY <1>5, Staged
  <2> HIDE DEF h, moved
  <2>3. CASE moved
    <3>1. Sheets!Move(<<h[1], u.previous>>, h, u.text)
      BY <1>1, <2>1, <2>2, <2>3 DEF Sheets!Move
    <3>2. u.previous \in Records
      BY <2>2, <2>3
    <3> QED BY <2>1, <3>1, <3>2, Zenon DEF Sheets!Next
  <2>4. CASE ~moved
    <3>1. Sheets!Upsert(h, u.text)
      BY <1>1, <2>2, <2>4 DEF Sheets!Upsert
    <3> QED BY <2>1, <3>1, Zenon DEF Sheets!Next
  <2> QED BY <2>3, <2>4
<1>6. ASSUME Exists(tree, b, r), tree' = DeleteAtPath(tree, b, r)
      PROVE  Sheets!Next
  <2>1. k \in DOMAIN RecordView
    BY <1>2, <1>6 DEF RecordView, RecordKeys, Keys
  <2>2. /\ RecordsOf(tree') = Sheets!Drop(RecordsOf(tree), S)
        /\ AttachedOf(tree') = Sheets!Drop(AttachedOf(tree), T)
    BY <1>2, <1>6, RecordDeleted
  <2>3. Sheets!Delete(k)
    BY <1>1, <1>2, <2>1, <2>2 DEF Sheets!Delete, AttachKeys
  <2> QED BY <1>2, <2>3, Zenon DEF Sheets!Next
<1>7. ASSUME tree' = DeleteAttachments(tree, b, r)
      PROVE  Sheets!Next
  <2>1. /\ RecordsOf(tree') = Sheets!Drop(RecordsOf(tree), {j \in Keys : Sheets!InDirOf(k, j) /\ j # k})
        /\ AttachedOf(tree') = Sheets!Drop(AttachedOf(tree), T)
    BY <1>2, <1>7, DirTaken DEF DeleteAttachments
  <2>2. Sheets!DeleteAttachments(k)
    BY <1>1, <1>2, <2>1 DEF Sheets!DeleteAttachments, AttachKeys
  <2> QED BY <1>2, <2>2, Zenon DEF Sheets!Next
<1>8. ASSUME NEW names \in SUBSET Attachments, NEW x \in Texts,
             tree' = SetAttachments(tree, b, r, names, x)
      PROVE  Sheets!Next
  <2>1. /\ RecordsOf(tree') = RecordsOf(tree)
        /\ AttachedOf(tree') = Sheets!Store(AttachedOf(tree), Named(k, names), x)
    BY <1>2, <1>8, AttachmentsWritten
  <2>2. Sheets!Attach(k, names, x)
    BY <1>1, <2>1 DEF Sheets!Attach, Named
  <2> QED BY <1>2, <2>2, Zenon DEF Sheets!Next
<1>9. ASSUME NEW n \in Attachments, tree' = Without(tree, AttachmentFile(b, r, n))
       PROVE  Sheets!Next
  <2>1. /\ RecordsOf(tree') = RecordsOf(tree)
        /\ AttachedOf(tree') = Sheets!Drop(AttachedOf(tree), {<<k, n>>})
    BY <1>3, <1>9, AttachmentTaken
  <2>2. Sheets!Detach(k, n)
    BY <1>1, <2>1 DEF Sheets!Detach
  <2> QED BY <1>2, <2>2, Zenon DEF Sheets!Next
<1>10. ASSUME NEW x \in Texts, tree' = Put(tree, RecordFile(b, r), x)
       PROVE  Sheets!Next
  <2>1. /\ RecordsOf(tree') = Sheets!Store(RecordsOf(tree), {k}, x)
        /\ AttachedOf(tree') = AttachedOf(tree)
    BY <1>2, <1>10, RecordWritten
  <2>2. Sheets!Upsert(k, x)
    BY <1>1, <2>1 DEF Sheets!Upsert
  <2> QED BY <1>2, <2>2, Zenon DEF Sheets!Next
<1>11. ASSUME NEW n \in Attachments, NEW x \in Texts, tree' = Put(tree, AttachmentFile(b, r, n), x)
       PROVE  Sheets!Next
  <2> DEFINE a == <<k, n>>
  <2>1. a \in AttachKeys /\ AttachOf(a) = AttachmentFile(b, r, n) /\ a[1] = k /\ a[2] = n
    BY <1>3
  <2> HIDE DEF a
  <2>2. /\ RecordsOf(tree') = RecordsOf(tree)
        /\ AttachedOf(tree') = Sheets!Store(AttachedOf(tree), Named(k, {n}), x)
    BY <1>11, <2>1, AttachmentWritten, ZenonT(60)
  <2>3. Sheets!Attach(k, {n}, x)
    BY <1>1, <2>2 DEF Sheets!Attach, Named
  <2>4. {n} \in SUBSET Attachments
    OBVIOUS
  <2> QED BY <1>2, <2>3, <2>4, Zenon DEF Sheets!Next
<1>12. ASSUME Node, tree' = Without(tree, RecordFile(b, r))
       PROVE  Sheets!Next
  <2>1. /\ RecordsOf(tree') = Sheets!Drop(RecordsOf(tree), {k})
        /\ AttachedOf(tree') = AttachedOf(tree)
    BY <1>2, <1>12, RecordTaken
  <2>2. Sheets!Unlink(k)
    BY <1>1, <1>12, <2>1 DEF Sheets!Unlink
  <2> QED BY <1>2, <2>2, Zenon DEF Sheets!Next
<1> QED BY <1>4, <1>5, <1>6, <1>7, <1>8, <1>9, <1>10, <1>11, <1>12 DEF DeleteAttachment

LEMMA ClearSeen ==
  ASSUME Apart, IInv, IInv', UNCHANGED binding, NEW b \in Bases, tree' = Clear(tree, b)
  PROVE  Sheets!Next /\ UNCHANGED Node
<1>1. /\ RecordView = RecordsOf(tree) /\ AttachmentView = AttachedOf(tree)
      /\ RecordView' = RecordsOf(tree') /\ AttachmentView' = AttachedOf(tree')
  BY SheetsSeen, SheetsSeenNext
<1>2. /\ RecordsOf(tree') = Sheets!Drop(RecordsOf(tree), {j \in Keys : j[1] = b})
      /\ AttachedOf(tree') = Sheets!Drop(AttachedOf(tree), {a \in AttachKeys : a[1][1] = b})
  BY BaseTaken
<1>3. Keys = Sheets!Keys
  BY DEF Keys, Sheets!Keys
<1>4. Sheets!Clear(b)
  BY <1>1, <1>2, <1>3 DEF Sheets!Clear, AttachKeys
<1>5. UNCHANGED Node
  BY DEF Node
<1> QED BY <1>4, <1>5, Zenon DEF Sheets!Next

LEMMA UsableIs ==
  ASSUME IInv, NEW n \in Names, Usable(n)
  PROVE  sheets[n] \in Bases
BY DEF IInv, TypeOK, Usable

LEMMA PyStageSeen ==
  ASSUME Apart, IInv, IInv', PyStage
  PROVE  Sheets!Next /\ UNCHANGED Node
<1> DEFINE n == SheetOf(Last(frames))
           u == pending[n]
<1>1. /\ Returns("accepted") /\ Usable(n) /\ u # NoCandidate
      /\ tree' = StageUpsert(tree, sheets[n], u)
      /\ UNCHANGED <<binding, shadowed>>
  BY DEF PyStage, Stage, Mutate, SheetOf
<1>2. n \in Names
  BY <1>1, ReturnKeeps DEF SheetOf
<1>3. u \in Candidates /\ sheets[n] \in Bases
  BY <1>1, <1>2, UsableIs DEF IInv, TypeOK
<1>4. u.path \in Records
  BY <1>3 DEF Candidates
<1> HIDE DEF n, u
<1> QED BY <1>1, <1>3, <1>4, WritesSeen

LEMMA StepSeen ==
  ASSUME Apart, IInv, IInv', [Next]_vars
  PROVE  [Sheets!Next /\ UNCHANGED Node]_(Sheets!vars)
<1>1. ASSUME UNCHANGED <<tree, binding>>
      PROVE  UNCHANGED Sheets!vars
  BY <1>1, StutterSeen
<1>2. CASE UNCHANGED vars
  BY <1>1, <1>2 DEF vars
<1>3. ASSUME NEW n \in Names, NEW b \in Bases, NodeOpenSheet(n, b) \/ PyOpenSheet(n, b)
      PROVE  UNCHANGED <<tree, binding>>
  BY <1>3 DEF NodeOpenSheet, PyOpenSheet, OpenSheet
<1>4. ASSUME NEW n \in Names, NEW r \in Records, NEW prev \in Records \cup {NoPath},
             NEW text \in Texts, NodeUpsert(n, r, prev, text)
      PROVE  Sheets!Next /\ UNCHANGED Node
  <2> DEFINE u == Prepared(r, prev, text)
  <2>1. /\ Usable(n) /\ NextCall \in Calls /\ UNCHANGED binding
        /\ tree' = StageUpsert(tree, sheets[n], u)
    BY <1>4 DEF NodeUpsert, Stage, Mutate
  <2>2. u \in Candidates /\ sheets[n] \in Bases
    BY <2>1, PreparedIs, UsableIs
  <2> HIDE DEF u
  <2> QED BY <2>1, <2>2, WritesSeen
<1>5. ASSUME NEW n \in Names, NEW r \in Records, NEW prev \in Records \cup {NoPath},
             NEW text \in Texts, NodePrepareOnly(n, r, prev, text) \/ PyPrepare(n, r, prev, text)
      PROVE  UNCHANGED <<tree, binding>>
  BY <1>5 DEF NodePrepareOnly, PyPrepare
<1>6. CASE PyStage
  BY <1>6, PyStageSeen
<1>7. CASE PyStageFails \/ PyReject
  BY <1>1, <1>7 DEF PyStageFails, PyReject
<1>8. ASSUME NEW n \in Names, NEW r \in Records,
             \/ NodeDelete(n, r) \/ PyDelete(n, r)
             \/ NodeDeleteAttachments(n, r) \/ PyDeleteAttachments(n, r)
      PROVE  Sheets!Next /\ UNCHANGED Node
  <2>1. /\ Usable(n) /\ UNCHANGED binding
        /\ \/ Exists(tree, sheets[n], r) /\ tree' = DeleteAtPath(tree, sheets[n], r)
           \/ tree' = DeleteAttachments(tree, sheets[n], r)
    BY <1>8 DEF NodeDelete, PyDelete, NodeDeleteAttachments, PyDeleteAttachments, Delete,
                DeleteAll, Write, Mutate
  <2>2. sheets[n] \in Bases
    BY <2>1, UsableIs
  <2> QED BY <2>1, <2>2, WritesSeen
<1>9. ASSUME NEW n \in Names, NEW r \in Records, NEW names \in SUBSET Attachments,
             NEW blob \in Texts,
             \/ NodeSetAttachments(n, r, names, blob) \/ PySetAttachments(n, r, names, blob)
             \/ SetAttachmentsFails(n, r, names, blob)
      PROVE  Sheets!Next /\ UNCHANGED Node
  <2>1. /\ Usable(n) /\ UNCHANGED binding
        /\ tree' = SetAttachments(tree, sheets[n], r, names, blob)
    BY <1>9 DEF NodeSetAttachments, PySetAttachments, SetAttachmentsFails, SetAll, Write, Mutate
  <2>2. sheets[n] \in Bases
    BY <2>1, UsableIs
  <2> QED BY <2>1, <2>2, WritesSeen
<1>10. ASSUME NEW n \in Names, NEW r \in Records, NEW name \in Attachments,
              NodeDeleteAttachment(n, r, name) \/ PyDeleteAttachment(n, r, name)
       PROVE  Sheets!Next /\ UNCHANGED Node
  <2>1. /\ Usable(n) /\ UNCHANGED binding
        /\ tree' = DeleteAttachment(tree, sheets[n], r, name)
    BY <1>10 DEF NodeDeleteAttachment, PyDeleteAttachment, DeleteOne, Write, Mutate
  <2>2. sheets[n] \in Bases
    BY <2>1, UsableIs
  <2> QED BY <2>1, <2>2, WritesSeen
<1>11. ASSUME NEW n \in Names, NEW r \in Records, NEW name \in Attachments, NEW blob \in Texts,
              NodeSetAttachment(n, r, name, blob) \/ PySetAttachment(n, r, name, blob)
       PROVE  Sheets!Next /\ UNCHANGED Node
  <2>1. {name} \in SUBSET Attachments
    OBVIOUS
  <2> QED BY <1>9, <1>11, <2>1 DEF NodeSetAttachment, PySetAttachment
<1>12. ASSUME NEW n \in Names, NodeClear(n) \/ PyClear(n)
       PROVE  Sheets!Next /\ UNCHANGED Node
  <2>1. Usable(n) /\ UNCHANGED binding /\ tree' = Clear(tree, sheets[n])
    BY <1>12 DEF NodeClear, PyClear, ClearSheet, Write, Mutate
  <2>2. sheets[n] \in Bases
    BY <2>1, UsableIs
  <2> QED BY <2>1, <2>2, ClearSeen
<1>13. ASSUME NEW f \in Files,
              NodeDeleteFile(f) \/ \E text \in Texts : NodeWriteFile(f, text)
       PROVE  Sheets!Next /\ UNCHANGED Node
  <2>1. /\ Node /\ UNCHANGED binding
        /\ tree' = Without(tree, f) \/ \E text \in Texts : tree' = Put(tree, f, text)
    BY <1>13 DEF NodeDeleteFile, NodeWriteFile, Write, Mutate
  <2>2. ASSUME NEW b \in Bases, NEW r \in Records, f = RecordFile(b, r)
        PROVE  Sheets!Next /\ UNCHANGED Node
    BY <2>1, <2>2, WritesSeen
  <2>3. ASSUME NEW b \in Bases, NEW r \in Records, NEW n \in Attachments, f = AttachmentFile(b, r, n)
        PROVE  Sheets!Next /\ UNCHANGED Node
    BY <2>1, <2>3, WritesSeen
  <2> QED BY <2>2, <2>3 DEF Files
<1>14. CASE NodeFinalize \/ NodeDiscard \/ PyFinalize \/ PyDiscard
  <2>1. UNCHANGED <<tree, binding>>
    BY <1>14 DEF NodeFinalize, NodeDiscard, PyFinalize, PyDiscard, End
  <2> QED BY <1>1, <2>1
<1> QED BY <1>1, <1>2, <1>3, <1>4, <1>5, <1>6, <1>7, <1>8, <1>9, <1>10, <1>11, <1>12, <1>13, <1>14
        DEF Next

\* Whatever a client does through either binding, in whatever order and however
\* deeply its upserts nest: the records and attachments of sheets that are Apart
\* change as SheetStore says, each operation touching those it names and what
\* lies in their directories, and no others (sheet.rs, record.rs).
THEOREM SessionImplementsSheets == ASSUME Apart PROVE Spec => ImplementsSheets
<1>1. Init => Sheets!Init
  BY InitImplements
<1>2. IInv /\ IInv' /\ [Next]_vars => [Sheets!Next /\ UNCHANGED Node]_(Sheets!vars)
  BY StepSeen
<1> QED BY <1>1, <1>2, Invariance, PTL DEF Spec, ImplementsSheets, Sheets!Spec

=============================================================================
