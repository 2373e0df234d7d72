-------------------------- MODULE NonceFileProofs --------------------------
(***************************************************************************)
(* Proofs about NonceFile: its properties hold for any number of sessions, *)
(* receivers and paths, however the sessions share them.                   *)
(***************************************************************************)
EXTENDS NonceFile, TLAPS

\* Only the session that writes a path puts its nonce there, and it has begun
\* to write.
Provenance ==
  \A p \in Paths :
    Exists(p) => /\ PathOf[file[p].by] = p
                 /\ wpc[file[p].by] \in {"writing", "done", "failed"}

\* What a receiver read came from the path it had found, and the writer had
\* let go of the file.
ReadFromClosed ==
  \A r \in Readers :
    bytes[r].by # None => /\ rpc[r] \in {"deleting", "done"}
                          /\ target[r] \in Paths
                          /\ wpc[bytes[r].by] \in {"done", "failed"}

\* A receiver has a result only when it returned, and it is what it read.
ReturnedWhole ==
  \A r \in Readers :
    result[r] # None => rpc[r] = "done" /\ bytes[r] = [by |-> result[r], len |-> "full"]

IInv ==
  /\ TypeOK
  /\ OwnWhileWriting
  /\ Provenance
  /\ ReadFromClosed
  /\ ReturnedWhole
  /\ ConsumedIsGone

\* The assumptions on the constants, together.
Constants == /\ None \notin Sessions \cup Paths /\ Dir \notin Paths
             /\ PathOf \in [Sessions -> Paths]
             /\ Targets \in [Readers -> Paths \cup {Dir}]
             /\ MaxTime \in Nat

LEMMA ConstantsHold == Constants
BY NoneAssumption, DirAssumption, PathOfAssumption, TargetsAssumption, MaxTimeAssumption
DEF Constants

\* The initial states satisfy the invariant: there is no file, nobody writes
\* and nobody has read anything.
LEMMA InitIInv == Init => IInv
<1> SUFFICES ASSUME Init PROVE IInv
  OBVIOUS
<1> USE ConstantsHold DEF Constants, Init, Nothing, NoFile, Contents
<1>1. TypeOK
  BY DEF TypeOK
<1>2. OwnWhileWriting
  BY DEF OwnWhileWriting
<1>3. Provenance /\ ReadFromClosed /\ ReturnedWhole /\ ConsumedIsGone
  BY DEF Provenance, Exists, ReadFromClosed, ReturnedWhole, ConsumedIsGone
<1> QED
  BY <1>1, <1>2, <1>3 DEF IInv

-----------------------------------------------------------------------------
(* Types.                                                                  *)

LEMMA SessionTyped ==
  ASSUME TypeOK, NEW w \in Sessions, SessionStep(w)
  PROVE  TypeOK'
<1> USE ConstantsHold DEF Constants, TypeOK, Goto, disk, writers, readers, NoFile
<1>1. CASE ListStale(w) BY <1>1 DEF ListStale
<1>2. CASE SweepOne(w) BY <1>2 DEF SweepOne, Remove
<1>3. CASE Swept(w) BY <1>3 DEF Swept
<1>4. CASE NoSweep(w) BY <1>4 DEF NoSweep
<1>5. CASE Create(w) BY <1>5 DEF Create
<1>6. CASE CreateFails(w) BY <1>6 DEF CreateFails
<1>7. CASE Write(w) BY <1>7 DEF Write
<1>8. CASE CloseFile(w) BY <1>8 DEF CloseFile
<1>9. CASE SessionCrash(w) BY <1>9 DEF SessionCrash
<1> QED
  BY <1>1, <1>2, <1>3, <1>4, <1>5, <1>6, <1>7, <1>8, <1>9 DEF SessionStep

LEMMA ReaderTyped ==
  ASSUME TypeOK, NEW r \in Readers, ReaderStep(r)
  PROVE  TypeOK'
<1> USE ConstantsHold DEF Constants, TypeOK, disk, writers, readers
<1>1. CASE Resolve(r) BY <1>1 DEF Resolve, Latest
<1>2. CASE ResolveFails(r) BY <1>2 DEF ResolveFails
<1>3. CASE Read(r) BY <1>3 DEF Read, Contents
<1>4. CASE ReadFails(r) BY <1>4 DEF ReadFails
<1>5. ASSUME Return(r)
      PROVE  /\ rpc' \in [Readers -> {"idle", "reading", "deleting", "done"}]
             /\ \A s \in Readers : rpc'[s] \in {"reading", "deleting"} => target'[s] \in Paths
             /\ result' \in [Readers -> Sessions \cup {None}]
  BY <1>5 DEF Return, Verdict, Contents
<1>6. CASE Delete(r) BY <1>5, <1>6 DEF Delete, Remove, Return, NoFile
<1>7. CASE DeleteGone(r) BY <1>5, <1>7 DEF DeleteGone, Return
<1>8. CASE DeleteFails(r) BY <1>5, <1>8 DEF DeleteFails, Return
<1>9. CASE ReaderCrash(r) BY <1>9 DEF ReaderCrash, Nothing, Contents
<1> QED
  BY <1>1, <1>2, <1>3, <1>4, <1>6, <1>7, <1>8, <1>9 DEF ReaderStep

LEMMA TypedStep == TypeOK /\ [Next]_vars => TypeOK'
<1> SUFFICES ASSUME TypeOK, [Next]_vars PROVE TypeOK'
  OBVIOUS
<1>1. CASE Tick
  BY <1>1, ConstantsHold DEF Constants, TypeOK, Tick, writers, readers
<1>2. CASE UNCHANGED vars
  BY <1>2 DEF TypeOK, vars
<1> QED
  BY <1>1, <1>2, SessionTyped, ReaderTyped DEF Next

-----------------------------------------------------------------------------
(* Steps.                                                                  *)

\* A successful removal empties a path that nobody writes.
LEMMA RemovePreserves ==
  ASSUME IInv, NEW p \in Paths, Remove(p), UNCHANGED wpc
  PROVE  /\ OwnWhileWriting'
         /\ Provenance'
         /\ file'[p].by = None
         /\ \A q \in Paths : file'[q] = file[q] \/ file'[q].by = None
<1>1. \A q \in Paths : file'[q] = IF q = p THEN NoFile ELSE file[q]
  BY DEF IInv, TypeOK, Remove
<1>2. OwnWhileWriting'
  BY <1>1, ConstantsHold DEF IInv, OwnWhileWriting, Remove, Locked, Constants
<1>3. Provenance'
  BY <1>1 DEF IInv, Provenance, Exists, NoFile
<1> QED
  BY <1>1, <1>2, <1>3 DEF NoFile

\* A session's step: it begins to write only where nothing exists, it removes
\* only what nobody has open, and what a receiver read is never its nonce.
LEMMA SessionPreserves ==
  ASSUME IInv, NEW w \in Sessions, SessionStep(w)
  PROVE  IInv'
<1> USE ConstantsHold DEF Constants
<1>1. TypeOK /\ TypeOK'
  BY SessionTyped DEF IInv
<1>2. UNCHANGED readers
  BY DEF SessionStep, ListStale, SweepOne, Swept, NoSweep, Create, CreateFails,
         Write, CloseFile, SessionCrash, writers
<1>3. ReturnedWhole'
  BY <1>2 DEF IInv, ReturnedWhole, readers
<1>4. ASSUME UNCHANGED file,
             \A v \in Sessions : wpc'[v] = wpc[v] \/ wpc'[v] \notin {"writing", "idle"},
             \A v \in Sessions : wpc[v] \in {"done", "failed"} => wpc'[v] = wpc[v],
             \A v \in Sessions : wpc[v] = "writing" => wpc'[v] \in {"writing", "done", "failed"}
      PROVE  IInv'
  <2>1. OwnWhileWriting'
    BY <1>4 DEF IInv, OwnWhileWriting
  <2>2. Provenance'
    BY <1>1, <1>4 DEF IInv, Provenance, Exists, TypeOK
  <2>3. ReadFromClosed'
    BY <1>1, <1>2, <1>4 DEF IInv, ReadFromClosed, readers, TypeOK, Contents
  <2>4. ConsumedIsGone'
    BY <1>2, <1>4 DEF IInv, ConsumedIsGone, readers
  <2> QED
    BY <1>1, <1>3, <2>1, <2>2, <2>3, <2>4 DEF IInv
<1>5. CASE ListStale(w)
  BY <1>1, <1>4, <1>5 DEF ListStale, Goto, disk, TypeOK
<1>6. CASE Swept(w)
  BY <1>1, <1>4, <1>6 DEF Swept, Goto, disk, TypeOK
<1>7. CASE NoSweep(w)
  BY <1>1, <1>4, <1>7 DEF NoSweep, Goto, disk, TypeOK
<1>8. CASE CreateFails(w)
  BY <1>1, <1>4, <1>8 DEF CreateFails, Goto, disk, TypeOK
<1>9. CASE CloseFile(w)
  BY <1>1, <1>4, <1>9 DEF CloseFile, Goto, disk, TypeOK
<1>10. CASE SessionCrash(w)
  BY <1>1, <1>4, <1>10 DEF SessionCrash, Goto, disk, TypeOK
<1>11. CASE SweepOne(w)
  <2>1. PICK p \in todo[w] : Remove(p) \/ UNCHANGED file
    BY <1>11 DEF SweepOne
  <2>2. p \in Paths /\ UNCHANGED wpc
    BY <1>1, <1>11 DEF SweepOne, TypeOK
  <2>3. CASE UNCHANGED file
    BY <1>4, <2>2, <2>3
  <2>4. CASE Remove(p)
    <3>1. ReadFromClosed'
      BY <1>2, <2>2 DEF IInv, ReadFromClosed, readers
    <3>2. ConsumedIsGone'
      BY <1>2, <2>2, <2>4, RemovePreserves DEF IInv, ConsumedIsGone, ReadFromClosed, readers
    <3> QED
      BY <1>1, <1>3, <2>2, <2>4, <3>1, <3>2, RemovePreserves DEF IInv
  <2> QED
    BY <2>1, <2>3, <2>4
<1>12. CASE Create(w)
  <2> DEFINE q == PathOf[w]
  <2>1. /\ q \in Paths /\ ~Exists(q)
        /\ wpc[w] = "creating" /\ wpc' = [wpc EXCEPT ![w] = "writing"]
        /\ \A p \in Paths : file'[p] = IF p = q THEN [by |-> w, len |-> "part", time |-> clock]
                                               ELSE file[p]
    BY <1>1, <1>12 DEF Create, Goto, TypeOK
  <2>2. OwnWhileWriting'
    BY <1>1, <2>1 DEF IInv, OwnWhileWriting, Exists, TypeOK
  <2>3. Provenance'
    BY <1>1, <2>1 DEF IInv, Provenance, Exists, TypeOK
  <2>4. ReadFromClosed'
    BY <1>1, <1>2, <2>1 DEF IInv, ReadFromClosed, readers, TypeOK, Contents
  <2>5. ConsumedIsGone'
    BY <1>2, <2>1 DEF IInv, ConsumedIsGone, ReadFromClosed, readers
  <2> QED
    BY <1>1, <1>3, <2>2, <2>3, <2>4, <2>5 DEF IInv
<1>13. CASE Write(w)
  <2>1. /\ UNCHANGED wpc
        /\ \A p \in Paths : file'[p].by = file[p].by
    BY <1>1, <1>13 DEF Write, writers, TypeOK
  <2>2. OwnWhileWriting'
    BY <2>1 DEF IInv, OwnWhileWriting
  <2>3. Provenance'
    BY <2>1 DEF IInv, Provenance, Exists
  <2>4. ReadFromClosed' /\ ConsumedIsGone'
    BY <1>2, <2>1 DEF IInv, ReadFromClosed, ConsumedIsGone, readers
  <2> QED
    BY <1>1, <1>3, <2>2, <2>3, <2>4 DEF IInv
<1> QED
  BY <1>5, <1>6, <1>7, <1>8, <1>9, <1>10, <1>11, <1>12, <1>13 DEF SessionStep

\* A receiver's step: it reads only what nobody has open, and when it returns
\* the file is gone or the deletion failed.
LEMMA ReaderPreserves ==
  ASSUME IInv, NEW r \in Readers, ReaderStep(r)
  PROVE  IInv'
<1> USE ConstantsHold DEF Constants
<1>1. TypeOK /\ TypeOK'
  BY ReaderTyped DEF IInv
<1>2. UNCHANGED writers
  BY DEF ReaderStep, Resolve, ResolveFails, Read, ReadFails, Delete, DeleteGone,
         DeleteFails, Return, ReaderCrash
<1>3. ASSUME UNCHANGED disk
      PROVE  OwnWhileWriting' /\ Provenance'
  BY <1>2, <1>3 DEF IInv, OwnWhileWriting, Provenance, Exists, disk, writers
<1>4. CASE Resolve(r)
  <2>1. ReadFromClosed' /\ ReturnedWhole' /\ ConsumedIsGone'
    BY <1>1, <1>2, <1>4
    DEF Resolve, IInv, ReadFromClosed, ReturnedWhole, ConsumedIsGone, disk, writers, TypeOK
  <2> QED
    BY <1>1, <1>3, <1>4, <2>1 DEF IInv, Resolve
<1>5. CASE ResolveFails(r)
  <2>1. ReadFromClosed' /\ ReturnedWhole' /\ ConsumedIsGone'
    BY <1>1, <1>2, <1>5
    DEF ResolveFails, IInv, ReadFromClosed, ReturnedWhole, ConsumedIsGone, disk, writers, TypeOK
  <2> QED
    BY <1>1, <1>3, <1>5, <2>1 DEF IInv, ResolveFails
<1>6. CASE Read(r)
  <2> DEFINE q == target[r]
  <2>1. /\ q \in Paths /\ Exists(q) /\ ~Locked(q) /\ rpc[r] = "reading"
        /\ UNCHANGED <<disk, target, kept, result>>
        /\ rpc' = [rpc EXCEPT ![r] = "deleting"]
        /\ bytes' = [bytes EXCEPT ![r] = [by |-> file[q].by, len |-> file[q].len]]
    BY <1>1, <1>6 DEF Read, TypeOK
  <2>2. file[q].by \in Sessions /\ wpc[file[q].by] \in {"done", "failed"}
    BY <1>1, <2>1 DEF IInv, Provenance, Exists, Locked, TypeOK
  <2>3. ReadFromClosed'
    BY <1>1, <1>2, <2>1, <2>2 DEF IInv, ReadFromClosed, writers, TypeOK
  <2>4. ReturnedWhole' /\ ConsumedIsGone'
    BY <1>1, <2>1 DEF IInv, ReturnedWhole, ConsumedIsGone, disk, TypeOK
  <2> QED
    BY <1>1, <1>3, <2>1, <2>3, <2>4 DEF IInv
<1>7. CASE ReadFails(r)
  <2>1. ReadFromClosed' /\ ReturnedWhole' /\ ConsumedIsGone'
    BY <1>1, <1>2, <1>7
    DEF ReadFails, IInv, ReadFromClosed, ReturnedWhole, ConsumedIsGone, disk, writers, TypeOK
  <2> QED
    BY <1>1, <1>3, <1>7, <2>1 DEF IInv, ReadFails
<1>8. ASSUME Return(r)
      PROVE  ReadFromClosed' /\ ReturnedWhole'
  <2>1. bytes[r] = [by |-> bytes[r].by, len |-> bytes[r].len]
    BY <1>1 DEF TypeOK, Contents
  <2>2. ReadFromClosed'
    BY <1>1, <1>2, <1>8 DEF Return, IInv, ReadFromClosed, writers, TypeOK
  <2>3. ReturnedWhole'
    BY <1>1, <1>8, <2>1 DEF Return, Verdict, IInv, ReturnedWhole, TypeOK
  <2> QED
    BY <2>2, <2>3
<1>9. CASE Delete(r)
  <2>1. target[r] \in Paths /\ Remove(target[r]) /\ UNCHANGED wpc /\ Return(r)
    BY <1>1, <1>9 DEF Delete, Return, TypeOK, writers
  <2>2. ConsumedIsGone'
    BY <1>1, <1>9, <2>1, RemovePreserves
    DEF Delete, Return, IInv, ConsumedIsGone, ReadFromClosed, TypeOK
  <2> QED
    BY <1>1, <1>8, <2>1, <2>2, RemovePreserves DEF IInv
<1>10. CASE DeleteGone(r)
  <2>1. UNCHANGED disk /\ Return(r)
    BY <1>10 DEF DeleteGone, Return, disk
  <2>2. ConsumedIsGone'
    BY <1>1, <1>10 DEF DeleteGone, Return, Exists, IInv, ConsumedIsGone, TypeOK
  <2> QED
    BY <1>1, <1>3, <1>8, <2>1, <2>2 DEF IInv
<1>11. CASE DeleteFails(r)
  <2>1. UNCHANGED disk /\ Return(r)
    BY <1>11 DEF DeleteFails, Return, disk
  <2>2. ConsumedIsGone'
    BY <1>1, <1>11 DEF DeleteFails, Return, IInv, ConsumedIsGone, TypeOK
  <2> QED
    BY <1>1, <1>3, <1>8, <2>1, <2>2 DEF IInv
<1>12. CASE ReaderCrash(r)
  <2>1. ReadFromClosed' /\ ReturnedWhole' /\ ConsumedIsGone'
    BY <1>1, <1>2, <1>12
    DEF ReaderCrash, Nothing, IInv, ReadFromClosed, ReturnedWhole, ConsumedIsGone, disk,
        writers, TypeOK
  <2> QED
    BY <1>1, <1>3, <1>12, <2>1 DEF IInv, ReaderCrash
<1> QED
  BY <1>4, <1>5, <1>6, <1>7, <1>9, <1>10, <1>11, <1>12 DEF ReaderStep

LEMMA InvStep == IInv /\ [Next]_vars => IInv'
<1> SUFFICES ASSUME IInv, [Next]_vars PROVE IInv'
  OBVIOUS
<1>1. CASE Tick
  BY <1>1, TypedStep
  DEF Tick, writers, readers, IInv, OwnWhileWriting, Provenance, Exists, ReadFromClosed,
      ReturnedWhole, ConsumedIsGone
<1>2. CASE UNCHANGED vars
  BY <1>2, TypedStep
  DEF vars, IInv, OwnWhileWriting, Provenance, Exists, ReadFromClosed, ReturnedWhole,
      ConsumedIsGone
<1> QED
  BY <1>1, <1>2, SessionPreserves, ReaderPreserves DEF Next

\* A session writes only while it has the file open, and creates only where
\* there is none.
LEMMA RewritesNothing ==
  ASSUME IInv, [Next]_vars, NEW p \in Paths, Exists(p), ~Locked(p), Exists(p)'
  PROVE  file'[p] = file[p]
<1> USE ConstantsHold DEF Constants
<1>1. TypeOK
  BY DEF IInv
<1>2. ASSUME NEW q \in Paths, Remove(q)
      PROVE  file'[p] = file[p]
  BY <1>1, <1>2 DEF Remove, NoFile, Exists, TypeOK
<1>3. CASE Tick \/ UNCHANGED vars
  BY <1>3 DEF Tick, vars
<1>4. ASSUME NEW w \in Sessions, SessionStep(w)
      PROVE  file'[p] = file[p]
  <2>1. CASE SweepOne(w)
    BY <1>1, <1>2, <2>1 DEF SweepOne, TypeOK
  <2>2. CASE Create(w)
    BY <1>1, <2>2 DEF Create, Exists, TypeOK
  <2>3. CASE Write(w)
    BY <1>1, <2>3 DEF Write, Locked, TypeOK
  <2>4. CASE ListStale(w) \/ Swept(w) \/ NoSweep(w) \/ CreateFails(w) \/ CloseFile(w)
             \/ SessionCrash(w)
    BY <2>4 DEF ListStale, Swept, NoSweep, CreateFails, CloseFile, SessionCrash, disk
  <2> QED
    BY <1>4, <2>1, <2>2, <2>3, <2>4 DEF SessionStep
<1>5. ASSUME NEW r \in Readers, ReaderStep(r)
      PROVE  file'[p] = file[p]
  <2>1. CASE Delete(r)
    BY <1>1, <1>2, <2>1 DEF Delete, Return, TypeOK
  <2>2. CASE ~Delete(r)
    BY <1>5, <2>2 DEF ReaderStep, Resolve, ResolveFails, Read, ReadFails, DeleteGone,
                      DeleteFails, ReaderCrash, disk
  <2> QED
    BY <2>1, <2>2
<1> QED
  BY <1>3, <1>4, <1>5 DEF Next

-----------------------------------------------------------------------------
(* The theorems.                                                           *)

LEMMA Invariance == Spec => []IInv
BY InitIInv, InvStep, PTL DEF Spec

\* Every value the module keeps has its type; a receiver that reads or deletes
\* has found a path.
THEOREM TypeCorrect == Spec => []TypeOK
<1>1. IInv => TypeOK
  BY DEF IInv
<1> QED
  BY <1>1, Invariance, PTL

\* No sweep, receiver or other session deletes or replaces a file while its
\* session writes it.
THEOREM OwnWhileWritingHolds == Spec => []OwnWhileWriting
<1>1. IInv => OwnWhileWriting
  BY DEF IInv
<1> QED
  BY <1>1, Invariance, PTL

\* A receiver returns whole nonces only, of sessions that let go of the file.
THEOREM NoTornNonceHolds == Spec => []NoTornNonce
<1>1. IInv => NoTornNonce
  BY ConstantsHold DEF IInv, NoTornNonce, ReadFromClosed, ReturnedWhole, Constants
<1> QED
  BY <1>1, Invariance, PTL

\* What a receiver read is gone when it returns, unless the deletion failed.
THEOREM ConsumedIsGoneHolds == Spec => []ConsumedIsGone
<1>1. IInv => ConsumedIsGone
  BY DEF IInv
<1> QED
  BY <1>1, Invariance, PTL

\* A written nonce is never rewritten: its path holds it until it is deleted.
THEOREM NeverRewrittenHolds == Spec => NeverRewritten
<1>1. IInv /\ [Next]_vars =>
        [\A p \in Paths : Exists(p) /\ ~Locked(p) /\ Exists(p)' => file'[p] = file[p]]_vars
  BY RewritesNothing
<1> QED
  BY <1>1, Invariance, PTL DEF Spec, NeverRewritten
=============================================================================
