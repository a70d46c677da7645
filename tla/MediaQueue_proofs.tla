-------------------------- MODULE MediaQueue_proofs --------------------------
(***************************************************************************)
(* Proofs about MediaOperations and MediaQueue, for every set of tabs,     *)
(* sessions, operations, patches, files, timelines and clock readings and  *)
(* for every bound.  The queue's rest on those of the operations: each     *)
(* step of the composition is one of the shapes their inductive invariant  *)
(* is kept by.                                                             *)
(***************************************************************************)
EXTENDS MediaQueue, SumTheorems, SequenceTheorems, TLAPS

-----------------------------------------------------------------------------
(* The operations, and the ledger that they implement.                     *)


\* The content recorded for a file is a digest or None.
LEMMA IdentityOfType ==
    ASSUME NEW fs \in Seq(File), NEW id
    PROVE  IdentityOf(fs, id) \in Identities \cup {None}
<1>1. CASE id = None \/ IndexOf(fs, id) = {}
    BY <1>1 DEF IdentityOf
<1>2. CASE ~(id = None \/ IndexOf(fs, id) = {})
    <2>1. PICK i \in IndexOf(fs, id) : i = CHOOSE j \in IndexOf(fs, id) : TRUE
        BY <1>2
    <2>2. i \in 1..Len(fs)
        BY DEF IndexOf
    <2>3. fs[i] \in File
        BY <2>2
    <2> QED
        BY <1>2, <2>1, <2>3 DEF IdentityOf, File
<1> QED
    BY <1>1, <1>2

LEMMA InitType == Init => TypeOK
<1> SUFFICES ASSUME Init PROVE TypeOK
    OBVIOUS
<1>1. row \in Row
    BY DEF Init, Row, NoRow
<1>2. DOMAIN receipts = {} /\ receipts \in [DOMAIN receipts -> Receipt]
    BY DEF Init
<1>3. generation \in Nat /\ files \in Seq(File)
    BY OperationAssumption DEF Init
<1> QED
    BY <1>1, <1>2, <1>3 DEF TypeOK

\* What an accepted operation writes is a row and a receipt.
LEMMA CommitType ==
    ASSUME TypeOK, NEW o \in Envelope, Commit(o)
    PROVE  /\ row' \in Row
           /\ DOMAIN receipts' = DOMAIN receipts \cup {o.id}
           /\ receipts' \in [DOMAIN receipts' -> Receipt]
<1>1. IdentityOf(files, o.file) \in Identities \cup {None}
    BY IdentityOfType DEF TypeOK
<1>2. Lineage(o) \in Nat
    BY DEF Lineage, TypeOK, Row
<1>3. Written(o) \in Row
    BY <1>1, <1>2 DEF Written, TypeOK, Row, Envelope
<1>4. NewReceipt(o) \in Receipt
    BY <1>2 DEF NewReceipt, Receipt, TypeOK, Row
<1> QED
    BY <1>3, <1>4 DEF Commit, TypeOK

\* The row a compatibility face leaves behind.
LEMMA SetProgressRow ==
    ASSUME row \in Row, NEW file, NEW offset, NEW position, NEW finished,
           SetProgress(file, offset, position, finished)
    PROVE  row' = [revision |-> row.revision + 1, reset |-> row.reset,
                   deleted |-> FALSE, position |-> position,
                   offset |-> offset, file |-> file, finished |-> finished,
                   savedGeneration |-> None, savedIdentity |-> None,
                   operation |-> None]
    BY Zenon DEF SetProgress, Row

\* The tombstone a deletion leaves behind.
LEMMA DeleteProgressRow ==
    ASSUME DeleteProgress
    PROVE  row' = [revision |-> row.revision + 1, reset |-> row.reset + 1,
                   deleted |-> TRUE, position |-> 0, offset |-> 0,
                   file |-> None, finished |-> FALSE,
                   savedGeneration |-> None, savedIdentity |-> None,
                   operation |-> None]
    BY DEF DeleteProgress, NoRow

LEMMA ApplyType ==
    ASSUME TypeOK, NEW o \in Envelope, ApplyMediaOperation(o)
    PROVE  TypeOK'
<1>1. CASE Outcome(o) = "accept"
    <2>1. Commit(o) /\ UNCHANGED <<generation, files>>
        BY <1>1 DEF ApplyMediaOperation
    <2>2. o.id \in OperationIds
        BY DEF Envelope
    <2> QED
        BY <2>1, <2>2, CommitType DEF TypeOK
<1>2. CASE Outcome(o) # "accept"
    BY <1>2 DEF ApplyMediaOperation, TypeOK
<1> QED
    BY <1>1, <1>2

LEMMA CompatibilityType == TypeOK /\ CompatibilityWrite => TypeOK'
<1> SUFFICES ASSUME TypeOK, CompatibilityWrite PROVE TypeOK'
    OBVIOUS
<1>1. ASSUME NEW file \in FileIds \cup {None}, NEW offset \in Positions,
             NEW position \in Positions, NEW finished \in BOOLEAN,
             SetProgress(file, offset, position, finished)
      PROVE TypeOK'
    <2>1. offset \in Nat /\ position \in Nat
        BY OperationAssumption
    <2>2. row \in Row
        BY DEF TypeOK
    <2>3. row' = [revision |-> row.revision + 1, reset |-> row.reset,
                  deleted |-> FALSE, position |-> position,
                  offset |-> offset, file |-> file, finished |-> finished,
                  savedGeneration |-> None, savedIdentity |-> None,
                  operation |-> None]
        BY <1>1, <2>2, SetProgressRow
    <2>4. row.revision + 1 \in Nat /\ row.reset \in Nat
        BY <2>2 DEF Row
    <2>5. row' \in Row
        BY <2>1, <2>3, <2>4 DEF Row
    <2> QED
        BY <1>1, <2>5 DEF SetProgress, TypeOK
<1>2. ASSUME DeleteProgress PROVE TypeOK'
    <2>1. row.revision + 1 \in Nat /\ row.reset + 1 \in Nat
        BY DEF TypeOK, Row
    <2>2. row' \in Row
        BY <1>2, <2>1 DEF DeleteProgress, Row, NoRow
    <2> QED
        BY <1>2, <2>2 DEF DeleteProgress, TypeOK
<1> QED
    BY <1>1, <1>2 DEF CompatibilityWrite

LEMMA RescanType ==
    ASSUME TypeOK, NEW fs \in FileLists, Rescan(fs)
    PROVE  TypeOK'
    BY OperationAssumption DEF Rescan, TypeOK

LEMMA NextType == TypeOK /\ [Next]_serverVars => TypeOK'
<1> SUFFICES ASSUME TypeOK, [Next]_serverVars PROVE TypeOK'
    OBVIOUS
<1>1. ASSUME NEW o \in Requests, ApplyMediaOperation(o) PROVE TypeOK'
    BY <1>1, ApplyType, OperationAssumption
<1>2. CASE UNCHANGED serverVars
    BY <1>2 DEF serverVars, TypeOK
<1> QED
    BY <1>1, <1>2, CompatibilityType, RescanType DEF Next

\* The server keeps a well-formed row, receipts and timeline.
THEOREM TypeCorrect == Spec => []TypeOK
<1> QED
    BY InitType, NextType, PTL DEF Spec

-----------------------------------------------------------------------------
(* The three shapes of a step.                                             *)

\* What the transaction checked when it answers "accept".
Accepted(o) ==
    /\ o \in Envelope
    /\ o.id \notin DOMAIN receipts
    /\ o.generation = generation
    /\ o.reset = row.reset
    /\ PredecessorAccepted(o)
    /\ Base(o) = row.revision
    /\ ~Regresses(o)

Operates(o) == Accepted(o) /\ Commit(o) /\ UNCHANGED <<generation, files>>

\* A write without an operation.
Overwrites ==
    /\ receipts' = receipts
    /\ row'.revision = row.revision + 1
    /\ row'.reset \in {row.reset, row.reset + 1}
    /\ row'.operation = None
    /\ row'.savedIdentity = None

LEMMA ApplyShapes ==
    ASSUME NEW o \in Envelope, ApplyMediaOperation(o)
    PROVE  /\ Operates(o) \/ UNCHANGED <<row, receipts>>
           /\ UNCHANGED <<generation, files>>
<1>1. CASE Outcome(o) = "accept"
    <2>1. o.id \notin DOMAIN receipts /\ Current(o)
        BY <1>1 DEF Outcome
    <2> QED
        BY <1>1, <2>1
        DEF ApplyMediaOperation, Operates, Accepted, Current
<1>2. CASE Outcome(o) # "accept"
    BY <1>2 DEF ApplyMediaOperation
<1> QED
    BY <1>1, <1>2

LEMMA CompatibilityShapes ==
    ASSUME TypeOK, CompatibilityWrite
    PROVE  Overwrites /\ UNCHANGED <<generation, files>>
<1>1. ASSUME NEW file \in FileIds \cup {None}, NEW offset \in Positions,
             NEW position \in Positions, NEW finished \in BOOLEAN,
             SetProgress(file, offset, position, finished)
      PROVE Overwrites /\ UNCHANGED <<generation, files>>
    <2>1. row \in Row
        BY DEF TypeOK
    <2>2. receipts' = receipts /\ UNCHANGED <<generation, files>>
        BY <1>1 DEF SetProgress
    <2> QED
        BY <1>1, <2>1, <2>2, SetProgressRow DEF Overwrites
<1>2. ASSUME DeleteProgress
      PROVE Overwrites /\ UNCHANGED <<generation, files>>
    BY <1>2, DeleteProgressRow DEF DeleteProgress, Overwrites
<1> QED
    BY <1>1, <1>2 DEF CompatibilityWrite

LEMMA StepShapes ==
    ASSUME TypeOK, [Next]_serverVars
    PROVE  \/ \E o \in Envelope : Operates(o)
           \/ Overwrites
           \/ UNCHANGED <<row, receipts>>
<1>1. ASSUME NEW o \in Requests, ApplyMediaOperation(o)
      PROVE  (\E x \in Envelope : Operates(x)) \/ UNCHANGED <<row, receipts>>
    BY <1>1, ApplyShapes, OperationAssumption
<1>2. ASSUME NEW fs \in FileLists, Rescan(fs) PROVE UNCHANGED <<row, receipts>>
    BY <1>2 DEF Rescan
<1>3. CASE UNCHANGED serverVars
    BY <1>3 DEF serverVars
<1> QED
    BY <1>1, <1>2, <1>3, CompatibilityShapes DEF Next

-----------------------------------------------------------------------------
(* The inductive invariant.                                                *)

\* Content is only recorded in a row that names the operation it is from.
ProvenanceCleared == row.operation = None => row.savedIdentity = None

\* A receipt is kept under the id of its operation.
ReceiptsAreNamed == \A id \in DOMAIN receipts : receipts[id].envelope.id = id

\* While a receipt's revision is the row's, the row names its operation.
LastWriteIsNamed ==
    \A id \in DOMAIN receipts :
        receipts[id].revision = row.revision => row.operation = id

\* A session begins with an operation that chains to none.
SessionsHaveRoots ==
    \A id \in DOMAIN receipts : \E a \in DOMAIN receipts :
        /\ receipts[a].envelope.session = receipts[id].envelope.session
        /\ receipts[a].envelope.predecessor = None

Inductive ==
    /\ TypeOK
    /\ OneWritePerReceipt
    /\ AppliedOnItsBase
    /\ ResetFences
    /\ ProvenanceIsOfTheRow
    /\ ProvenanceCleared
    /\ ReceiptsAreNamed
    /\ LastWriteIsNamed
    /\ SessionsHaveRoots

LEMMA InitInductive == Init => Inductive
<1> SUFFICES ASSUME Init PROVE Inductive
    OBVIOUS
<1>1. TypeOK
    BY InitType
<1>2. DOMAIN receipts = {}
    BY DEF Init
<1>3. row.operation = None /\ row.savedIdentity = None
    BY DEF Init, NoRow
<1> QED
    BY <1>1, <1>2, <1>3
    DEF Inductive, OneWritePerReceipt, AppliedOnItsBase, ResetFences,
        ProvenanceIsOfTheRow, ProvenanceCleared, ReceiptsAreNamed,
        LastWriteIsNamed, SessionsHaveRoots

\* What an accepted operation leaves behind, in the terms of the invariant.
LEMMA OperatesEffect ==
    ASSUME TypeOK, NEW o \in Envelope, Operates(o)
    PROVE  /\ DOMAIN receipts' = DOMAIN receipts \cup {o.id}
           /\ \A id \in DOMAIN receipts : receipts'[id] = receipts[id]
           /\ receipts'[o.id] = NewReceipt(o)
           /\ row' = Written(o)
           /\ row.revision \in Nat /\ row.reset \in Nat
           /\ Lineage(o) \in Nat /\ Lineage(o) >= row.reset
<1>1. row.revision \in Nat /\ row.reset \in Nat
    BY DEF TypeOK, Row
<1>2. Lineage(o) \in Nat /\ Lineage(o) >= row.reset
    BY <1>1 DEF Lineage
<1>3. o.id \notin DOMAIN receipts
    BY DEF Operates, Accepted
<1> QED
    BY <1>1, <1>2, <1>3 DEF Operates, Commit

LEMMA OperatesKeeps ==
    ASSUME Inductive, TypeOK', NEW o \in Envelope, Operates(o)
    PROVE  Inductive'
<1>1. o \in Envelope /\ TypeOK
    BY DEF Inductive
<1>2. /\ DOMAIN receipts' = DOMAIN receipts \cup {o.id}
      /\ \A id \in DOMAIN receipts : receipts'[id] = receipts[id]
      /\ receipts'[o.id] = NewReceipt(o)
      /\ row' = Written(o)
      /\ row.revision \in Nat /\ row.reset \in Nat
      /\ Lineage(o) \in Nat /\ Lineage(o) >= row.reset
    BY <1>1, OperatesEffect
<1>3. /\ row'.revision = row.revision + 1
      /\ row'.reset = Lineage(o)
      /\ row'.operation = o.id
    BY <1>2 DEF Written
<1>4. /\ receipts'[o.id].revision = row.revision + 1
      /\ receipts'[o.id].reset = Lineage(o)
      /\ receipts'[o.id].envelope = o
    BY <1>2 DEF NewReceipt
<1>5. \A id \in DOMAIN receipts : /\ receipts[id].revision \in 1..row.revision
                                 /\ receipts[id].revision \in Nat
                                 /\ receipts[id].reset \in Nat
                                 /\ receipts[id].reset <= row.reset
    BY DEF Inductive, OneWritePerReceipt, ResetFences, TypeOK, Receipt
<1>6. OneWritePerReceipt'
    BY <1>2, <1>3, <1>4, <1>5 DEF Inductive, OneWritePerReceipt
<1>7. AppliedOnItsBase'
    <2>1. ASSUME NEW id \in DOMAIN receipts
          PROVE  LET r == receipts'[id]
                 IN  IF r.envelope.predecessor = None
                     THEN r.revision = r.envelope.base + 1
                     ELSE /\ r.envelope.predecessor \in DOMAIN receipts'
                          /\ ChainsTo(r.envelope,
                                receipts'[r.envelope.predecessor].envelope)
                          /\ r.revision =
                                receipts'[r.envelope.predecessor].revision + 1
        BY <1>2, <2>1 DEF Inductive, AppliedOnItsBase
    <2>2. PredecessorAccepted(o) /\ Base(o) = row.revision
        BY DEF Operates, Accepted
    <2>3. CASE o.predecessor = None
        BY <1>2, <1>4, <2>1, <2>2, <2>3 DEF AppliedOnItsBase, Base
    <2>4. CASE o.predecessor # None
        <3>1. /\ o.predecessor \in DOMAIN receipts
              /\ ChainsTo(o, receipts[o.predecessor].envelope)
              /\ receipts[o.predecessor].revision = row.revision
            BY <2>2, <2>4 DEF PredecessorAccepted, Base
        <3> QED
            BY <1>2, <1>4, <2>1, <2>4, <3>1 DEF AppliedOnItsBase
    <2> QED
        BY <2>3, <2>4
<1>8. ResetFences'
    <2>1. o.reset = row.reset
        BY DEF Operates, Accepted
    <2>2. ASSUME NEW a \in DOMAIN receipts', NEW b \in DOMAIN receipts',
                 receipts'[a].revision < receipts'[b].revision
          PROVE  receipts'[a].reset <= receipts'[b].envelope.reset
        <3>1. CASE b = o.id
            <4>1. a \in DOMAIN receipts
                BY <1>2, <1>4, <2>2, <3>1
            <4> QED
                BY <1>2, <1>4, <1>5, <2>1, <3>1, <4>1
        <3>2. CASE b # o.id
            <4>1. b \in DOMAIN receipts
                BY <1>2, <3>2
            <4>2. a \in DOMAIN receipts
                BY <1>2, <1>4, <1>5, <2>2, <4>1
            <4> QED
                BY <1>2, <2>2, <4>1, <4>2 DEF Inductive, ResetFences
        <3> QED
            BY <3>1, <3>2
    <2>3. \A id \in DOMAIN receipts' : receipts'[id].reset <= row'.reset
        BY <1>2, <1>3, <1>4, <1>5
    <2> QED
        BY <2>2, <2>3 DEF ResetFences
<1>9. ProvenanceIsOfTheRow'
    BY <1>2, <1>3, <1>4 DEF ProvenanceIsOfTheRow, Written
<1>10. ProvenanceCleared'
    <2>1. o.id # None
        BY <1>1, OperationAssumption DEF Envelope
    <2> QED
        BY <1>3, <2>1 DEF ProvenanceCleared
<1>11. ReceiptsAreNamed' /\ LastWriteIsNamed'
    BY <1>2, <1>3, <1>4, <1>5
    DEF Inductive, ReceiptsAreNamed, LastWriteIsNamed
<1>12. SessionsHaveRoots'
    <2>1. ASSUME NEW id \in DOMAIN receipts
          PROVE  \E a \in DOMAIN receipts' :
                    /\ receipts'[a].envelope.session = receipts'[id].envelope.session
                    /\ receipts'[a].envelope.predecessor = None
        BY <1>2, <2>1 DEF Inductive, SessionsHaveRoots
    <2>2. CASE o.predecessor = None
        BY <1>2, <1>4, <2>1, <2>2 DEF SessionsHaveRoots
    <2>3. CASE o.predecessor # None
        <3>1. /\ o.predecessor \in DOMAIN receipts
              /\ receipts[o.predecessor].envelope.session = o.session
            BY <2>3 DEF Operates, Accepted, PredecessorAccepted, ChainsTo
        <3> QED
            BY <1>2, <1>4, <2>1, <3>1 DEF SessionsHaveRoots
    <2> QED
        BY <2>2, <2>3
<1> QED
    BY <1>6, <1>7, <1>8, <1>9, <1>10, <1>11, <1>12 DEF Inductive

LEMMA OverwritesKeeps ==
    ASSUME Inductive, TypeOK', Overwrites
    PROVE  Inductive'
<1>1. row.revision \in Nat /\ row.reset \in Nat
    BY DEF Inductive, TypeOK, Row
<1>2. \A id \in DOMAIN receipts : /\ receipts[id].revision \in Nat
                                 /\ receipts[id].reset \in Nat
    BY DEF Inductive, TypeOK, Receipt
<1>3. OneWritePerReceipt'
    BY <1>1, <1>2 DEF Overwrites, Inductive, OneWritePerReceipt
<1>4. AppliedOnItsBase'
    BY DEF Overwrites, Inductive, AppliedOnItsBase
<1>5. ResetFences'
    BY <1>1, <1>2 DEF Overwrites, Inductive, ResetFences
<1>6. ProvenanceIsOfTheRow' /\ ProvenanceCleared'
    BY DEF Overwrites, ProvenanceIsOfTheRow, ProvenanceCleared
<1>7. ReceiptsAreNamed' /\ SessionsHaveRoots'
    BY DEF Overwrites, Inductive, ReceiptsAreNamed, SessionsHaveRoots
<1>8. LastWriteIsNamed'
    BY <1>1, <1>2 DEF Overwrites, Inductive, LastWriteIsNamed, OneWritePerReceipt
<1> QED
    BY <1>3, <1>4, <1>5, <1>6, <1>7, <1>8 DEF Inductive

LEMMA InductiveKept ==
    ASSUME Inductive, TypeOK',
           \/ \E o \in Envelope : Operates(o)
           \/ Overwrites
           \/ UNCHANGED <<row, receipts>>
    PROVE  Inductive'
<1>1. CASE \E o \in Envelope : Operates(o)
    BY <1>1, OperatesKeeps
<1>2. CASE Overwrites
    BY <1>2, OverwritesKeeps
<1>3. CASE UNCHANGED <<row, receipts>>
    BY <1>3
    DEF Inductive, OneWritePerReceipt, AppliedOnItsBase, ResetFences,
        ProvenanceIsOfTheRow, ProvenanceCleared, ReceiptsAreNamed,
        LastWriteIsNamed, SessionsHaveRoots
<1> QED
    BY <1>1, <1>2, <1>3

LEMMA NextInductive == Inductive /\ [Next]_serverVars => Inductive'
<1> SUFFICES ASSUME Inductive, [Next]_serverVars PROVE Inductive'
    OBVIOUS
<1>1. TypeOK /\ TypeOK'
    BY NextType DEF Inductive
<1> QED
    BY <1>1, StepShapes, InductiveKept

LEMMA InductiveHolds == Spec => []Inductive
<1> QED
    BY InitInductive, NextInductive, PTL DEF Spec

-----------------------------------------------------------------------------
(* The safety properties.                                                  *)

\* ApplyMediaOperation's compare-and-set: an accepted operation took effect
\* directly on the write its author or its predecessor saw.
THEOREM NoLostWrites == Spec => []AppliedOnItsBase
<1>1. Inductive => AppliedOnItsBase
    BY DEF Inductive
<1> QED
    BY <1>1, InductiveHolds, PTL

\* Every accepted operation has a revision of its own.
THEOREM RevisionsAreUnique == Spec => []OneWritePerReceipt
<1>1. Inductive => OneWritePerReceipt
    BY DEF Inductive
<1> QED
    BY <1>1, InductiveHolds, PTL

\* What was queued before a reset is never accepted after it.
THEOREM ResetsFence == Spec => []ResetFences
<1>1. Inductive => ResetFences
    BY DEF Inductive
<1> QED
    BY <1>1, InductiveHolds, PTL

\* The trigger of migration 0023 and the two updates of ApplyMediaOperation
\* keep the provenance columns about the row's last write.
THEOREM ProvenanceHolds == Spec => []ProvenanceIsOfTheRow
<1>1. Inductive => ProvenanceIsOfTheRow
    BY DEF Inductive
<1> QED
    BY <1>1, InductiveHolds, PTL

LEMMA ProvenResume == Inductive => ResumeFollowsProvenContent
<1> SUFFICES ASSUME Inductive, Unfinished, ResumePosition > 0
             PROVE  /\ row.operation # None
                    /\ receipts[row.operation].revision = row.revision
                    /\ row.savedIdentity # None
                    /\ IdentityOf(files, receipts[row.operation].envelope.file)
                           = row.savedIdentity
    BY DEF ResumeFollowsProvenContent
<1>1. row.position \in Nat /\ row.offset \in Nat
    BY DEF Inductive, TypeOK, Row
<1>2. ~ResumeConflict
    BY DEF ResumePosition
<1>3. row.file # None /\ Proven
    <2>1. CASE row.position = 0
        BY <1>2, <2>1 DEF ResumePosition
    <2>2. CASE row.position # 0
        BY <1>1, <1>2, <2>2 DEF ResumeConflict
    <2> QED
        BY <2>1, <2>2
<1>4. row.operation # None
    BY <1>3 DEF Proven, Inductive, ProvenanceCleared
<1>5. /\ receipts[row.operation].revision = row.revision
      /\ receipts[row.operation].envelope.file = row.file
    BY <1>4 DEF Inductive, ProvenanceIsOfTheRow, Unfinished
<1> QED
    BY <1>3, <1>4, <1>5 DEF Proven

\* mediaResume offers a nonzero position in an unfinished title only where
\* the content that the last operation recorded is still in its file.
THEOREM ResumeIsProven == Spec => []ResumeFollowsProvenContent
<1> QED
    BY ProvenResume, InductiveHolds, PTL

(* What a step may do to receipts and row.                                 *)
Grows ==
    /\ \A id \in DOMAIN receipts :
          id \in DOMAIN receipts' /\ receipts'[id] = receipts[id]
    /\ \A id \in DOMAIN receipts' \ DOMAIN receipts :
          /\ receipts'[id].revision = row.revision + 1
          /\ row'.operation = id
    /\ row'.revision = row.revision + 1 \/ UNCHANGED <<row, receipts>>
    /\ row'.reset >= row.reset

LEMMA StepGrows ==
    ASSUME TypeOK,
           \/ \E o \in Envelope : Operates(o)
           \/ Overwrites
           \/ UNCHANGED <<row, receipts>>
    PROVE  Grows
<1>1. row.revision \in Nat /\ row.reset \in Nat
    BY DEF TypeOK, Row
<1>2. ASSUME NEW o \in Envelope, Operates(o) PROVE Grows
    <2>1. /\ DOMAIN receipts' = DOMAIN receipts \cup {o.id}
          /\ \A id \in DOMAIN receipts : receipts'[id] = receipts[id]
          /\ receipts'[o.id] = NewReceipt(o)
          /\ row' = Written(o)
          /\ Lineage(o) >= row.reset
        BY <1>2, OperatesEffect
    <2> QED
        BY <2>1 DEF Grows, NewReceipt, Written
<1>3. CASE Overwrites
    BY <1>1, <1>3 DEF Overwrites, Grows
<1>4. CASE UNCHANGED <<row, receipts>>
    BY <1>1, <1>4 DEF Grows
<1> QED
    BY <1>2, <1>3, <1>4

\* No step loses or changes a receipt, skips or reuses a revision or goes back
\* to an earlier reset lineage.
THEOREM ReceiptsNeverChange == Spec => ReceiptsAreFinal
<1>1. TypeOK /\ [Next]_serverVars => Grows
    BY StepShapes, StepGrows
<1>2. Grows => /\ \A id \in DOMAIN receipts :
                     id \in DOMAIN receipts' /\ receipts'[id] = receipts[id]
               /\ \A id \in DOMAIN receipts' \ DOMAIN receipts :
                     /\ receipts'[id].revision = row.revision + 1
                     /\ row'.operation = id
               /\ row' # row => row'.revision = row.revision + 1
               /\ row'.reset >= row.reset
    BY DEF Grows
<1> QED
    BY <1>1, <1>2, TypeCorrect, PTL DEF Spec, ReceiptsAreFinal

-----------------------------------------------------------------------------
(* The store implements ProgressLedger.                                    *)

LEMMA WriterOfReceipt ==
    ASSUME NEW rs, NEW id \in DOMAIN rs,
           \A a, b \in DOMAIN rs : rs[a].revision = rs[b].revision => a = b
    PROVE  Writer(rs, rs[id].revision) = id
    BY DEF Writer

LEMMA WriterOfNothing ==
    ASSUME NEW rs, NEW n, \A id \in DOMAIN rs : rs[id].revision # n
    PROVE  Writer(rs, n) = None
    BY DEF Writer

LEMMA WriterType ==
    ASSUME NEW rs, NEW n, DOMAIN rs \subseteq OperationIds
    PROVE  Writer(rs, n) \in OperationIds \cup {None}
    BY DEF Writer

LEMMA LogIsSequence ==
    ASSUME Inductive
    PROVE  /\ Log \in Seq(OperationIds \cup {None})
           /\ Len(Log) = row.revision
<1>1. row.revision \in Nat
    BY DEF Inductive, TypeOK, Row
<1>2. \A n \in 1..row.revision : Writer(receipts, n) \in OperationIds \cup {None}
    BY WriterType DEF Inductive, TypeOK
<1> QED
    BY <1>1, <1>2 DEF Log

\* A write of x at the next revision appends x to the history.
LEMMA LogGrows ==
    ASSUME Inductive, NEW x \in OperationIds \cup {None},
           row'.revision = row.revision + 1,
           Writer(receipts', row.revision + 1) = x,
           \A n \in 1..row.revision : Writer(receipts', n) = Writer(receipts, n)
    PROVE  Log' = Append(Log, x)
<1>1. row.revision \in Nat
    BY DEF Inductive, TypeOK, Row
<1>2. Log \in Seq(OperationIds \cup {None}) /\ Len(Log) = row.revision
    BY LogIsSequence
<1>3. Log' = [n \in 1..(row.revision + 1) |-> Writer(receipts', n)]
    BY DEF Log
<1>4. \A n \in 1..(row.revision + 1) :
          Writer(receipts', n) = IF n = row.revision + 1 THEN x ELSE Log[n]
    BY <1>1 DEF Log
<1>5. \A n \in 1..(row.revision + 1) : Writer(receipts', n) \in OperationIds \cup {None}
    <2>1. \A n \in 1..row.revision : Log[n] \in OperationIds \cup {None}
        BY <1>2
    <2> QED
        BY <1>1, <1>4, <2>1
<1>6. Log' \in Seq(OperationIds \cup {None}) /\ Len(Log') = row.revision + 1
    <2> DEFINE n == row.revision + 1
               W == OperationIds \cup {None}
               v(i) == Writer(receipts', i)
    <2>1. n \in Nat /\ Log' = [i \in 1..n |-> v(i)] /\ \A i \in 1..n : v(i) \in W
        BY <1>1, <1>3, <1>5
    <2> HIDE DEF n, W, v
    <2>2. Log' \in [1..n -> W]
        BY <2>1
    <2>3. Log' \in Seq(W) /\ Len(Log') = n
        BY <2>1, <2>2
    <2> QED
        BY <2>3 DEF n, W
<1>7. /\ Append(Log, x) \in Seq(OperationIds \cup {None})
      /\ Len(Append(Log, x)) = row.revision + 1
      /\ \A n \in 1..row.revision : Append(Log, x)[n] = Log[n]
      /\ Append(Log, x)[row.revision + 1] = x
    BY <1>2, AppendProperties
<1>8. \A n \in 1..Len(Log') : Log'[n] = Append(Log, x)[n]
    BY <1>1, <1>3, <1>4, <1>6, <1>7
<1> QED
    BY <1>6, <1>7, <1>8, SeqEqual

LEMMA OperatesAdmits ==
    ASSUME Inductive, NEW o \in Envelope, Operates(o)
    PROVE  Ledger!Admit(o.id)
<1>1. o \in Envelope /\ o.id \in OperationIds /\ TypeOK
    BY DEF Inductive, Envelope
<1>2. /\ DOMAIN receipts' = DOMAIN receipts \cup {o.id}
      /\ \A id \in DOMAIN receipts : receipts'[id] = receipts[id]
      /\ receipts'[o.id] = NewReceipt(o)
      /\ row' = Written(o)
      /\ row.revision \in Nat /\ row.reset \in Nat
    BY <1>1, OperatesEffect
<1>3. o.id \notin DOMAIN receipts /\ o.id # None
    BY <1>1, OperationAssumption DEF Operates, Accepted
<1>4. receipts'[o.id].revision = row.revision + 1
    BY <1>2 DEF NewReceipt
<1>5. \A a \in DOMAIN receipts : receipts[a].revision \in 1..row.revision
    BY DEF Inductive, OneWritePerReceipt
<1>6. \A a, b \in DOMAIN receipts' :
          receipts'[a].revision = receipts'[b].revision => a = b
    BY <1>2, <1>4, <1>5 DEF Inductive, OneWritePerReceipt
<1>7. Writer(receipts', row.revision + 1) = o.id
    BY <1>2, <1>4, <1>6, WriterOfReceipt
<1>8. ASSUME NEW n \in 1..row.revision
      PROVE  Writer(receipts', n) = Writer(receipts, n)
    <2>1. CASE \E id \in DOMAIN receipts : receipts[id].revision = n
        <3>1. PICK id \in DOMAIN receipts : receipts[id].revision = n
            BY <2>1
        <3>2. Writer(receipts, n) = id
            BY <3>1, WriterOfReceipt DEF Inductive, OneWritePerReceipt
        <3>3. id \in DOMAIN receipts' /\ receipts'[id].revision = n
            BY <1>2, <3>1
        <3>4. Writer(receipts', n) = id
            BY <1>6, <3>3, WriterOfReceipt
        <3> QED
            BY <3>2, <3>4
    <2>2. CASE ~\E id \in DOMAIN receipts : receipts[id].revision = n
        <3>1. \A id \in DOMAIN receipts' : receipts'[id].revision # n
            BY <1>2, <1>4, <2>2
        <3>2. Writer(receipts', n) = None /\ Writer(receipts, n) = None
            BY <2>2, <3>1, WriterOfNothing
        <3> QED
            BY <3>2
    <2> QED
        BY <2>1, <2>2
<1>9. row'.revision = row.revision + 1 /\ row'.reset \in {row.reset, row.reset + 1}
    BY <1>2 DEF Written, Lineage
<1>10. Log' = Append(Log, o.id)
    BY <1>1, <1>7, <1>8, <1>9, LogGrows
<1>11. ~Ledger!Occurs(o.id)
    <2>1. \A n \in 1..row.revision : Writer(receipts, n) # o.id
        BY <1>3 DEF Writer
    <2>2. DOMAIN Log = 1..row.revision
        BY DEF Log
    <2> QED
        BY <2>1, <2>2 DEF Ledger!Occurs, Log
<1> QED
    BY <1>1, <1>9, <1>10, <1>11 DEF Ledger!Admit, Ledger!Write

LEMMA OverwritesOverwrite ==
    ASSUME Inductive, Overwrites
    PROVE  Ledger!Overwrite
<1>1. row.revision \in Nat
    BY DEF Inductive, TypeOK, Row
<1>2. \A id \in DOMAIN receipts : receipts[id].revision # row.revision + 1
    BY <1>1 DEF Inductive, OneWritePerReceipt
<1>3. Writer(receipts, row.revision + 1) = None
    BY <1>2, WriterOfNothing
<1>4. Log' = Append(Log, None)
    BY <1>3, LogGrows DEF Overwrites
<1> QED
    BY <1>4 DEF Overwrites, Ledger!Overwrite, Ledger!Write

LEMMA LedgerStep ==
    ASSUME Inductive,
           \/ \E o \in Envelope : Operates(o)
           \/ Overwrites
           \/ UNCHANGED <<row, receipts>>
    PROVE  [Ledger!Next]_<<Log, row.reset>>
<1>1. ASSUME NEW o \in Envelope, Operates(o) PROVE Ledger!Next
    <2>1. Ledger!Admit(o.id)
        BY <1>1, OperatesAdmits
    <2>2. o.id \in OperationIds
        BY DEF Envelope
    <2> QED
        BY <2>1, <2>2 DEF Ledger!Next
<1>2. CASE Overwrites
    BY <1>2, OverwritesOverwrite DEF Ledger!Next
<1>3. CASE UNCHANGED <<row, receipts>>
    BY <1>3 DEF Log
<1> QED
    BY <1>1, <1>2, <1>3

LEMMA LedgerInit == Init => Ledger!Init
<1> SUFFICES ASSUME Init PROVE Log = <<>> /\ row.reset = 0
    BY DEF Ledger!Init
<1>1. row.revision = 0 /\ row.reset = 0
    BY DEF Init, NoRow
<1> QED
    BY <1>1 DEF Log

\* The store implements the append-only history of ProgressLedger: each
\* operation is admitted once, at the revision its receipt names.
THEOREM StoreImplementsLedger == Spec => ImplementsLedger
<1>1. Inductive /\ [Next]_serverVars => [Ledger!Next]_<<Log, row.reset>>
    <2> SUFFICES ASSUME Inductive, [Next]_serverVars
                 PROVE  [Ledger!Next]_<<Log, row.reset>>
        OBVIOUS
    <2>1. TypeOK
        BY DEF Inductive
    <2> QED
        BY <2>1, StepShapes, LedgerStep
<1> QED
    BY <1>1, LedgerInit, InductiveHolds, PTL DEF Spec, ImplementsLedger, Ledger!Spec


-----------------------------------------------------------------------------
(* Timelines and snapshots.                                                *)

LEMMA BeforeType ==
    ASSUME NEW fs \in Seq(File), NEW i \in 1..(Len(fs) + 1)
    PROVE  Before(fs, i) \in Nat
<1>1. IsFiniteSet(1..(i - 1))
    BY FS_Interval
<1>2. \A j \in 1..(i - 1) : Durations(fs)[j] \in Nat
    <2>1. \A j \in 1..(i - 1) : j \in DOMAIN fs /\ fs[j] \in File
        OBVIOUS
    <2> QED
        BY <2>1 DEF Durations, File
<1> QED
    BY <1>1, <1>2, SumNat DEF Before

LEMMA BeforeFirst == ASSUME NEW fs PROVE Before(fs, 1) = 0
<1>1. 1..(1 - 1) = {}
    OBVIOUS
<1> QED
    BY <1>1, SumEmpty DEF Before

\* The file a position falls into exists, and begins at or before it.
LEMMA FileAtType ==
    ASSUME NEW fs \in Seq(File), fs # <<>>, NEW position \in Nat
    PROVE  /\ FileAt(fs, position) \in 1..Len(fs)
           /\ Before(fs, FileAt(fs, position)) \in Nat
           /\ Before(fs, FileAt(fs, position)) <= position
           /\ \A j \in 1..(FileAt(fs, position) - 1) : fs[j].duration > 0
<1> DEFINE Fits(i) == i = Len(fs) \/ fs[i].duration = 0 \/ Before(fs, i + 1) > position
           First(i) == /\ Fits(i)
                       /\ \A j \in 1..(i - 1) :
                              fs[j].duration > 0 /\ Before(fs, j + 1) <= position
           Candidates == {i \in 1..Len(fs) : Fits(i)}
<1>1. Len(fs) \in Candidates /\ Candidates \subseteq Nat
    OBVIOUS
<1>2. PICK n \in Candidates : \A m \in Candidates : n <= m
    <2> HIDE DEF Candidates
    <2> QED
        BY <1>1, LeastNatural
<1>3. First(n)
    <2>1. ASSUME NEW j \in 1..(n - 1)
          PROVE  fs[j].duration > 0 /\ Before(fs, j + 1) <= position
        <3>1. j \in 1..Len(fs) /\ j \notin Candidates
            BY <1>2
        <3>2. ~Fits(j)
            BY <3>1
        <3>3. fs[j].duration \in Nat /\ j + 1 \in 1..(Len(fs) + 1)
            <4>1. fs[j] \in File
                BY <3>1
            <4> QED
                BY <3>1, <4>1 DEF File
        <3>4. Before(fs, j + 1) \in Nat
            BY <3>3, BeforeType
        <3> QED
            BY <3>2, <3>3, <3>4
    <2> QED
        BY <1>2, <2>1
<1>4. PICK i \in 1..Len(fs) : i = FileAt(fs, position) /\ First(i)
    <2>1. n \in 1..Len(fs)
        BY <1>2
    <2>2. \E i \in DOMAIN fs : First(i)
        BY <1>3, <2>1
    <2>3. FileAt(fs, position) = CHOOSE i \in DOMAIN fs : First(i)
        BY DEF FileAt
    <2> HIDE DEF First
    <2> QED
        BY <2>2, <2>3
<1>5. Before(fs, i) \in Nat
    BY BeforeType
<1>6. Before(fs, i) <= position
    <2>1. CASE i = 1
        BY <2>1, BeforeFirst
    <2>2. CASE i # 1
        <3>1. i - 1 \in 1..(i - 1)
            BY <2>2
        <3> QED
            BY <1>4, <3>1
    <2> QED
        BY <2>1, <2>2
<1> QED
    BY <1>4, <1>5, <1>6

LEMMA ResumePositionType == TypeOK => ResumePosition \in Nat
<1> SUFFICES ASSUME TypeOK PROVE ResumePosition \in Nat
    OBVIOUS
<1>1. row.position \in Nat /\ row.offset \in Nat /\ files \in Seq(File)
    BY DEF TypeOK, Row
<1>2. CASE ~ResumeConflict /\ Unfinished /\ row.file # None /\ Proven
    <2>1. IndexOf(files, row.file) # {}
        BY <1>2 DEF ResumeConflict
    <2> DEFINE i == CHOOSE i \in IndexOf(files, row.file) : TRUE
    <2>2. i \in 1..Len(files)
        BY <1>1, <2>1 DEF IndexOf
    <2>3. Before(files, i) \in Nat
        <3> HIDE DEF i
        <3> QED
            BY <1>1, <2>2, BeforeType
    <2>4. ResumePosition = Before(files, i) + row.offset
        BY <1>2 DEF ResumePosition
    <2> QED
        BY <1>1, <2>3, <2>4
<1>3. CASE ~(~ResumeConflict /\ Unfinished /\ row.file # None /\ Proven)
    BY <1>1, <1>3 DEF ResumePosition
<1> QED
    BY <1>2, <1>3

LEMMA SnapshotType ==
    ASSUME TypeOK
    PROVE  MediaSnapshot \in Snapshot /\ Edition \in Snapshot
<1>1. ResumePosition \in Nat
    BY ResumePositionType
<1>2. ResumeConflict \in BOOLEAN
    BY DEF ResumeConflict, Unfinished
<1>3. MediaSnapshot \in Snapshot
    BY <1>1, <1>2 DEF MediaSnapshot, Snapshot, TypeOK, Row
<1>4. AllPresent(files) \in Seq(File)
    <2>1. files \in Seq(File)
        BY DEF TypeOK
    <2>2. ASSUME NEW f \in File PROVE [f EXCEPT !.missing = FALSE] \in File
        BY DEF File
    <2>3. \A i \in 1..Len(files) : [files[i] EXCEPT !.missing = FALSE] \in File
        BY <2>1, <2>2
    <2>4. AllPresent(files) = [i \in 1..Len(files) |-> [files[i] EXCEPT !.missing = FALSE]]
        BY <2>1 DEF AllPresent
    <2> QED
        BY <2>1, <2>3, <2>4
<1> QED
    BY <1>3, <1>4 DEF Edition, Snapshot

\* What enqueue makes of a patch is an envelope.
LEMMA NewOperationType ==
    ASSUME NEW b \in Snapshot, b.files # <<>>, NEW c \in Chain, NEW p \in Patches,
           NEW id \in OperationIds, NEW expected \in ExpectedGenerations(b)
    PROVE  NewOperation(id, b, c, p, expected) \in Envelope
<1> DEFINE i == FileAt(b.files, p.position)
<1>1. p.position \in Nat /\ p.intent \in Intents
    BY QueueAssumption DEF PatchIntents, Intents
<1>2. b.files \in Seq(File) /\ b.revision \in Nat /\ b.reset \in Nat /\ expected \in Nat
    BY DEF Snapshot, ExpectedGenerations
<1>3. /\ i \in 1..Len(b.files)
      /\ p.position - Before(b.files, i) \in Nat
    <2>1. i \in 1..Len(b.files) /\ Before(b.files, i) \in Nat /\ Before(b.files, i) <= p.position
        BY <1>1, <1>2, FileAtType
    <2> HIDE DEF i
    <2> QED
        BY <1>1, <2>1
<1>4. b.files[i].id \in FileIds
    <2> HIDE DEF i
    <2>1. b.files[i] \in File
        BY <1>2, <1>3
    <2> QED
        BY <2>1 DEF File
<1>5. /\ c.session \in Sessions /\ c.sequence + 1 \in Nat /\ c.epoch \in Nat
      /\ c.predecessor \in OperationIds \cup {None}
    BY DEF Chain
<1>6. NewOperation(id, b, c, p, expected) =
         [id |-> id, session |-> c.session, sequence |-> c.sequence + 1,
          epoch |-> c.epoch, generation |-> expected, base |-> b.revision,
          reset |-> b.reset, predecessor |-> c.predecessor, intent |-> p.intent,
          file |-> b.files[i].id, offset |-> p.position - Before(b.files, i),
          position |-> p.position, finished |-> p.intent = "finish"]
    BY DEF NewOperation
<1> HIDE DEF i
<1> QED
    BY <1>1, <1>2, <1>3, <1>4, <1>5, <1>6 DEF Envelope

-----------------------------------------------------------------------------
(* Types.                                                                  *)

\* An answer that settles a request names a receipt the server holds.
ReceiptsAnswered ==
    \A t \in Tabs :
        /\ reply[t] # None => sent[t] # None
        /\ reply[t] \in {"accept", "receipt"} =>
               sent[t].record.operation.id \in DOMAIN receipts

QTyped == QTypeOK /\ ReceiptsAnswered

LEMMA ServerTypeFrame ==
    ASSUME TypeOK, UNCHANGED serverVars PROVE TypeOK'
    BY DEF TypeOK, serverVars

LEMMA WakeType ==
    ASSUME wake \in [Tabs -> WakeStates], NEW t \in Tabs,
           \/ NotifyOthers(t)
           \/ ArmTimer(t)
           \/ \E w \in WakeStates : wake' = [wake EXCEPT ![t] = w]
           \/ wake' = [u \in Tabs |-> "call"]
           \/ UNCHANGED wake
    PROVE  wake' \in [Tabs -> WakeStates]
    BY DEF NotifyOthers, ArmTimer, WakeStates

LEMMA QInitTyped == QInit => QTyped
<1> SUFFICES ASSUME QInit PROVE QTyped
    OBVIOUS
<1>1. TypeOK
    BY InitType DEF QInit
<1>2. QTypeOK
    BY <1>1 DEF QInit, QTypeOK, WakeStates
<1>3. ReceiptsAnswered
    BY QueueAssumption DEF QInit, ReceiptsAnswered, Replies
<1> QED
    BY <1>2, <1>3 DEF QTyped

LEMMA FetchSnapshotTyped ==
    ASSUME QTyped, NEW t \in Tabs, FetchSnapshot(t) PROVE QTyped'
<1>1. [snapshot |-> MediaSnapshot, patch |-> None] \in Fetched
    BY SnapshotType DEF QTyped, QTypeOK, Fetched
<1>2. fetch' \in [Tabs -> Fetched \cup {None}]
    BY <1>1 DEF FetchSnapshot, QTyped, QTypeOK
<1>3. TypeOK'
    BY ServerTypeFrame DEF QTyped, QTypeOK, FetchSnapshot
<1>4. ReceiptsAnswered'
    BY DEF QTyped, ReceiptsAnswered, FetchSnapshot, replayVars, serverVars
<1> QED
    BY <1>2, <1>3, <1>4
    DEF FetchSnapshot, QTyped, QTypeOK, storageVars, replayVars, idVars

LEMMA InstallTyped ==
    ASSUME QTyped, NEW t \in Tabs, NEW b \in Snapshot, Install(t, b)
    PROVE  /\ base' \in [Tabs -> Snapshot \cup {None}]
           /\ cached' \in Snapshot \cup {None}
           /\ wake' \in [Tabs -> WakeStates]
    BY WakeType DEF Install, QTyped, QTypeOK

LEMMA InstallSnapshotTyped ==
    ASSUME QTyped, NEW t \in Tabs, InstallSnapshot(t) PROVE QTyped'
<1>1. fetch[t] \in Fetched /\ fetch[t].snapshot \in Snapshot
    BY DEF InstallSnapshot, QTyped, QTypeOK, Fetched
<1>2. /\ base' \in [Tabs -> Snapshot \cup {None}]
      /\ cached' \in Snapshot \cup {None}
      /\ wake' \in [Tabs -> WakeStates]
    BY <1>1, InstallTyped DEF InstallSnapshot
<1>3. TypeOK'
    BY ServerTypeFrame DEF QTyped, QTypeOK, InstallSnapshot
<1>4. ReceiptsAnswered'
    BY DEF QTyped, ReceiptsAnswered, InstallSnapshot, serverVars
<1> QED
    BY <1>2, <1>3, <1>4 DEF InstallSnapshot, QTyped, QTypeOK, idVars

LEMMA FetchEditionTyped ==
    ASSUME QTyped, NEW t \in Tabs, FetchEdition(t) PROVE QTyped'
<1>1. [snapshot |-> Edition, patch |-> None] \in Fetched
    BY SnapshotType DEF QTyped, QTypeOK, Fetched
<1>2. fetch' \in [Tabs -> Fetched \cup {None}]
    BY <1>1 DEF FetchEdition, QTyped, QTypeOK
<1>3. TypeOK'
    BY ServerTypeFrame DEF QTyped, QTypeOK, FetchEdition
<1>4. ReceiptsAnswered'
    BY DEF QTyped, ReceiptsAnswered, FetchEdition, replayVars, serverVars
<1> QED
    BY <1>2, <1>3, <1>4
    DEF FetchEdition, QTyped, QTypeOK, storageVars, replayVars, idVars

LEMMA AdoptCachedBaseTyped ==
    ASSUME QTyped, NEW t \in Tabs, AdoptCachedBase(t) PROVE QTyped'
<1>1. base' \in [Tabs -> Snapshot \cup {None}]
    BY DEF AdoptCachedBase, QTyped, QTypeOK
<1>2. TypeOK'
    BY ServerTypeFrame DEF QTyped, QTypeOK, AdoptCachedBase
<1>3. ReceiptsAnswered'
    BY DEF QTyped, ReceiptsAnswered, AdoptCachedBase, replayVars, serverVars
<1> QED
    BY <1>1, <1>2, <1>3
    DEF AdoptCachedBase, QTyped, QTypeOK, storageVars, replayVars, idVars

LEMMA BeginChoiceTyped ==
    ASSUME QTyped, NEW t \in Tabs, NEW p \in Patches, BeginChoice(t, p)
    PROVE  QTyped'
<1>1. [snapshot |-> MediaSnapshot, patch |-> p] \in Fetched
    BY SnapshotType DEF QTyped, QTypeOK, Fetched
<1>2. fetch' \in [Tabs -> Fetched \cup {None}]
    BY <1>1 DEF BeginChoice, QTyped, QTypeOK
<1>3. TypeOK'
    BY ServerTypeFrame DEF QTyped, QTypeOK, BeginChoice
<1>4. ReceiptsAnswered'
    BY DEF QTyped, ReceiptsAnswered, BeginChoice, replayVars, serverVars
<1> QED
    BY <1>2, <1>3, <1>4
    DEF BeginChoice, QTyped, QTypeOK, storageVars, replayVars, idVars

LEMMA RefuseHeartbeatTyped ==
    ASSUME QTyped, NEW t \in Tabs, RefuseHeartbeat(t) PROVE QTyped'
<1>1. wake' \in [Tabs -> WakeStates]
    BY DEF RefuseHeartbeat, QTyped, QTypeOK, WakeStates
<1>2. TypeOK'
    BY ServerTypeFrame DEF QTyped, QTypeOK, RefuseHeartbeat
<1>3. ReceiptsAnswered'
    BY DEF QTyped, ReceiptsAnswered, RefuseHeartbeat, serverVars
<1> QED
    BY <1>1, <1>2, <1>3
    DEF RefuseHeartbeat, QTyped, QTypeOK, storageVars, pageVars, idVars

\* The three outcomes of writing a record.
Writes(t, b, p, r) ==
    Persist(t, b, p, r) \/ PersistUnflagged(t, b, p, r) \/ Retain(t, b, r)

LEMMA WritesTyped ==
    ASSUME QTyped, NEW t \in Tabs, NEW b \in Snapshot, NEW p \in Patches,
           NEW r \in Stored, Writes(t, b, p, r)
    PROVE  /\ store' \subseteq Stored
           /\ quarantine' \subseteq OperationIds
           /\ base' \in [Tabs -> Snapshot \cup {None}]
           /\ volatile' \in [Tabs -> SUBSET Stored]
           /\ wake' \in [Tabs -> WakeStates]
           /\ denials' \in Nat
<1>1. r.operation.id \in OperationIds
    BY DEF Stored, Envelope
<1>2. /\ store \subseteq Stored /\ quarantine \subseteq OperationIds
      /\ base \in [Tabs -> Snapshot \cup {None}]
      /\ volatile \in [Tabs -> SUBSET Stored]
      /\ wake \in [Tabs -> WakeStates]
      /\ denials \in Nat
    BY DEF QTyped, QTypeOK
<1>3. CASE Persist(t, b, p, r)
    <2>1. [b EXCEPT !.conflict = b.conflict /\ ~Explicit(p.intent)] \in Snapshot
        BY DEF Snapshot
    <2>2. wake' \in [Tabs -> WakeStates]
        BY <1>3 DEF Persist, WakeStates
    <2> QED
        BY <1>1, <1>2, <1>3, <2>1, <2>2 DEF Persist
<1>4. CASE PersistUnflagged(t, b, p, r)
    <2>1. wake' \in [Tabs -> WakeStates]
        BY <1>2, <1>4, WakeType DEF PersistUnflagged
    <2>2. denials' \in Nat
        BY <1>2, <1>4 DEF PersistUnflagged
    <2> QED
        BY <1>2, <1>4, <2>1, <2>2 DEF PersistUnflagged
<1>5. CASE Retain(t, b, r)
    <2>1. wake' \in [Tabs -> WakeStates]
        BY <1>2, <1>5, WakeType DEF Retain
    <2>2. denials' \in Nat
        BY <1>2, <1>5 DEF Retain
    <2>3. volatile' \in [Tabs -> SUBSET Stored]
        BY <1>2, <1>5 DEF Retain
    <2> QED
        BY <1>2, <1>5, <2>1, <2>2, <2>3 DEF Retain
<1> QED
    BY <1>3, <1>4, <1>5 DEF Writes

LEMMA AdvanceType ==
    ASSUME NEW c \in Chain, NEW p
    PROVE  /\ Advance(c, p) \in Chain
           /\ Advance(c, p).session = c.session
           /\ Advance(c, p).sequence = c.sequence
           /\ Advance(c, p).predecessor = c.predecessor
    BY DEF Advance, Chain

LEMMA NewChainType ==
    ASSUME NEW s \in Sessions
    PROVE  NewChain(s) \in Chain
    BY DEF NewChain, Chain

\* Save makes record r of patch p, or none because no file is available.
Makes(t, b, c, p, r) ==
    /\ Available(b, p)
    /\ r.operation.id \notin issued
    /\ \E expected \in ExpectedGenerations(b) :
           r.operation = NewOperation(r.operation.id, b, Advance(c, p), p, expected)
    /\ issued' = issued \cup {r.operation.id}
    /\ chain' = [chain EXCEPT ![t] =
           [Advance(c, p) EXCEPT !.sequence = r.operation.sequence,
                                 !.predecessor = r.operation.id]]
    /\ Writes(t, b, p, r)

MakesNone(t, b, c, p) ==
    /\ chain' = [chain EXCEPT ![t] = Advance(c, p)]
    /\ base' = [base EXCEPT ![t] = b]
    /\ UNCHANGED <<store, quarantine, volatile, wake, issued, denials>>

LEMMA SaveMeans ==
    ASSUME NEW t, NEW b \in Snapshot, NEW c \in Chain, NEW p \in Patches,
           Save(t, b, c, p)
    PROVE  (\E r \in Stored : Makes(t, b, c, p, r)) \/ MakesNone(t, b, c, p)
<1>1. Advance(c, p) \in Chain
    BY AdvanceType
<1>2. CASE Available(b, p)
    <2>1. PICK id \in OperationIds \ issued, now \in Clock,
               expected \in ExpectedGenerations(b) :
             LET o == NewOperation(id, b, Advance(c, p), p, expected)
                 r == [operation |-> o, createdAt |-> now]
             IN  /\ issued' = issued \cup {id}
                 /\ chain' = [chain EXCEPT ![t] =
                        [Advance(c, p) EXCEPT !.sequence = o.sequence,
                                              !.predecessor = id]]
                 /\ \/ Persist(t, b, p, r)
                    \/ PersistUnflagged(t, b, p, r)
                    \/ Retain(t, b, r)
        BY <1>2, Zenon DEF Save
    <2> DEFINE o == NewOperation(id, b, Advance(c, p), p, expected)
               r == [operation |-> o, createdAt |-> now]
    <2>2. b.files # <<>>
        BY <1>2 DEF Available
    <2>3. o \in Envelope /\ o.id = id
        BY <1>1, <2>2, NewOperationType DEF NewOperation
    <2>4. r \in Stored /\ r.operation = o
        BY <2>3 DEF Stored
    <2>5. Writes(t, b, p, r)
        BY <2>1 DEF Writes
    <2>6. Makes(t, b, c, p, r)
        BY <1>2, <2>1, <2>3, <2>4, <2>5 DEF Makes
    <2> QED
        BY <2>4, <2>6
<1>3. CASE ~Available(b, p)
    BY <1>3 DEF Save, MakesNone
<1> QED
    BY <1>2, <1>3

LEMMA SaveTyped ==
    ASSUME QTyped, NEW t \in Tabs, NEW b \in Snapshot, NEW c \in Chain,
           NEW p \in Patches, Save(t, b, c, p)
    PROVE  /\ store' \subseteq Stored
           /\ quarantine' \subseteq OperationIds
           /\ base' \in [Tabs -> Snapshot \cup {None}]
           /\ chain' \in [Tabs -> Chain \cup {None}]
           /\ volatile' \in [Tabs -> SUBSET Stored]
           /\ wake' \in [Tabs -> WakeStates]
           /\ issued' \subseteq OperationIds
           /\ denials' \in Nat
<1>1. Advance(c, p) \in Chain
    BY AdvanceType
<1>2. ASSUME NEW r \in Stored, Makes(t, b, c, p, r)
      PROVE  /\ chain' \in [Tabs -> Chain \cup {None}]
             /\ issued' \subseteq OperationIds
             /\ Writes(t, b, p, r)
    <2>1. r.operation.id \in OperationIds /\ r.operation.sequence \in Nat
        BY DEF Stored, Envelope
    <2>2. [Advance(c, p) EXCEPT !.sequence = r.operation.sequence,
                                !.predecessor = r.operation.id] \in Chain
        BY <1>1, <2>1 DEF Chain
    <2>3. chain' \in [Tabs -> Chain \cup {None}]
        BY <1>2, <2>2 DEF Makes, QTyped, QTypeOK
    <2>4. issued' \subseteq OperationIds
        BY <1>2, <2>1 DEF Makes, QTyped, QTypeOK
    <2> QED
        BY <1>2, <2>3, <2>4 DEF Makes
<1>3. CASE MakesNone(t, b, c, p)
    BY <1>1, <1>3 DEF MakesNone, QTyped, QTypeOK
<1>4. CASE \E r \in Stored : Makes(t, b, c, p, r)
    <2>1. PICK r \in Stored : Makes(t, b, c, p, r)
        BY <1>4
    <2> QED
        BY <1>2, <2>1, WritesTyped
<1> QED
    BY <1>3, <1>4, SaveMeans

LEMMA EnqueueTyped ==
    ASSUME QTyped, NEW t \in Tabs, NEW p \in Patches, Enqueue(t, p)
    PROVE  QTyped'
<1>1. base[t] \in Snapshot
    BY DEF Enqueue, QTyped, QTypeOK
<1>2. PICK c \in Chain : Save(t, base[t], c, p)
    <2>1. CASE chain[t] # None
        BY <2>1 DEF Enqueue, QTyped, QTypeOK
    <2>2. CASE chain[t] = None
        BY <2>2, NewChainType DEF Enqueue
    <2> QED
        BY <2>1, <2>2
<1>3. /\ store' \subseteq Stored
      /\ quarantine' \subseteq OperationIds
      /\ base' \in [Tabs -> Snapshot \cup {None}]
      /\ chain' \in [Tabs -> Chain \cup {None}]
      /\ volatile' \in [Tabs -> SUBSET Stored]
      /\ wake' \in [Tabs -> WakeStates]
      /\ issued' \subseteq OperationIds
      /\ denials' \in Nat
    BY <1>1, <1>2, SaveTyped
<1>4. opened' \subseteq Sessions
    BY DEF Enqueue, QTyped, QTypeOK
<1>5. TypeOK'
    BY ServerTypeFrame DEF QTyped, QTypeOK, Enqueue
<1>6. ReceiptsAnswered'
    BY DEF QTyped, ReceiptsAnswered, Enqueue, serverVars
<1> QED
    BY <1>3, <1>4, <1>5, <1>6 DEF Enqueue, QTyped, QTypeOK

LEMMA FinishChoiceTyped ==
    ASSUME QTyped, NEW t \in Tabs, FinishChoice(t)
    PROVE  QTyped'
<1>1. /\ fetch[t].snapshot \in Snapshot
      /\ fetch[t].patch \in Patches
    BY DEF FinishChoice, QTyped, QTypeOK, Fetched
<1>2. PICK s \in Sessions : /\ Save(t, fetch[t].snapshot, NewChain(s), fetch[t].patch)
                            /\ opened' = opened \cup {s}
    BY DEF FinishChoice
<1>3. /\ store' \subseteq Stored
      /\ quarantine' \subseteq OperationIds
      /\ base' \in [Tabs -> Snapshot \cup {None}]
      /\ chain' \in [Tabs -> Chain \cup {None}]
      /\ volatile' \in [Tabs -> SUBSET Stored]
      /\ wake' \in [Tabs -> WakeStates]
      /\ issued' \subseteq OperationIds
      /\ denials' \in Nat
    BY <1>1, <1>2, SaveTyped, NewChainType
<1>4. opened' \subseteq Sessions
    BY <1>2 DEF QTyped, QTypeOK
<1>5. TypeOK'
    BY ServerTypeFrame DEF QTyped, QTypeOK, FinishChoice
<1>6. ReceiptsAnswered'
    BY DEF QTyped, ReceiptsAnswered, FinishChoice, serverVars
<1>7. cached' \in Snapshot \cup {None} /\ fetch' \in [Tabs -> Fetched \cup {None}]
    BY <1>1 DEF FinishChoice, QTyped, QTypeOK
<1> QED
    BY <1>3, <1>4, <1>5, <1>6, <1>7 DEF FinishChoice, QTyped, QTypeOK

LEMMA FlushTyped ==
    ASSUME QTyped, NEW t \in Tabs, Flush(t) PROVE QTyped'
<1>1. /\ store' \subseteq Stored
      /\ volatile' \in [Tabs -> SUBSET Stored]
    BY DEF Flush, QTyped, QTypeOK
<1>2. denials' \in Nat
    BY DEF Flush, QTyped, QTypeOK
<1>3. wake' \in [Tabs -> WakeStates]
    <2>1. \A u \in Tabs : wake[u] \in WakeStates
        BY DEF QTyped, QTypeOK
    <2>2. PICK kept \in SUBSET volatile[t] :
              wake' = [u \in Tabs |->
                          IF u = t THEN IF kept = {} THEN "ready" ELSE "timer"
                          ELSE IF store' = store THEN wake[u] ELSE "call"]
        BY DEF Flush
    <2> QED
        BY <2>1, <2>2 DEF WakeStates
<1>4. TypeOK'
    BY ServerTypeFrame DEF QTyped, QTypeOK, Flush
<1>5. ReceiptsAnswered'
    BY DEF QTyped, ReceiptsAnswered, Flush, serverVars
<1> QED
    BY <1>1, <1>2, <1>3, <1>4, <1>5 DEF Flush, QTyped, QTypeOK, idVars

LEMMA AcquireTyped ==
    ASSUME QTyped, NEW t \in Tabs, Acquire(t) PROVE QTyped'
<1>1. /\ wake' \in [Tabs -> WakeStates]
      /\ todo' \in [Tabs -> SUBSET Stored]
    BY DEF Acquire, QTyped, QTypeOK, WakeStates
<1>2. lock' \in running' \cup {None} /\ running' \subseteq Tabs
    BY DEF Acquire, QTyped, QTypeOK
<1>3. TypeOK'
    BY ServerTypeFrame DEF QTyped, QTypeOK, Acquire
<1>4. ReceiptsAnswered'
    BY DEF QTyped, ReceiptsAnswered, Acquire, serverVars
<1> QED
    BY <1>1, <1>2, <1>3, <1>4
    DEF Acquire, QTyped, QTypeOK, storageVars, pageVars, idVars

LEMMA LeaseHeldTyped ==
    ASSUME QTyped, NEW t \in Tabs, LeaseHeld(t) PROVE QTyped'
<1>1. wake' \in [Tabs -> WakeStates]
    BY DEF LeaseHeld, QTyped, QTypeOK, WakeStates
<1>2. TypeOK'
    BY ServerTypeFrame DEF QTyped, QTypeOK, LeaseHeld
<1>3. ReceiptsAnswered'
    BY DEF QTyped, ReceiptsAnswered, LeaseHeld, serverVars
<1> QED
    BY <1>1, <1>2, <1>3
    DEF LeaseHeld, QTyped, QTypeOK, storageVars, pageVars, idVars

LEMMA HeadsType ==
    ASSUME QTyped, NEW t \in Tabs, NEW r \in Heads(t)
    PROVE  /\ r \in todo[t] /\ r \in Stored
           /\ r.operation \in Envelope
           /\ r.operation.id \in OperationIds
           /\ r.operation.id \notin quarantine
    BY DEF Heads, QTyped, QTypeOK, Stored, Envelope

LEMMA CascadeConflictTyped ==
    ASSUME QTyped, NEW t \in Tabs, CascadeConflict(t) PROVE QTyped'
<1>1. quarantine' \subseteq OperationIds
    BY HeadsType DEF CascadeConflict, QTyped, QTypeOK
<1>2. todo' \in [Tabs -> SUBSET Stored]
    BY DEF CascadeConflict, QTyped, QTypeOK
<1>3. wake' \in [Tabs -> WakeStates]
    BY WakeType DEF CascadeConflict, QTyped, QTypeOK
<1>4. TypeOK'
    BY ServerTypeFrame DEF QTyped, QTypeOK, CascadeConflict
<1>5. ReceiptsAnswered'
    BY DEF QTyped, ReceiptsAnswered, CascadeConflict, serverVars
<1> QED
    BY <1>1, <1>2, <1>3, <1>4, <1>5
    DEF CascadeConflict, QTyped, QTypeOK, pageVars, idVars

LEMMA RequestTyped ==
    ASSUME QTyped, NEW t \in Tabs, Request(t) PROVE QTyped'
<1>1. PICK r \in Heads(t) :
          /\ sent' = [sent EXCEPT ![t] = [record |-> r, attempt |-> faults]]
          /\ IF r.operation.id \in DOMAIN receipts
             THEN /\ reply' = [reply EXCEPT ![t] = "receipt"]
                  /\ UNCHANGED network
             ELSE /\ network' = network \cup {sent'[t]}
                  /\ UNCHANGED reply
    BY DEF Request
<1> DEFINE q == [record |-> r, attempt |-> faults]
<1>2. q \in Posted /\ q # None /\ q.record = r
    BY HeadsType, QueueAssumption DEF Posted, QTyped, QTypeOK
<1>3. sent' \in [Tabs -> Posted \cup {None}] /\ sent'[t] = q
    BY <1>1, <1>2 DEF QTyped, QTypeOK
<1>4. network' \subseteq Posted
    BY <1>1, <1>2, <1>3 DEF QTyped, QTypeOK
<1>5. reply' \in [Tabs -> Replies \cup {None}]
    BY <1>1 DEF QTyped, QTypeOK, Replies
<1>6. TypeOK'
    BY ServerTypeFrame DEF QTyped, QTypeOK, Request
<1>7. ReceiptsAnswered'
    <2>1. receipts' = receipts
        BY DEF Request, serverVars
    <2>2. reply[t] = None
        BY DEF Request, Looping, QTyped, ReceiptsAnswered
    <2>3. \A u \in Tabs \ {t} : sent'[u] = sent[u] /\ reply'[u] = reply[u]
        BY <1>1 DEF QTyped, QTypeOK
    <2>4. reply'[t] \in {"accept", "receipt"} => r.operation.id \in DOMAIN receipts
        BY <1>1, <2>2, QueueAssumption DEF Replies
    <2> QED
        BY <1>2, <1>3, <2>1, <2>3, <2>4 DEF QTyped, ReceiptsAnswered
<1> QED
    BY <1>3, <1>4, <1>5, <1>6, <1>7
    DEF Request, QTyped, QTypeOK, storageVars, pageVars, idVars

\* What a tab that received an answer forgets.
LEMMA AnsweredTyped ==
    ASSUME QTyped, NEW t \in Tabs, Answered(t)
    PROVE  /\ todo' \in [Tabs -> SUBSET Stored]
           /\ sent' \in [Tabs -> Posted \cup {None}]
           /\ reply' \in [Tabs -> Replies \cup {None}]
           /\ wake' \in [Tabs -> WakeStates]
           /\ sent[t] \in Posted
           /\ sent[t].record \in Stored
           /\ sent[t].record.operation \in Envelope
           /\ sent[t].record.operation.id \in OperationIds
           /\ TypeOK' /\ ReceiptsAnswered'
<1>1. /\ todo' \in [Tabs -> SUBSET Stored]
      /\ sent' \in [Tabs -> Posted \cup {None}]
      /\ reply' \in [Tabs -> Replies \cup {None}]
    BY DEF Answered, QTyped, QTypeOK
<1>2. wake' \in [Tabs -> WakeStates]
    BY WakeType DEF Answered, QTyped, QTypeOK
<1>3. sent[t] \in Posted
    BY DEF Answered, QTyped, QTypeOK
<1>4. /\ sent[t].record \in Stored
      /\ sent[t].record.operation \in Envelope
      /\ sent[t].record.operation.id \in OperationIds
    BY <1>3 DEF Posted, Stored, Envelope
<1>5. TypeOK'
    BY ServerTypeFrame DEF QTyped, QTypeOK, Answered
<1>6. ReceiptsAnswered'
    <2>1. receipts' = receipts
        BY DEF Answered, serverVars
    <2>2. \A u \in Tabs \ {t} : sent'[u] = sent[u] /\ reply'[u] = reply[u]
        BY DEF Answered, QTyped, QTypeOK
    <2>3. reply'[t] = None
        BY DEF Answered, QTyped, QTypeOK
    <2> QED
        BY <2>1, <2>2, <2>3, QueueAssumption
        DEF QTyped, ReceiptsAnswered, Replies
<1> QED
    BY <1>1, <1>2, <1>3, <1>4, <1>5, <1>6

LEMMA AcknowledgedType ==
    ASSUME TypeOK, NEW b \in Snapshot, NEW o \in Envelope,
           o.id \in DOMAIN receipts
    PROVE  /\ Acknowledged(b, o) \in Snapshot
           /\ Acknowledged(b, o).generation = b.generation
           /\ Acknowledged(b, o).revision = receipts[o.id].revision
           /\ Acknowledged(b, o).reset = receipts[o.id].reset
           /\ Acknowledged(b, o).finished = o.finished
           /\ Acknowledged(b, o).deleted = (o.intent = "reset")
<1>1. receipts[o.id].revision \in Nat /\ receipts[o.id].reset \in Nat
    BY DEF TypeOK, Receipt
<1> QED
    BY <1>1 DEF Acknowledged, Snapshot, Envelope

LEMMA SettleTyped ==
    ASSUME QTyped, NEW t \in Tabs, Settle(t) PROVE QTyped'
<1>1. Answered(t)
    BY DEF Settle
<1>2. sent[t].record.operation.id \in DOMAIN receipts
    BY DEF Settle, QTyped, ReceiptsAnswered
<1>3. /\ base' \in [Tabs -> Snapshot \cup {None}]
      /\ cached' \in Snapshot \cup {None}
    <2>1. CASE base[t] = None
        BY <2>1 DEF Settle, QTyped, QTypeOK
    <2>2. CASE base[t] # None
        <3>1. base[t] \in Snapshot /\ TypeOK
            BY <2>2 DEF QTyped, QTypeOK
        <3>2. Acknowledged(base[t], sent[t].record.operation) \in Snapshot
            BY <1>1, <1>2, <3>1, AnsweredTyped, AcknowledgedType
        <3>3. /\ base' = [base EXCEPT ![t] = Acknowledged(base[t], sent[t].record.operation)]
              /\ cached' = base'[t]
            BY <2>2 DEF Settle
        <3> QED
            BY <3>2, <3>3 DEF QTyped, QTypeOK
    <2> QED
        BY <2>1, <2>2
<1>4. store' \subseteq Stored
    BY DEF Settle, QTyped, QTypeOK
<1> QED
    BY <1>1, <1>3, <1>4, AnsweredTyped
    DEF Settle, Answered, QTyped, QTypeOK, idVars

LEMMA QuarantineTyped ==
    ASSUME QTyped, NEW t \in Tabs, Quarantine(t) PROVE QTyped'
<1>1. Answered(t)
    BY DEF Quarantine
<1>2. quarantine' \subseteq OperationIds
    BY <1>1, AnsweredTyped DEF Quarantine, QTyped, QTypeOK
<1> QED
    BY <1>1, <1>2, AnsweredTyped
    DEF Quarantine, Answered, QTyped, QTypeOK, idVars

LEMMA LeaveTyped ==
    ASSUME QTyped, NEW t \in Tabs, Leave(t), UNCHANGED serverVars
    PROVE  /\ todo' \in [Tabs -> SUBSET Stored]
           /\ sent' \in [Tabs -> Posted \cup {None}]
           /\ reply' \in [Tabs -> Replies \cup {None}]
           /\ lock' \in running' \cup {None} /\ running' \subseteq Tabs
           /\ TypeOK' /\ ReceiptsAnswered'
<1>1. /\ todo' \in [Tabs -> SUBSET Stored]
      /\ sent' \in [Tabs -> Posted \cup {None}]
      /\ reply' \in [Tabs -> Replies \cup {None}]
    BY DEF Leave, QTyped, QTypeOK
<1>2. lock' \in running' \cup {None} /\ running' \subseteq Tabs
    BY DEF Leave, QTyped, QTypeOK
<1>3. TypeOK'
    BY ServerTypeFrame DEF QTyped, QTypeOK
<1>4. ReceiptsAnswered'
    <2>1. receipts' = receipts
        BY DEF serverVars
    <2>2. \A u \in Tabs \ {t} : sent'[u] = sent[u] /\ reply'[u] = reply[u]
        BY DEF Leave, QTyped, QTypeOK
    <2>3. reply'[t] = None
        BY DEF Leave, QTyped, QTypeOK
    <2> QED
        BY <2>1, <2>2, <2>3, QueueAssumption
        DEF QTyped, ReceiptsAnswered, Replies
<1> QED
    BY <1>1, <1>2, <1>3, <1>4

LEMMA FinishReplayTyped ==
    ASSUME QTyped, NEW t \in Tabs, FinishReplay(t) PROVE QTyped'
<1>1. Leave(t) /\ UNCHANGED serverVars
    BY DEF FinishReplay
<1>2. wake' \in [Tabs -> WakeStates]
    BY DEF FinishReplay, QTyped, QTypeOK, WakeStates
<1> QED
    BY <1>1, <1>2, LeaveTyped
    DEF FinishReplay, QTyped, QTypeOK, storageVars, pageVars, idVars

LEMMA NoticeExpiryTyped ==
    ASSUME QTyped, NEW t \in Tabs, NoticeExpiry(t) PROVE QTyped'
<1>1. Leave(t) /\ UNCHANGED serverVars
    BY DEF NoticeExpiry
<1>2. wake' \in [Tabs -> WakeStates]
    <2>1. CASE sent[t] # None
        BY <2>1, WakeType DEF NoticeExpiry, QTyped, QTypeOK
    <2>2. CASE sent[t] = None
        BY <2>2 DEF NoticeExpiry, QTyped, QTypeOK, WakeStates
    <2> QED
        BY <2>1, <2>2
<1> QED
    BY <1>1, <1>2, LeaveTyped
    DEF NoticeExpiry, QTyped, QTypeOK, storageVars, pageVars, idVars

LEMMA GiveUpTyped ==
    ASSUME QTyped, NEW t \in Tabs, GiveUp(t) PROVE QTyped'
<1>1. Leave(t) /\ UNCHANGED serverVars
    BY DEF GiveUp
<1>2. wake' \in [Tabs -> WakeStates]
    BY WakeType DEF GiveUp, QTyped, QTypeOK
<1>3. faults' \in Nat
    BY DEF GiveUp, QTyped, QTypeOK
<1> QED
    BY <1>1, <1>2, <1>3, LeaveTyped
    DEF GiveUp, QTyped, QTypeOK, storageVars, pageVars, idVars

LEMMA ReloadTyped ==
    ASSUME QTyped, NEW t \in Tabs, Reload(t) PROVE QTyped'
<1>1. Leave(t) /\ UNCHANGED serverVars
    BY DEF Reload
<1>2. wake' \in [Tabs -> WakeStates]
    BY DEF Reload, QTyped, QTypeOK, WakeStates
<1>3. faults' \in Nat
    BY DEF Reload, QTyped, QTypeOK
<1>4. /\ base' \in [Tabs -> Snapshot \cup {None}]
      /\ chain' \in [Tabs -> Chain \cup {None}]
      /\ volatile' \in [Tabs -> SUBSET Stored]
      /\ fetch' \in [Tabs -> Fetched \cup {None}]
    BY DEF Reload, QTyped, QTypeOK
<1> QED
    BY <1>1, <1>2, <1>3, <1>4, LeaveTyped
    DEF Reload, QTyped, QTypeOK, storageVars, idVars

LEMMA ExpireLeaseTyped ==
    ASSUME QTyped, NEW t \in Tabs, ExpireLease(t) PROVE QTyped'
<1>1. faults' \in Nat
    BY DEF ExpireLease, QTyped, QTypeOK
<1>2. TypeOK'
    BY ServerTypeFrame DEF QTyped, QTypeOK, ExpireLease
<1>3. ReceiptsAnswered'
    BY DEF QTyped, ReceiptsAnswered, ExpireLease, serverVars
<1> QED
    BY <1>1, <1>2, <1>3
    DEF ExpireLease, QTyped, QTypeOK, storageVars, pageVars, idVars

\* What the server answers, and that it holds the receipt it answers with.
LEMMA OutcomeType ==
    ASSUME NEW o PROVE Outcome(o) \in Replies
    BY DEF Outcome, Replies

LEMMA ReceiptsStay ==
    ASSUME NEW o \in Envelope, ApplyMediaOperation(o)
    PROVE  /\ DOMAIN receipts \subseteq DOMAIN receipts'
           /\ Outcome(o) \in {"accept", "receipt"} => o.id \in DOMAIN receipts'
<1>1. CASE Outcome(o) = "accept"
    BY <1>1 DEF ApplyMediaOperation, Commit
<1>2. CASE Outcome(o) # "accept"
    <2>1. Outcome(o) = "receipt" => o.id \in DOMAIN receipts
        BY DEF Outcome
    <2> QED
        BY <1>2, <2>1 DEF ApplyMediaOperation
<1> QED
    BY <1>1, <1>2

LEMMA ServeTyped ==
    ASSUME QTyped, NEW q \in network, Serve(q) PROVE QTyped'
<1> DEFINE o == q.record.operation
<1>1. q \in Posted /\ q # None /\ o \in Envelope
    BY QueueAssumption DEF QTyped, QTypeOK, Posted, Stored
<1>2. ApplyMediaOperation(o)
    BY DEF Serve
<1>3. TypeOK'
    BY <1>1, <1>2, ApplyType DEF QTyped, QTypeOK
<1>4. reply' \in [Tabs -> Replies \cup {None}]
    <2>1. Outcome(o) \in Replies
        BY OutcomeType
    <2> QED
        BY <2>1 DEF Serve, QTyped, QTypeOK
<1>5. ReceiptsAnswered'
    <2>1. /\ DOMAIN receipts \subseteq DOMAIN receipts'
          /\ Outcome(o) \in {"accept", "receipt"} => o.id \in DOMAIN receipts'
        BY <1>1, <1>2, ReceiptsStay
    <2>2. \A u \in Tabs :
              /\ sent'[u] = sent[u]
              /\ reply'[u] = IF sent[u] = q THEN Outcome(o) ELSE reply[u]
        BY DEF Serve
    <2> QED
        BY <1>1, <2>1, <2>2 DEF QTyped, ReceiptsAnswered
<1>6. network' \subseteq Posted
    BY DEF Serve, QTyped, QTypeOK
<1> QED
    BY <1>3, <1>4, <1>5, <1>6
    DEF Serve, QTyped, QTypeOK, storageVars, pageVars, idVars

LEMMA OtherWritersTyped == QTyped /\ OtherWriters => QTyped'
<1> SUFFICES ASSUME QTyped, OtherWriters PROVE QTyped'
    OBVIOUS
<1>1. TypeOK' /\ receipts' = receipts
    <2>1. TypeOK
        BY DEF QTyped, QTypeOK
    <2>2. CASE CompatibilityWrite
        BY <2>1, <2>2, CompatibilityType, CompatibilityShapes DEF Overwrites
    <2>3. ASSUME NEW fs \in FileLists, Rescan(fs)
          PROVE  TypeOK' /\ receipts' = receipts
        BY <2>1, <2>3, RescanType DEF Rescan
    <2> QED
        BY <2>2, <2>3 DEF OtherWriters
<1>2. ReceiptsAnswered'
    BY <1>1 DEF QTyped, ReceiptsAnswered, OtherWriters, replayVars
<1> QED
    BY <1>1, <1>2
    DEF OtherWriters, QTyped, QTypeOK, storageVars, pageVars, replayVars, idVars

LEMMA QNextTyped == QTyped /\ [QNext]_vars => QTyped'
<1> SUFFICES ASSUME QTyped, [QNext]_vars PROVE QTyped'
    OBVIOUS
<1>1. ASSUME NEW t \in Tabs, TabNext(t) PROVE QTyped'
    BY <1>1, FetchSnapshotTyped, InstallSnapshotTyped, FetchEditionTyped,
       AdoptCachedBaseTyped, EnqueueTyped, BeginChoiceTyped, FinishChoiceTyped,
       RefuseHeartbeatTyped, FlushTyped, AcquireTyped, LeaseHeldTyped,
       CascadeConflictTyped, RequestTyped, SettleTyped, QuarantineTyped,
       FinishReplayTyped, NoticeExpiryTyped, GiveUpTyped, ReloadTyped,
       ExpireLeaseTyped
    DEF TabNext, ReplayStep
<1>2. CASE UNCHANGED vars
    <2>1. TypeOK'
        BY <1>2, ServerTypeFrame DEF QTyped, QTypeOK, vars
    <2>2. ReceiptsAnswered'
        BY <1>2 DEF QTyped, ReceiptsAnswered, vars, replayVars, serverVars
    <2> QED
        BY <1>2, <2>1, <2>2
        DEF QTyped, QTypeOK, vars, storageVars, pageVars, replayVars, idVars
<1> QED
    BY <1>1, <1>2, ServeTyped, OtherWritersTyped DEF QNext

\* The queue and the server it talks to stay well formed, and no tab settles a
\* record by an answer without a receipt.
THEOREM QueueTypeCorrect == QSpec => []QTypeOK
<1>1. QTyped => QTypeOK
    BY DEF QTyped
<1> QED
    BY <1>1, QInitTyped, QNextTyped, PTL DEF QSpec

-----------------------------------------------------------------------------
(* The server keeps its promises in the composition.                       *)

\* Only requests and other writers reach the server.
LEMMA TabsLeaveServer ==
    ASSUME NEW t \in Tabs, TabNext(t) PROVE UNCHANGED serverVars
<1>1. ASSUME NEW p \in Patches, Enqueue(t, p) \/ BeginChoice(t, p)
      PROVE  UNCHANGED serverVars
    BY <1>1 DEF Enqueue, BeginChoice
<1>2. CASE ReplayStep(t)
    BY <1>2
    DEF ReplayStep, Flush, Acquire, LeaseHeld, CascadeConflict, Request, Settle,
        Quarantine, Answered, FinishReplay, NoticeExpiry
<1>3. CASE \/ FetchSnapshot(t) \/ InstallSnapshot(t) \/ FetchEdition(t)
           \/ AdoptCachedBase(t) \/ FinishChoice(t) \/ RefuseHeartbeat(t)
           \/ GiveUp(t) \/ Reload(t) \/ ExpireLease(t)
    BY <1>3
    DEF FetchSnapshot, InstallSnapshot, FetchEdition, AdoptCachedBase,
        FinishChoice, RefuseHeartbeat, GiveUp, Reload, ExpireLease
<1> QED
    BY <1>1, <1>2, <1>3 DEF TabNext

ServerStep ==
    \/ \E o \in Envelope : Operates(o)
    \/ Overwrites
    \/ UNCHANGED <<row, receipts>>

TimelineStep ==
    \/ UNCHANGED <<generation, files>>
    \/ generation' = generation + 1 /\ UNCHANGED <<row, receipts>>

LEMMA ServeSteps ==
    ASSUME QTyped, NEW q \in network, Serve(q)
    PROVE  /\ q.record \in Stored /\ q.record.operation \in Envelope
           /\ ServerStep /\ TimelineStep
<1>1. q.record \in Stored /\ q.record.operation \in Envelope
    BY DEF QTyped, QTypeOK, Posted, Stored
<1>2. ApplyMediaOperation(q.record.operation)
    BY DEF Serve
<1> QED
    BY <1>1, <1>2, ApplyShapes DEF ServerStep, TimelineStep

LEMMA OtherWritersSteps ==
    ASSUME QTyped, OtherWriters
    PROVE  ServerStep /\ TimelineStep /\ receipts' = receipts
<1>1. TypeOK
    BY DEF QTyped, QTypeOK
<1>2. CASE CompatibilityWrite
    BY <1>1, <1>2, CompatibilityShapes DEF ServerStep, TimelineStep, Overwrites
<1>3. ASSUME NEW fs \in FileLists, Rescan(fs)
      PROVE  ServerStep /\ TimelineStep /\ receipts' = receipts
    BY <1>3 DEF Rescan, ServerStep, TimelineStep
<1> QED
    BY <1>2, <1>3 DEF OtherWriters

LEMMA QNextSteps ==
    ASSUME QTyped, [QNext]_vars
    PROVE  ServerStep /\ TimelineStep
<1>1. CASE UNCHANGED serverVars
    BY <1>1 DEF serverVars, ServerStep, TimelineStep
<1>2. CASE UNCHANGED vars
    BY <1>1, <1>2 DEF vars
<1> QED
    BY <1>1, <1>2, TabsLeaveServer, ServeSteps, OtherWritersSteps DEF QNext

QServed == QTyped /\ Inductive

LEMMA QNextServed == QServed /\ [QNext]_vars => QServed'
<1> SUFFICES ASSUME QServed, [QNext]_vars PROVE QServed'
    OBVIOUS
<1>1. QTyped /\ QTyped'
    BY QNextTyped DEF QServed
<1>2. TypeOK'
    BY <1>1 DEF QTyped, QTypeOK
<1>3. ServerStep
    BY <1>1, QNextSteps
<1>4. Inductive'
    BY <1>2, <1>3, InductiveKept DEF QServed, ServerStep
<1> QED
    BY <1>1, <1>4 DEF QServed

LEMMA QInitServed == QInit => QServed
    BY QInitTyped, InitInductive DEF QInit, QServed

LEMMA QServedHolds == QSpec => []QServed
    BY QInitServed, QNextServed, PTL DEF QSpec

\* However tabs lose, repeat and reorder their requests, the server loses no
\* write, resets fence what was queued before them and resume follows proven
\* content: what MediaOperations promises of any clients holds of these.
THEOREM QueueKeepsServerPromises ==
    QSpec => [](AppliedOnItsBase /\ OneWritePerReceipt /\ ResetFences
                /\ ProvenanceIsOfTheRow /\ ResumeFollowsProvenContent)
<1>1. QServed => /\ AppliedOnItsBase /\ OneWritePerReceipt /\ ResetFences
                 /\ ProvenanceIsOfTheRow /\ ResumeFollowsProvenContent
    BY ProvenResume DEF QServed, Inductive
<1> QED
    BY <1>1, QServedHolds, PTL

\* The composition still implements the ledger: an operation a tab POSTs twice
\* is admitted once.
THEOREM QueueImplementsLedger == QSpec => ImplementsLedger
<1>1. QInit => Ledger!Init
    BY LedgerInit DEF QInit
<1>2. QServed /\ [QNext]_vars => [Ledger!Next]_<<Log, row.reset>>
    <2> SUFFICES ASSUME QServed, [QNext]_vars
                 PROVE  [Ledger!Next]_<<Log, row.reset>>
        OBVIOUS
    <2>1. ServerStep
        BY QNextSteps DEF QServed
    <2> QED
        BY <2>1, LedgerStep DEF QServed, ServerStep
<1> QED
    BY <1>1, <1>2, QServedHolds, PTL DEF QSpec, ImplementsLedger, Ledger!Spec

-----------------------------------------------------------------------------
(* Where records are, and how steps move them.                             *)

\* Records that a replay has read, that a POST carries, that a tab awaits an
\* answer for: all that are, or may yet be, on their way to the server.
Planned == UNION {todo[t] : t \in Tabs}

Carried == {q.record : q \in network}

Awaited == {q.record : q \in {sent[t] : t \in Tabs} \ {None}}

Sendable == store \cup Planned \cup Carried \cup Awaited

\* Records a tab retains because localStorage refused them.
Held == UNION {volatile[t] : t \in Tabs}

Records == Sendable \cup Held

Accounted == {receipts[id].envelope : id \in DOMAIN receipts}

Operations == {r.operation : r \in Records} \cup Accounted

LEMMA SendableMeans ==
    ASSUME NEW r
    PROVE  r \in Sendable <=> \/ r \in store
                              \/ \E t \in Tabs : r \in todo[t]
                              \/ \E q \in network : r = q.record
                              \/ \E t \in Tabs : sent[t] # None /\ r = sent[t].record
<1>1. r \in Planned <=> \E t \in Tabs : r \in todo[t]
    BY DEF Planned
<1>2. r \in Carried <=> \E q \in network : r = q.record
    BY DEF Carried
<1>3. r \in Awaited <=> \E t \in Tabs : sent[t] # None /\ r = sent[t].record
    BY DEF Awaited
<1>4. r \in Sendable
          <=> r \in store \/ r \in Planned \/ r \in Carried \/ r \in Awaited
    BY DEF Sendable
<1> QED
    BY <1>1, <1>2, <1>3, <1>4

LEMMA SendableMeansNext ==
    ASSUME NEW r
    PROVE  r \in Sendable' <=> \/ r \in store'
                               \/ \E t \in Tabs : r \in todo'[t]
                               \/ \E q \in network' : r = q.record
                               \/ \E t \in Tabs : sent'[t] # None /\ r = sent'[t].record
<1>1. r \in Planned' <=> \E t \in Tabs : r \in todo'[t]
    BY DEF Planned
<1>2. r \in Carried' <=> \E q \in network' : r = q.record
    BY DEF Carried
<1>3. r \in Awaited' <=> \E t \in Tabs : sent'[t] # None /\ r = sent'[t].record
    BY DEF Awaited
<1>4. r \in Sendable'
          <=> r \in store' \/ r \in Planned' \/ r \in Carried' \/ r \in Awaited'
    BY DEF Sendable
<1> QED
    BY <1>1, <1>2, <1>3, <1>4

LEMMA RecordsStored ==
    ASSUME QTyped
    PROVE  Records \subseteq Stored
<1>1. ASSUME NEW r \in Sendable PROVE r \in Stored
    <2>1. ASSUME NEW q \in Posted PROVE q.record \in Stored
        BY DEF Posted
    <2>2. \A t \in Tabs : sent[t] # None => sent[t] \in Posted
        BY DEF QTyped, QTypeOK
    <2> QED
        BY <2>1, <2>2, SendableMeans DEF QTyped, QTypeOK
<1>2. ASSUME NEW r \in Held PROVE r \in Stored
    BY DEF Held, QTyped, QTypeOK
<1> QED
    BY <1>1, <1>2 DEF Records

\* Every step but a save only moves records along, or drops them.
Moves ==
    /\ issued' = issued /\ opened' = opened
    /\ \A t \in Tabs : chain'[t] = chain[t] \/ chain'[t] = None
    /\ \A t \in Tabs : volatile'[t] \subseteq volatile[t]
    /\ \A r \in Sendable' :
           r \in Sendable \/ \E t \in Tabs : r \in volatile[t] \ volatile'[t]

\* A receipt that a step adds is that of a record on its way.
Receives ==
    \A id \in DOMAIN receipts' :
        \/ id \in DOMAIN receipts /\ receipts'[id] = receipts[id]
        \/ \E r \in Sendable : /\ r.operation.id = id
                               /\ receipts'[id].envelope = r.operation

LEMMA NothingMoves ==
    ASSUME UNCHANGED <<store, todo, sent, network, volatile, chain, issued, opened>>
    PROVE  Moves
<1>1. Sendable' = Sendable
    BY DEF Sendable, Planned, Carried, Awaited
<1> QED
    BY <1>1 DEF Moves

LEMMA FlushMoves ==
    ASSUME QTyped, NEW t \in Tabs, Flush(t) PROVE Moves
<1>1. PICK kept \in SUBSET volatile[t] :
          /\ store' = store \cup (volatile[t] \ kept)
          /\ volatile' = [volatile EXCEPT ![t] = kept]
    BY DEF Flush
<1>2. /\ volatile'[t] = kept
      /\ \A u \in Tabs \ {t} : volatile'[u] = volatile[u]
    BY <1>1 DEF QTyped, QTypeOK
<1>3. todo' = todo /\ sent' = sent /\ network' = network
    BY DEF Flush
<1>4. \A r \in Sendable' : r \in Sendable \/ r \in volatile[t] \ volatile'[t]
    BY <1>1, <1>2, <1>3, SendableMeans, SendableMeansNext
<1>5. issued' = issued /\ opened' = opened /\ chain' = chain
    BY DEF Flush, idVars
<1> QED
    BY <1>2, <1>4, <1>5 DEF Moves

LEMMA AcquireMoves ==
    ASSUME QTyped, NEW t \in Tabs, Acquire(t) PROVE Moves
<1>1. \A u \in Tabs : todo'[u] \subseteq todo[u] \cup store
    BY DEF Acquire, QTyped, QTypeOK
<1>2. store' = store /\ sent' = sent /\ network' = network
    BY DEF Acquire, storageVars
<1>3. \A r \in Sendable' : r \in Sendable
    BY <1>1, <1>2, SendableMeans, SendableMeansNext
<1>4. issued' = issued /\ opened' = opened /\ chain' = chain /\ volatile' = volatile
    BY DEF Acquire, idVars, pageVars
<1> QED
    BY <1>3, <1>4 DEF Moves

LEMMA CascadeMoves ==
    ASSUME QTyped, NEW t \in Tabs, CascadeConflict(t) PROVE Moves
<1>1. \A u \in Tabs : todo'[u] \subseteq todo[u]
    BY DEF CascadeConflict, QTyped, QTypeOK
<1>2. store' = store /\ sent' = sent /\ network' = network
    BY DEF CascadeConflict
<1>3. \A r \in Sendable' : r \in Sendable
    BY <1>1, <1>2, SendableMeans, SendableMeansNext
<1>4. issued' = issued /\ opened' = opened /\ chain' = chain /\ volatile' = volatile
    BY DEF CascadeConflict, idVars, pageVars
<1> QED
    BY <1>3, <1>4 DEF Moves

LEMMA RequestMoves ==
    ASSUME QTyped, NEW t \in Tabs, Request(t) PROVE Moves
<1>1. PICK r \in Heads(t) :
          /\ sent' = [sent EXCEPT ![t] = [record |-> r, attempt |-> faults]]
          /\ network' = network \/ network' = network \cup {sent'[t]}
    BY DEF Request
<1>2. r \in todo[t]
    BY HeadsType
<1>3. /\ sent'[t].record = r
      /\ \A u \in Tabs \ {t} : sent'[u] = sent[u]
    BY <1>1 DEF QTyped, QTypeOK
<1>4. store' = store /\ todo' = todo
    BY DEF Request, storageVars
<1>5. \A x \in Sendable' : x \in Sendable
    BY <1>1, <1>2, <1>3, <1>4, SendableMeans, SendableMeansNext
<1>6. issued' = issued /\ opened' = opened /\ chain' = chain /\ volatile' = volatile
    BY DEF Request, idVars, pageVars
<1> QED
    BY <1>5, <1>6 DEF Moves

LEMMA AnsweredMoves ==
    ASSUME QTyped, NEW t \in Tabs, Answered(t), store' \subseteq store
    PROVE  Moves
<1>1. /\ \A u \in Tabs : todo'[u] \subseteq todo[u]
      /\ \A u \in Tabs : sent'[u] # None => sent'[u] = sent[u]
    BY DEF Answered, QTyped, QTypeOK
<1>2. network' = network
    BY DEF Answered
<1>3. \A r \in Sendable' : r \in Sendable
    BY <1>1, <1>2, SendableMeans, SendableMeansNext
<1>4. issued' = issued /\ opened' = opened /\ chain' = chain /\ volatile' = volatile
    BY DEF Answered, idVars
<1> QED
    BY <1>3, <1>4 DEF Moves

LEMMA LeaveMoves ==
    ASSUME QTyped, NEW t \in Tabs, Leave(t),
           UNCHANGED <<store, network, issued, opened>>,
           \A u \in Tabs : chain'[u] = chain[u] \/ chain'[u] = None,
           \A u \in Tabs : volatile'[u] \subseteq volatile[u]
    PROVE  Moves
<1>1. /\ \A u \in Tabs : todo'[u] \subseteq todo[u]
      /\ \A u \in Tabs : sent'[u] # None => sent'[u] = sent[u]
    BY DEF Leave, QTyped, QTypeOK
<1>2. \A r \in Sendable' : r \in Sendable
    BY <1>1, SendableMeans, SendableMeansNext
<1> QED
    BY <1>2 DEF Moves

LEMMA ReloadMoves ==
    ASSUME QTyped, NEW t \in Tabs, Reload(t) PROVE Moves
<1>1. /\ \A u \in Tabs : chain'[u] = chain[u] \/ chain'[u] = None
      /\ \A u \in Tabs : volatile'[u] \subseteq volatile[u]
    BY DEF Reload, QTyped, QTypeOK
<1> QED
    BY <1>1, LeaveMoves DEF Reload, storageVars, idVars

LEMMA ServeMoves ==
    ASSUME QTyped, NEW q \in network, Serve(q) PROVE Moves /\ Receives
<1>1. network' \subseteq network /\ store' = store /\ todo' = todo /\ sent' = sent
    BY DEF Serve, storageVars
<1>2. \A r \in Sendable' : r \in Sendable
    BY <1>1, SendableMeans, SendableMeansNext
<1>3. Moves
    BY <1>2 DEF Moves, Serve, idVars, pageVars
<1>4. q.record \in Sendable
    BY SendableMeans
<1>5. Receives
    <2>1. ApplyMediaOperation(q.record.operation)
        BY DEF Serve
    <2>2. CASE Commit(q.record.operation)
        BY <1>4, <2>2 DEF Commit, NewReceipt, Receives
    <2>3. CASE receipts' = receipts
        BY <2>3 DEF Receives
    <2> QED
        BY <2>1, <2>2, <2>3 DEF ApplyMediaOperation
<1> QED
    BY <1>3, <1>5

LEMMA SameReceipts == UNCHANGED receipts => Receives
    BY DEF Receives

\* The chain a save continues: that of its tab, or one of a session of its own.
Continues(t, c) ==
    \/ c = chain[t] /\ chain[t] # None /\ opened' = opened
    \/ /\ c.session \notin opened /\ opened' = opened \cup {c.session}
       /\ c.predecessor = None

Follows(t, session, sequence, predecessor) ==
    /\ chain'[t].session = session
    /\ chain'[t].sequence = sequence
    /\ chain'[t].predecessor = predecessor
    /\ \A u \in Tabs \ {t} : chain'[u] = chain[u]

\* A save of record r: it goes to localStorage or stays with its tab.
Saves(t, c, r) ==
    /\ r \in Stored
    /\ r.operation.id \notin issued
    /\ issued' = issued \cup {r.operation.id}
    /\ r.operation.session = c.session
    /\ r.operation.sequence = c.sequence + 1
    /\ r.operation.predecessor = c.predecessor
    /\ Follows(t, c.session, r.operation.sequence, r.operation.id)
    /\ \A x \in Sendable' : x \in Sendable \/ x = r
    /\ \/ volatile' = volatile
       \/ /\ r \notin Sendable'
          /\ volatile'[t] = volatile[t] \cup {r}
          /\ \A u \in Tabs \ {t} : volatile'[u] = volatile[u]

SavesNone(t, c) ==
    /\ issued' = issued
    /\ Follows(t, c.session, c.sequence, c.predecessor)
    /\ Sendable' = Sendable
    /\ volatile' = volatile

\* The copy of the row that a save is made on.
SavesOnBase(t, c) ==
    \/ \E p \in Patches : Enqueue(t, p) /\ Save(t, base[t], c, p)
    \/ FinishChoice(t) /\ Save(t, fetch[t].snapshot, c, fetch[t].patch)

\* A step that saves, for the tab and the chain it saves in.
SavingStep(t, c) ==
    /\ c \in Chain
    /\ SavesOnBase(t, c)
    /\ Continues(t, c)
    /\ UNCHANGED receipts
    /\ SavesNone(t, c) \/ \E r \in Stored : Saves(t, c, r)

\* No record that may be sent has an id that was never issued.
SendableIssued == \A r \in Sendable : r.operation.id \in issued

LEMMA MakesSaves ==
    ASSUME QTyped, SendableIssued, NEW t \in Tabs, NEW b \in Snapshot,
           NEW c \in Chain, NEW p \in Patches, NEW r \in Stored,
           Makes(t, b, c, p, r), UNCHANGED <<todo, sent, network>>
    PROVE  Saves(t, c, r)
<1>1. /\ Advance(c, p) \in Chain
      /\ Advance(c, p).session = c.session
      /\ Advance(c, p).sequence = c.sequence
      /\ Advance(c, p).predecessor = c.predecessor
    BY AdvanceType
<1>2. chain \in [Tabs -> Chain \cup {None}] /\ volatile \in [Tabs -> SUBSET Stored]
    BY DEF QTyped, QTypeOK
<1>3. /\ r.operation.session = c.session
      /\ r.operation.sequence = c.sequence + 1
      /\ r.operation.predecessor = c.predecessor
    BY <1>1 DEF Makes, NewOperation
<1>4. Follows(t, c.session, r.operation.sequence, r.operation.id)
    <2> DEFINE d == [Advance(c, p) EXCEPT !.sequence = r.operation.sequence,
                                          !.predecessor = r.operation.id]
    <2>1. /\ d.session = c.session
          /\ d.sequence = r.operation.sequence
          /\ d.predecessor = r.operation.id
        BY <1>1 DEF Chain
    <2>2. chain' = [chain EXCEPT ![t] = d]
        BY DEF Makes
    <2> HIDE DEF d
    <2> QED
        BY <1>2, <2>1, <2>2 DEF Follows
<1>5. store' = store \cup {r} \/ store' = store
    BY DEF Makes, Writes, Persist, PersistUnflagged, Retain
<1>6. \A x \in Sendable' : x \in Sendable \/ x = r
    BY <1>5, SendableMeans, SendableMeansNext
<1>7. \/ volatile' = volatile
      \/ /\ r \notin Sendable'
         /\ volatile'[t] = volatile[t] \cup {r}
         /\ \A u \in Tabs \ {t} : volatile'[u] = volatile[u]
    <2>1. CASE Persist(t, b, p, r) \/ PersistUnflagged(t, b, p, r)
        BY <2>1 DEF Persist, PersistUnflagged
    <2>2. CASE Retain(t, b, r)
        <3>1. Sendable' = Sendable
            BY <2>2 DEF Retain, Sendable, Planned, Carried, Awaited
        <3>2. r \notin Sendable
            BY DEF Makes, SendableIssued
        <3> QED
            BY <1>2, <2>2, <3>1, <3>2 DEF Retain
    <2> QED
        BY <2>1, <2>2 DEF Makes, Writes
<1> QED
    BY <1>3, <1>4, <1>6, <1>7 DEF Makes, Saves

LEMMA SaveShapes ==
    ASSUME QTyped, SendableIssued, NEW t \in Tabs, NEW b \in Snapshot,
           NEW c \in Chain, NEW p \in Patches, Save(t, b, c, p),
           UNCHANGED <<todo, sent, network>>
    PROVE  SavesNone(t, c) \/ \E r \in Stored : Saves(t, c, r)
<1>1. /\ Advance(c, p) \in Chain
      /\ Advance(c, p).session = c.session
      /\ Advance(c, p).sequence = c.sequence
      /\ Advance(c, p).predecessor = c.predecessor
    BY AdvanceType
<1>2. CASE MakesNone(t, b, c, p)
    <2>1. Sendable' = Sendable
        BY <1>2 DEF MakesNone, Sendable, Planned, Carried, Awaited
    <2>2. Follows(t, c.session, c.sequence, c.predecessor)
        BY <1>1, <1>2 DEF MakesNone, Follows, QTyped, QTypeOK
    <2> QED
        BY <1>2, <2>1, <2>2 DEF MakesNone, SavesNone
<1> QED
    BY <1>2, MakesSaves, SaveMeans

LEMMA NewChainMeans ==
    ASSUME NEW s \in Sessions
    PROVE  /\ NewChain(s) \in Chain
           /\ NewChain(s).session = s
           /\ NewChain(s).predecessor = None
    BY NewChainType DEF NewChain

LEMMA EnqueueSaves ==
    ASSUME QTyped, SendableIssued, NEW t \in Tabs, NEW p \in Patches, Enqueue(t, p)
    PROVE  \E c \in Chain : SavingStep(t, c) /\ Save(t, base[t], c, p)
<1>1. base[t] \in Snapshot
    BY DEF Enqueue, QTyped, QTypeOK
<1>2. UNCHANGED <<todo, sent, network>> /\ UNCHANGED receipts
    BY DEF Enqueue, serverVars
<1>3. CASE chain[t] # None
    <2>1. chain[t] \in Chain
        BY <1>3 DEF QTyped, QTypeOK
    <2>2. Continues(t, chain[t]) /\ Save(t, base[t], chain[t], p)
        BY <1>3 DEF Enqueue, Continues
    <2> QED
        BY <1>1, <1>2, <2>1, <2>2, SaveShapes DEF SavingStep, SavesOnBase
<1>4. CASE chain[t] = None
    <2>1. PICK s \in Sessions \ opened :
              /\ opened' = opened \cup {s}
              /\ Save(t, base[t], NewChain(s), p)
        BY <1>4 DEF Enqueue
    <2>2. NewChain(s) \in Chain /\ Continues(t, NewChain(s))
        BY <2>1, NewChainMeans DEF Continues
    <2> QED
        BY <1>1, <1>2, <2>1, <2>2, SaveShapes DEF SavingStep, SavesOnBase
<1> QED
    BY <1>3, <1>4

LEMMA FinishChoiceSaves ==
    ASSUME QTyped, SendableIssued, NEW t \in Tabs, FinishChoice(t)
    PROVE  \E c \in Chain : /\ SavingStep(t, c)
                            /\ Save(t, fetch[t].snapshot, c, fetch[t].patch)
<1>1. fetch[t].snapshot \in Snapshot /\ fetch[t].patch \in Patches
    BY DEF FinishChoice, QTyped, QTypeOK, Fetched
<1>2. UNCHANGED <<todo, sent, network>> /\ UNCHANGED receipts
    BY DEF FinishChoice, serverVars
<1>3. PICK s \in Sessions \ opened :
          /\ opened' = opened \cup {s}
          /\ Save(t, fetch[t].snapshot, NewChain(s), fetch[t].patch)
    BY DEF FinishChoice
<1>4. NewChain(s) \in Chain /\ Continues(t, NewChain(s))
    BY <1>3, NewChainMeans DEF Continues
<1> QED
    BY <1>1, <1>2, <1>3, <1>4, SaveShapes DEF SavingStep, SavesOnBase

\* Each step of the composition moves records along or saves one.
LEMMA QNextMoves ==
    ASSUME QTyped, SendableIssued, [QNext]_vars
    PROVE  \/ Moves /\ Receives
           \/ \E t \in Tabs : \E c \in Chain : SavingStep(t, c)
<1>1. ASSUME NEW t \in Tabs, TabNext(t)
      PROVE  (Moves /\ Receives) \/ \E c \in Chain : SavingStep(t, c)
    <2>1. UNCHANGED receipts
        BY <1>1, TabsLeaveServer DEF serverVars
    <2>2. Receives
        BY <2>1, SameReceipts
    <2>3. CASE \/ FetchSnapshot(t) \/ InstallSnapshot(t) \/ FetchEdition(t)
               \/ AdoptCachedBase(t) \/ RefuseHeartbeat(t) \/ LeaseHeld(t)
               \/ ExpireLease(t)
        BY <2>2, <2>3, NothingMoves
        DEF FetchSnapshot, InstallSnapshot, FetchEdition, AdoptCachedBase,
            RefuseHeartbeat, LeaseHeld, ExpireLease, storageVars, pageVars,
            replayVars, idVars
    <2>4. ASSUME NEW p \in Patches, BeginChoice(t, p) PROVE Moves
        BY <2>4, NothingMoves
        DEF BeginChoice, storageVars, replayVars, idVars
    <2>5. CASE Settle(t) \/ Quarantine(t)
        <3>1. Answered(t) /\ store' \subseteq store
            BY <2>5 DEF Settle, Quarantine
        <3> QED
            BY <2>2, <3>1, AnsweredMoves
    <2>6. CASE FinishReplay(t) \/ NoticeExpiry(t) \/ GiveUp(t)
        BY <2>2, <2>6, LeaveMoves
        DEF FinishReplay, NoticeExpiry, GiveUp, storageVars, pageVars, idVars
    <2> QED
        BY <1>1, <2>2, <2>3, <2>4, <2>5, <2>6, FlushMoves, AcquireMoves,
           CascadeMoves, RequestMoves, ReloadMoves, EnqueueSaves, FinishChoiceSaves
        DEF TabNext, ReplayStep
<1>2. CASE OtherWriters
    <2>1. UNCHANGED receipts
        BY <1>2, OtherWritersSteps
    <2> QED
        BY <1>2, <2>1, SameReceipts, NothingMoves
        DEF OtherWriters, storageVars, pageVars, replayVars, idVars
<1>3. CASE UNCHANGED vars
    BY <1>3, SameReceipts, NothingMoves
    DEF vars, serverVars, storageVars, pageVars, replayVars, idVars
<1> QED
    BY <1>1, <1>2, <1>3, ServeMoves DEF QNext

-----------------------------------------------------------------------------
(* Sessions are chains of operations, whoever holds their records.         *)

OneRecordPerId ==
    /\ \A r, q \in Records : r.operation.id = q.operation.id => r = q
    /\ \A x, y \in Operations : x.id = y.id => x = y

IdsAreIssued ==
    \A x \in Operations : /\ x.id \in issued
                          /\ x.predecessor \in issued \cup {None}
                          /\ x.session \in opened

\* An operation continues its predecessor, and a session has one root.
Chained ==
    /\ \A x, y \in Operations :
           x.predecessor = y.id =>
               x.session = y.session /\ x.sequence = y.sequence + 1
    /\ \A x, y \in Operations :
           (x.session = y.session /\ x.predecessor = None /\ y.predecessor = None)
               => x = y

\* What a tab saves next continues the last operation of its own session.
ChainContinues(t) ==
    chain[t] # None =>
        /\ chain[t].session \in opened
        /\ chain[t].predecessor \in issued \cup {None}
        /\ \A x \in Operations :
               /\ chain[t].predecessor = None => x.session # chain[t].session
               /\ chain[t].predecessor = x.id =>
                      /\ x.session = chain[t].session
                      /\ x.sequence = chain[t].sequence
        /\ \A u \in Tabs \ {t} :
               chain[u] # None => chain[u].session # chain[t].session

ChainsContinue == \A t \in Tabs : ChainContinues(t)

\* What a tab retains is nowhere else and the server has not heard of it.
HeldApart ==
    /\ \A r \in Held, q \in Sendable : r.operation.id # q.operation.id
    /\ \A r \in Held : r.operation.id \notin DOMAIN receipts
    /\ \A t, u \in Tabs : \A r \in volatile[t], q \in volatile[u] :
           r.operation.id = q.operation.id => t = u

QChained ==
    /\ OneRecordPerId /\ IdsAreIssued /\ Chained /\ ChainsContinue /\ HeldApart

LEMMA OperationsMean ==
    ASSUME NEW x
    PROVE  x \in Operations <=> \/ \E r \in Records : x = r.operation
                                \/ \E id \in DOMAIN receipts : x = receipts[id].envelope
    BY DEF Operations, Accounted

LEMMA HeldMeans ==
    ASSUME NEW r PROVE r \in Held <=> \E t \in Tabs : r \in volatile[t]
    BY DEF Held

LEMMA QInitOperations ==
    ASSUME QInit
    PROVE  /\ \A r : r \notin Records
           /\ \A x : x \notin Operations
<1>1. \A r : r \notin Sendable
    <2>1. store = {} /\ network = {}
        BY DEF QInit
    <2>2. \A t \in Tabs : todo[t] = {} /\ sent[t] = None /\ volatile[t] = {}
        BY DEF QInit
    <2> QED
        BY <2>1, <2>2, SendableMeans
<1>2. \A r : r \notin Held
    BY HeldMeans DEF QInit
<1>3. DOMAIN receipts = {}
    BY DEF QInit, Init
<1> QED
    BY <1>1, <1>2, <1>3, OperationsMean DEF Records

LEMMA QInitChained == QInit => QChained
<1> SUFFICES ASSUME QInit PROVE QChained
    OBVIOUS
<1>1. \A r : r \notin Records
    BY QInitOperations
<1>2. \A x : x \notin Operations
    BY QInitOperations
<1>3. OneRecordPerId /\ IdsAreIssued /\ Chained
    BY <1>1, <1>2 DEF OneRecordPerId, IdsAreIssued, Chained
<1>4. \A t \in Tabs : chain[t] = None /\ volatile[t] = {}
    BY DEF QInit
<1>5. ChainsContinue
    BY <1>4 DEF ChainsContinue, ChainContinues
<1>6. HeldApart
    BY <1>1, <1>4 DEF HeldApart, Records
<1> QED
    BY <1>3, <1>5, <1>6 DEF QChained

LEMMA MovesShrink ==
    ASSUME Moves, Receives
    PROVE  Records' \subseteq Records /\ Operations' \subseteq Operations
<1>1. ASSUME NEW r \in Held' PROVE r \in Held
    BY DEF Held, Moves
<1>2. ASSUME NEW r \in Sendable' PROVE r \in Records
    BY HeldMeans DEF Moves, Records
<1>3. Records' \subseteq Records
    BY <1>1, <1>2 DEF Records
<1>4. Sendable \subseteq Records
    BY DEF Records
<1>5. ASSUME NEW x \in Operations' PROVE x \in Operations
    <2>1. CASE \E r \in Records' : x = r.operation
        BY <1>3, <2>1, OperationsMean
    <2>2. CASE \E id \in DOMAIN receipts' : x = receipts'[id].envelope
        <3>1. PICK id \in DOMAIN receipts' : x = receipts'[id].envelope
            BY <2>2
        <3>2. CASE id \in DOMAIN receipts /\ receipts'[id] = receipts[id]
            BY <3>1, <3>2, OperationsMean
        <3>3. CASE \E r \in Sendable : receipts'[id].envelope = r.operation
            BY <1>4, <3>1, <3>3, OperationsMean
        <3> QED
            BY <3>2, <3>3 DEF Receives
    <2>3. (\E r \in Records' : x = r.operation)
              \/ \E id \in DOMAIN receipts' : x = receipts'[id].envelope
        BY DEF Operations, Accounted
    <2> QED
        BY <2>1, <2>2, <2>3
<1> QED
    BY <1>3, <1>5

LEMMA MovesKeepChained ==
    ASSUME QChained, Moves, Receives
    PROVE  QChained'
<1>1. Records' \subseteq Records /\ Operations' \subseteq Operations
    BY MovesShrink
<1>2. OneRecordPerId'
    BY <1>1 DEF QChained, OneRecordPerId
<1>3. IdsAreIssued'
    BY <1>1 DEF QChained, IdsAreIssued, Moves
<1>4. Chained'
    BY <1>1 DEF QChained, Chained
<1>5. ASSUME NEW t \in Tabs PROVE ChainContinues(t)'
    <2>1. CASE chain'[t] = None
        BY <2>1 DEF ChainContinues
    <2>2. CASE chain'[t] = chain[t] /\ chain[t] # None
        <3>1. ChainContinues(t)
            BY DEF QChained, ChainsContinue
        <3>2. \A u \in Tabs \ {t} :
                  chain'[u] # None => chain'[u].session # chain'[t].session
            BY <2>2, <3>1 DEF ChainContinues, Moves
        <3> QED
            BY <1>1, <2>2, <3>1, <3>2 DEF ChainContinues, Moves
    <2> QED
        BY <2>1, <2>2 DEF Moves
<1>6. HeldApart'
    <2>1. ASSUME NEW t \in Tabs, NEW r \in volatile'[t]
          PROVE  /\ \A q \in Sendable' : r.operation.id # q.operation.id
                 /\ r.operation.id \notin DOMAIN receipts'
        <3>1. r \in volatile[t] /\ r \in Held /\ r \in Records
            BY <2>1, HeldMeans DEF Moves, Records
        <3>2. ASSUME NEW q \in Sendable PROVE r.operation.id # q.operation.id
            BY <3>1 DEF QChained, HeldApart
        <3>3. ASSUME NEW u \in Tabs, NEW q \in volatile[u] \ volatile'[u]
              PROVE  r.operation.id # q.operation.id
            <4>1. q \in Records
                BY <3>3, HeldMeans DEF Records
            <4>2. CASE u = t
                BY <2>1, <3>1, <3>3, <4>1, <4>2 DEF QChained, OneRecordPerId
            <4>3. CASE u # t
                BY <3>1, <3>3, <4>3 DEF QChained, HeldApart
            <4> QED
                BY <4>2, <4>3
        <3>4. \A q \in Sendable' : r.operation.id # q.operation.id
            BY <3>2, <3>3 DEF Moves
        <3>5. r.operation.id \notin DOMAIN receipts'
            BY <3>1, <3>2 DEF QChained, HeldApart, Receives
        <3> QED
            BY <3>4, <3>5
    <2>2. \A t, u \in Tabs : \A r \in volatile'[t], q \in volatile'[u] :
              r.operation.id = q.operation.id => t = u
        BY DEF QChained, HeldApart, Moves
    <2>3. \A r \in Held' : \E t \in Tabs : r \in volatile'[t]
        BY DEF Held
    <2> QED
        BY <2>1, <2>2, <2>3 DEF HeldApart
<1> QED
    BY <1>2, <1>3, <1>4, <1>5, <1>6 DEF QChained, ChainsContinue

LEMMA SaveGrows ==
    ASSUME NEW t \in Tabs, NEW c, NEW r, Saves(t, c, r), UNCHANGED receipts
    PROVE  /\ \A q \in Records' : q \in Records \/ q = r
           /\ \A x \in Operations' : x \in Operations \/ x = r.operation
<1>1. ASSUME NEW q \in Held' PROVE q \in Held \/ q = r
    BY HeldMeans DEF Held, Saves
<1>2. \A q \in Records' : q \in Records \/ q = r
    BY <1>1 DEF Records, Saves
<1>3. ASSUME NEW x \in Operations' PROVE x \in Operations \/ x = r.operation
    <2>1. (\E q \in Records' : x = q.operation)
              \/ \E id \in DOMAIN receipts : x = receipts[id].envelope
        BY DEF Operations, Accounted
    <2> QED
        BY <1>2, <2>1, OperationsMean
<1> QED
    BY <1>2, <1>3

\* A save continues its chain with an operation nobody else has.
LEMMA SaveKeepsChained ==
    ASSUME QServed, QChained, NEW t \in Tabs, NEW c \in Chain, NEW r \in Stored,
           Continues(t, c), UNCHANGED receipts, Saves(t, c, r)
    PROVE  QChained'
<1> DEFINE o == r.operation
<1>1. /\ \A q \in Records' : q \in Records \/ q = r
      /\ \A x \in Operations' : x \in Operations \/ x = o
    BY SaveGrows
<1>2. /\ o.id \notin issued /\ issued' = issued \cup {o.id}
      /\ o.session = c.session /\ o.sequence = c.sequence + 1
      /\ o.predecessor = c.predecessor
    BY DEF Saves
<1>3. /\ o.id # None /\ None \notin issued
      /\ \A x \in Operations : x.id \in issued /\ x.id # None
    <2>1. o.id \in OperationIds
        BY DEF Stored, Envelope
    <2>2. issued \subseteq OperationIds
        BY DEF QServed, QTyped, QTypeOK
    <2> QED
        BY <2>1, <2>2, OperationAssumption DEF QChained, IdsAreIssued
<1>4. \A q \in Records : q.operation \in Operations
    BY OperationsMean
<1>5. \A id \in DOMAIN receipts : id \in issued
    <2>1. ASSUME NEW id \in DOMAIN receipts PROVE receipts[id].envelope \in Operations
        BY OperationsMean
    <2> QED
        BY <1>3, <2>1 DEF QServed, Inductive, ReceiptsAreNamed
<1>6. /\ c.session \in opened' /\ opened \subseteq opened'
      /\ c.predecessor \in issued \cup {None}
      /\ \A x \in Operations :
            /\ c.predecessor = None => x.session # c.session
            /\ c.predecessor = x.id => x.session = c.session /\ x.sequence = c.sequence
      /\ \A u \in Tabs \ {t} : chain[u] # None => chain[u].session # c.session
    <2>1. CASE c = chain[t] /\ chain[t] # None /\ opened' = opened
        BY <2>1 DEF QChained, ChainsContinue, ChainContinues
    <2>2. CASE /\ c.session \notin opened /\ opened' = opened \cup {c.session}
               /\ c.predecessor = None
        <3>1. \A x \in Operations : x.session \in opened
            BY DEF QChained, IdsAreIssued
        <3>2. \A u \in Tabs : chain[u] # None => chain[u].session \in opened
            BY DEF QChained, ChainsContinue, ChainContinues
        <3> QED
            BY <1>3, <2>2, <3>1, <3>2
    <2> QED
        BY <2>1, <2>2 DEF Continues
<1> HIDE DEF o
<1>7. OneRecordPerId'
    <2>1. \A q \in Records : q.operation.id # r.operation.id
        BY <1>2, <1>3, <1>4 DEF o
    <2>2. \A q, v \in Records' : q.operation.id = v.operation.id => q = v
        BY <1>1, <2>1 DEF QChained, OneRecordPerId
    <2>3. \A x, y \in Operations' : x.id = y.id => x = y
        BY <1>1, <1>2, <1>3 DEF QChained, OneRecordPerId
    <2> QED
        BY <2>2, <2>3 DEF OneRecordPerId
<1>8. IdsAreIssued'
    BY <1>1, <1>2, <1>6 DEF QChained, IdsAreIssued
<1>9. Chained'
    <2>1. ASSUME NEW x \in Operations', NEW y \in Operations', x.predecessor = y.id
          PROVE  x.session = y.session /\ x.sequence = y.sequence + 1
        <3>1. CASE x \in Operations /\ y \in Operations
            BY <2>1, <3>1 DEF QChained, Chained
        <3>2. CASE x = o /\ y \in Operations
            BY <1>2, <1>6, <2>1, <3>2
        <3>3. CASE x \in Operations /\ y = o
            BY <1>2, <1>3, <2>1, <3>3 DEF QChained, IdsAreIssued
        <3>4. CASE x = o /\ y = o
            BY <1>2, <1>3, <1>6, <2>1, <3>4
        <3> QED
            BY <1>1, <3>1, <3>2, <3>3, <3>4
    <2>2. ASSUME NEW x \in Operations', NEW y \in Operations',
                 x.session = y.session, x.predecessor = None, y.predecessor = None
          PROVE  x = y
        <3>1. CASE x \in Operations /\ y \in Operations
            BY <2>2, <3>1 DEF QChained, Chained
        <3>2. CASE x = o /\ y \in Operations
            BY <1>2, <1>6, <2>2, <3>2
        <3>3. CASE x \in Operations /\ y = o
            BY <1>2, <1>6, <2>2, <3>3
        <3> QED
            BY <1>1, <3>1, <3>2, <3>3
    <2> QED
        BY <2>1, <2>2 DEF Chained
<1>10. /\ chain'[t].session = c.session
       /\ chain'[t].sequence = o.sequence
       /\ chain'[t].predecessor = o.id
       /\ \A u \in Tabs \ {t} : chain'[u] = chain[u]
    BY DEF Saves, Follows, o
<1>11. ChainContinues(t)'
    <2>1. \A x \in Operations' : o.id = x.id => x = o
        BY <1>1, <1>2, <1>3
    <2>2. \A u \in Tabs \ {t} :
              chain'[u] # None => chain'[u].session # chain'[t].session
        BY <1>6, <1>10
    <2>3. chain'[t].session \in opened' /\ chain'[t].predecessor \in issued'
        BY <1>2, <1>6, <1>10
    <2>4. \A x \in Operations' :
              /\ chain'[t].predecessor # None
              /\ chain'[t].predecessor = x.id =>
                     x.session = chain'[t].session /\ x.sequence = chain'[t].sequence
        BY <1>2, <1>3, <1>10, <2>1
    <2> QED
        BY <2>2, <2>3, <2>4 DEF ChainContinues
<1>12. ASSUME NEW u \in Tabs \ {t} PROVE ChainContinues(u)'
    <2>1. ChainContinues(u) /\ chain'[u] = chain[u]
        BY <1>10 DEF QChained, ChainsContinue
    <2>2. CASE chain[u] = None
        BY <2>1, <2>2 DEF ChainContinues
    <2>3. CASE chain[u] # None
        <3>1. chain[u].session # c.session
            BY <1>6, <2>3
        <3>2. /\ chain[u].session \in opened'
              /\ chain[u].predecessor \in issued' \cup {None}
            BY <1>2, <1>6, <2>1, <2>3 DEF ChainContinues
        <3>3. ASSUME NEW x \in Operations'
              PROVE  /\ chain[u].predecessor = None => x.session # chain[u].session
                     /\ chain[u].predecessor = x.id =>
                            /\ x.session = chain[u].session
                            /\ x.sequence = chain[u].sequence
            <4>1. CASE x \in Operations
                BY <2>1, <2>3, <4>1 DEF ChainContinues
            <4>2. CASE x = o
                BY <1>2, <1>3, <2>1, <2>3, <3>1, <4>2 DEF ChainContinues
            <4> QED
                BY <1>1, <4>1, <4>2
        <3>4. \A v \in Tabs \ {u} :
                  chain'[v] # None => chain'[v].session # chain[u].session
            BY <1>10, <2>1, <2>3, <3>1 DEF ChainContinues
        <3> QED
            BY <2>1, <3>2, <3>3, <3>4 DEF ChainContinues
    <2> QED
        BY <2>2, <2>3
<1>13. HeldApart'
    <2>1. \A q \in Records : q.operation.id # r.operation.id
        BY <1>2, <1>3, <1>4 DEF o
    <2>2. r.operation.id \notin DOMAIN receipts
        BY <1>2, <1>5 DEF o
    <2>3. Held \subseteq Records /\ Sendable \subseteq Records
        BY DEF Records
    <2>4. CASE volatile' = volatile
        <3>1. Held' = Held
            BY <2>4 DEF Held
        <3>2. \A q \in Sendable' : q \in Sendable \/ q = r
            BY DEF Saves
        <3> QED
            BY <2>1, <2>3, <2>4, <3>1, <3>2 DEF QChained, HeldApart
    <2>5. CASE /\ r \notin Sendable'
               /\ volatile'[t] = volatile[t] \cup {r}
               /\ \A u \in Tabs \ {t} : volatile'[u] = volatile[u]
        <3>1. \A q \in Held' : q \in Held \/ q = r
            BY <2>5, HeldMeans DEF Held
        <3>2. \A q \in Sendable' : q \in Sendable
            BY <2>5 DEF Saves
        <3>3. \A u \in Tabs : \A q \in volatile[u] : q \in Records
            BY <2>3, HeldMeans
        <3>4. \A u, v \in Tabs : \A q \in volatile'[u], w \in volatile'[v] :
                  q.operation.id = w.operation.id => u = v
            BY <2>1, <2>5, <3>3 DEF QChained, HeldApart
        <3> QED
            BY <2>1, <2>2, <2>3, <3>1, <3>2, <3>4 DEF QChained, HeldApart
    <2> QED
        BY <2>4, <2>5 DEF Saves
<1> QED
    BY <1>7, <1>8, <1>9, <1>11, <1>12, <1>13 DEF QChained, ChainsContinue

LEMMA SaveNoneKeepsChained ==
    ASSUME QServed, QChained, NEW t \in Tabs, NEW c \in Chain,
           Continues(t, c), UNCHANGED receipts, SavesNone(t, c)
    PROVE  QChained'
<1>1. /\ issued' = issued /\ Sendable' = Sendable /\ volatile' = volatile
      /\ opened \subseteq opened'
    BY DEF SavesNone, Continues
<1>2. Held' = Held /\ Records' = Records /\ Operations' = Operations
    BY <1>1 DEF Held, Records, Operations, Accounted
<1>3. OneRecordPerId' /\ IdsAreIssued' /\ Chained' /\ HeldApart'
    BY <1>1, <1>2
    DEF QChained, OneRecordPerId, IdsAreIssued, Chained, HeldApart
<1>4. /\ chain'[t].session = c.session
      /\ chain'[t].sequence = c.sequence
      /\ chain'[t].predecessor = c.predecessor
      /\ \A u \in Tabs \ {t} : chain'[u] = chain[u]
    BY DEF SavesNone, Follows
<1>5. CASE c = chain[t] /\ chain[t] # None /\ opened' = opened
    <2>1. ASSUME NEW u \in Tabs PROVE ChainContinues(u)'
        <3>1. ChainContinues(u)
            BY DEF QChained, ChainsContinue
        <3>2. /\ chain'[u].session = chain[u].session
              /\ chain'[u].sequence = chain[u].sequence
              /\ chain'[u].predecessor = chain[u].predecessor
              /\ chain'[u] # None => chain[u] # None
            BY <1>4, <1>5
        <3>3. \A v \in Tabs \ {u} :
                  /\ chain'[v].session = chain[v].session
                  /\ chain'[v] # None => chain[v] # None
            BY <1>4, <1>5
        <3> QED
            BY <1>1, <1>2, <1>5, <3>1, <3>2, <3>3 DEF ChainContinues
    <2> QED
        BY <1>3, <2>1 DEF QChained, ChainsContinue
<1>6. CASE /\ c.session \notin opened /\ opened' = opened \cup {c.session}
           /\ c.predecessor = None
    <2>1. \A x \in Operations : x.session \in opened /\ x.id # None
        <3>1. issued \subseteq OperationIds
            BY DEF QServed, QTyped, QTypeOK
        <3> QED
            BY <3>1, OperationAssumption DEF QChained, IdsAreIssued
    <2>2. \A u \in Tabs : chain[u] # None => chain[u].session \in opened
        BY DEF QChained, ChainsContinue, ChainContinues
    <2>3. ChainContinues(t)'
        BY <1>1, <1>2, <1>4, <1>6, <2>1, <2>2 DEF ChainContinues
    <2>4. ASSUME NEW u \in Tabs \ {t} PROVE ChainContinues(u)'
        <3>1. ChainContinues(u) /\ chain'[u] = chain[u]
            BY <1>4 DEF QChained, ChainsContinue
        <3>2. \A v \in Tabs \ {u} : chain[u] # None =>
                  (chain'[v] # None => chain'[v].session # chain[u].session)
            BY <1>4, <1>6, <2>2, <3>1 DEF ChainContinues
        <3> QED
            BY <1>1, <1>2, <3>1, <3>2 DEF ChainContinues
    <2> QED
        BY <1>3, <2>3, <2>4 DEF QChained, ChainsContinue
<1> QED
    BY <1>5, <1>6 DEF Continues

LEMMA QNextChained == QServed /\ QChained /\ [QNext]_vars => QChained'
<1> SUFFICES ASSUME QServed, QChained, [QNext]_vars PROVE QChained'
    OBVIOUS
<1>1. SendableIssued
    <2>1. \A r \in Sendable : r.operation \in Operations
        BY OperationsMean DEF Records
    <2> QED
        BY <2>1 DEF SendableIssued, QChained, IdsAreIssued
<1>2. CASE Moves /\ Receives
    BY <1>2, MovesKeepChained
<1>3. ASSUME NEW t \in Tabs, NEW c \in Chain, SavingStep(t, c) PROVE QChained'
    BY <1>3, SaveKeepsChained, SaveNoneKeepsChained DEF SavingStep
<1> QED
    BY <1>1, <1>2, <1>3, QNextMoves DEF QServed

LEMMA QChainedHolds == QSpec => [](QServed /\ QChained)
    BY QInitServed, QNextServed, QInitChained, QNextChained, PTL DEF QSpec

\* What a tab could not persist was never sent, and the queue is well formed.
THEOREM PersistsBeforeSending == QSpec => []SentAsPersisted
<1>1. QServed /\ QChained => SentAsPersisted
    <2> SUFFICES ASSUME QServed, QChained PROVE PersistedBeforeSent
        BY DEF QServed, QTyped, SentAsPersisted
    <2>1. ASSUME NEW t \in Tabs, NEW r \in volatile[t]
          PROVE  /\ r.operation.id \notin DOMAIN receipts
                 /\ \A q \in network : q.record.operation.id # r.operation.id
        <3>1. r \in Held
            BY HeldMeans
        <3>2. \A q \in network : q.record \in Sendable
            BY SendableMeans
        <3> QED
            BY <3>1, <3>2 DEF QChained, HeldApart
    <2> QED
        BY <2>1 DEF PersistedBeforeSent, Ids
<1> QED
    BY <1>1, QChainedHolds, PTL

\* Only a POST on its way is ever accepted.
LEMMA QNextAccepts ==
    ASSUME QTyped, [QNext]_vars
    PROVE  \/ receipts' = receipts
           \/ \E q \in network : /\ Operates(q.record.operation)
                                 /\ Outcome(q.record.operation) = "accept"
                                 /\ q.record.operation \in Envelope
                                 /\ q.record.operation \in Operations
<1>1. ASSUME NEW q \in network, Serve(q)
      PROVE  \/ receipts' = receipts
             \/ /\ Operates(q.record.operation)
                /\ Outcome(q.record.operation) = "accept"
                /\ q.record.operation \in Envelope
                /\ q.record.operation \in Operations
    <2>1. q.record.operation \in Envelope
        BY <1>1, ServeSteps
    <2>2. ApplyMediaOperation(q.record.operation)
        BY <1>1 DEF Serve
    <2>3. q.record \in Records
        BY SendableMeans DEF Records
    <2> QED
        BY <2>1, <2>2, <2>3, ApplyShapes, OperationsMean DEF ApplyMediaOperation
<1>2. CASE UNCHANGED serverVars
    BY <1>2 DEF serverVars
<1>3. CASE UNCHANGED vars
    BY <1>2, <1>3 DEF vars
<1> QED
    BY <1>1, <1>2, <1>3, TabsLeaveServer, OtherWritersSteps DEF QNext

\* The revision and the place in its session of an accepted operation, against
\* those of every earlier one.
LEMMA AcceptedInOrder ==
    ASSUME QServed, QChained, SessionsApplyInOrder,
           NEW o \in Envelope, o \in Operations, Operates(o),
           NEW a \in DOMAIN receipts, receipts[a].envelope.session = o.session
    PROVE  row.revision + 1 - receipts[a].revision
               = o.sequence - receipts[a].envelope.sequence
<1>1. /\ o.id \notin DOMAIN receipts
      /\ PredecessorAccepted(o) /\ Base(o) = row.revision
    BY DEF Operates, Accepted
<1>2. \A id \in DOMAIN receipts :
          /\ receipts[id].envelope \in Operations
          /\ receipts[id].envelope.id = id
    BY OperationsMean DEF QServed, Inductive, ReceiptsAreNamed
<1>3. CASE o.predecessor = None
    <2>1. PICK root \in DOMAIN receipts :
              /\ receipts[root].envelope.session = o.session
              /\ receipts[root].envelope.predecessor = None
        BY DEF QServed, Inductive, SessionsHaveRoots
    <2>2. receipts[root].envelope = o
        BY <1>2, <1>3, <2>1 DEF QChained, Chained
    <2> QED
        BY <1>1, <1>2, <2>2
<1>4. CASE o.predecessor # None
    <2> DEFINE p == o.predecessor
    <2>1. /\ p \in DOMAIN receipts
          /\ receipts[p].envelope.session = o.session
          /\ receipts[p].revision = row.revision
        BY <1>1, <1>4 DEF PredecessorAccepted, ChainsTo, Base
    <2>2. o.sequence = receipts[p].envelope.sequence + 1
        BY <1>2, <2>1 DEF QChained, Chained
    <2>3. receipts[p].revision - receipts[a].revision
              = receipts[p].envelope.sequence - receipts[a].envelope.sequence
        BY <2>1 DEF SessionsApplyInOrder
    <2>4. \A id \in DOMAIN receipts : /\ receipts[id].revision \in Nat
                                     /\ receipts[id].envelope.sequence \in Nat
        BY DEF QServed, Inductive, TypeOK, Receipt, Envelope
    <2> HIDE DEF p
    <2> QED
        BY <2>1, <2>2, <2>3, <2>4
<1> QED
    BY <1>3, <1>4

LEMMA QNextInOrder ==
    QServed /\ QChained /\ SessionsApplyInOrder /\ [QNext]_vars => SessionsApplyInOrder'
<1> SUFFICES ASSUME QServed, QChained, SessionsApplyInOrder, [QNext]_vars
             PROVE  SessionsApplyInOrder'
    OBVIOUS
<1>1. CASE receipts' = receipts
    BY <1>1 DEF SessionsApplyInOrder
<1>2. ASSUME NEW o \in Envelope, o \in Operations, Operates(o)
      PROVE  SessionsApplyInOrder'
    <2>1. /\ DOMAIN receipts' = DOMAIN receipts \cup {o.id}
          /\ \A id \in DOMAIN receipts : receipts'[id] = receipts[id]
          /\ receipts'[o.id].revision = row.revision + 1
          /\ receipts'[o.id].envelope = o
        <3>1. TypeOK
            BY DEF QServed, Inductive
        <3>2. /\ DOMAIN receipts' = DOMAIN receipts \cup {o.id}
              /\ \A id \in DOMAIN receipts : receipts'[id] = receipts[id]
              /\ receipts'[o.id] = NewReceipt(o)
            BY <1>2, <3>1, OperatesEffect
        <3> QED
            BY <3>2 DEF NewReceipt
    <2>2. \A id \in DOMAIN receipts : /\ receipts[id].revision \in Nat
                                     /\ receipts[id].envelope.sequence \in Nat
        BY DEF QServed, Inductive, TypeOK, Receipt, Envelope
    <2>3. row.revision \in Nat /\ o.sequence \in Nat
        BY DEF QServed, Inductive, TypeOK, Row, Envelope
    <2>4. ASSUME NEW a \in DOMAIN receipts, receipts[a].envelope.session = o.session
          PROVE  row.revision + 1 - receipts[a].revision
                     = o.sequence - receipts[a].envelope.sequence
        BY <1>2, <2>4, AcceptedInOrder
    <2>5. ASSUME NEW a \in DOMAIN receipts', NEW b \in DOMAIN receipts',
                 receipts'[a].envelope.session = receipts'[b].envelope.session
          PROVE  receipts'[b].revision - receipts'[a].revision
                     = receipts'[b].envelope.sequence - receipts'[a].envelope.sequence
        <3>1. CASE a \in DOMAIN receipts /\ b \in DOMAIN receipts
            BY <2>1, <2>5, <3>1 DEF SessionsApplyInOrder
        <3>2. CASE a \in DOMAIN receipts /\ b = o.id
            <4>1. receipts'[a] = receipts[a]
                BY <2>1, <3>2
            <4>2. /\ receipts'[b].revision = row.revision + 1
                  /\ receipts'[b].envelope = o
                BY <2>1, <3>2
            <4>3. receipts[a].envelope.session = o.session
                BY <2>5, <4>1, <4>2
            <4>4. row.revision + 1 - receipts[a].revision
                      = o.sequence - receipts[a].envelope.sequence
                BY <2>4, <3>2, <4>3
            <4> QED
                BY <2>2, <2>3, <3>2, <4>1, <4>2, <4>4
        <3>3. CASE a = o.id /\ b \in DOMAIN receipts
            BY <2>1, <2>2, <2>3, <2>4, <2>5, <3>3
        <3>4. CASE a = o.id /\ b = o.id
            BY <2>1, <2>3, <3>4
        <3> QED
            BY <2>1, <3>1, <3>2, <3>3, <3>4
    <2> QED
        BY <2>5 DEF SessionsApplyInOrder
<1> QED
    BY <1>1, <1>2, QNextAccepts DEF QServed

\* A session's operations take effect in the order they were saved, as one
\* unbroken run of revisions.
THEOREM SessionsStayInOrder == QSpec => []SessionsApplyInOrder
<1>1. QInit => SessionsApplyInOrder
    BY DEF QInit, Init, SessionsApplyInOrder
<1> QED
    BY <1>1, QNextInOrder, QChainedHolds, PTL DEF QSpec

-----------------------------------------------------------------------------
(* What a tab believes of the row.                                         *)

\* Copy b of the row is not ahead of the server, and right where it is of the
\* current revision.
Agrees(b, last, current) ==
    /\ b.revision <= last.revision
    /\ b.generation <= current
    /\ b.revision = last.revision =>
           /\ b.reset = last.reset
           /\ b.finished = last.finished
           /\ b.deleted = last.deleted

Beliefs ==
    /\ cached # None => Agrees(cached, row, generation)
    /\ \A t \in Tabs : base[t] # None => Agrees(base[t], row, generation)
    /\ \A t \in Tabs : fetch[t] # None => Agrees(fetch[t].snapshot, row, generation)

\* An operation was made on a revision and a timeline the server had reached.
Behind ==
    \A x \in Operations : /\ WellFormed(x)
                          /\ x.base <= row.revision
                          /\ x.generation <= generation

LEMMA ServerGrows ==
    ASSUME QServed, [QNext]_vars
    PROVE  /\ row.revision \in Nat /\ row'.revision \in Nat
           /\ generation \in Nat /\ generation' \in Nat
           /\ row.revision <= row'.revision /\ generation <= generation'
           /\ row'.revision = row.revision => UNCHANGED <<row, receipts>>
           /\ generation' = generation => files' = files
           /\ Grows
<1>1. TypeOK
    BY DEF QServed, Inductive
<1>2. ServerStep /\ TimelineStep
    BY QNextSteps DEF QServed
<1>3. Grows
    BY <1>1, <1>2, StepGrows DEF ServerStep
<1>4. row.revision \in Nat /\ generation \in Nat
    BY <1>1 DEF TypeOK, Row
<1>5. /\ row'.revision \in Nat
      /\ row.revision <= row'.revision
      /\ row'.revision = row.revision => UNCHANGED <<row, receipts>>
    BY <1>3, <1>4 DEF Grows
<1>6. /\ generation' \in Nat
      /\ generation <= generation'
      /\ generation' = generation => files' = files
    BY <1>2, <1>4 DEF TimelineStep
<1> QED
    BY <1>3, <1>4, <1>5, <1>6

\* A copy stays right, or is left behind.
LEMMA AgreesStays ==
    ASSUME QServed, [QNext]_vars, NEW b \in Snapshot, Agrees(b, row, generation)
    PROVE  Agrees(b, row', generation')
<1>1. b.revision \in Nat /\ b.generation \in Nat
    BY DEF Snapshot
<1> QED
    BY <1>1, ServerGrows DEF Agrees

LEMMA SnapshotAgrees ==
    ASSUME TypeOK
    PROVE  Agrees(MediaSnapshot, row, generation) /\ Agrees(Edition, row, generation)
<1>1. row.revision \in Nat /\ generation \in Nat
    BY DEF TypeOK, Row
<1>2. /\ MediaSnapshot.revision = row.revision
      /\ MediaSnapshot.generation = generation
      /\ MediaSnapshot.reset = row.reset
      /\ MediaSnapshot.finished = row.finished
      /\ MediaSnapshot.deleted = row.deleted
    BY DEF MediaSnapshot
<1>3. /\ Edition.revision = MediaSnapshot.revision
      /\ Edition.generation = MediaSnapshot.generation
      /\ Edition.reset = MediaSnapshot.reset
      /\ Edition.finished = MediaSnapshot.finished
      /\ Edition.deleted = MediaSnapshot.deleted
    BY DEF Edition, MediaSnapshot
<1> QED
    BY <1>1, <1>2, <1>3 DEF Agrees

\* The base a receipt leaves is right: if nothing was written since, the row is
\* what the operation made of it.
LEMMA AcknowledgedAgrees ==
    ASSUME QServed, NEW b \in Snapshot, NEW o \in Envelope,
           o.id \in DOMAIN receipts, receipts[o.id].envelope = o,
           Agrees(b, row, generation)
    PROVE  Agrees(Acknowledged(b, o), row, generation)
<1> DEFINE a == Acknowledged(b, o)
<1>1. TypeOK /\ OneWritePerReceipt /\ LastWriteIsNamed /\ ProvenanceIsOfTheRow
    BY DEF QServed, Inductive
<1>2. /\ a.generation = b.generation
      /\ a.revision = receipts[o.id].revision
      /\ a.reset = receipts[o.id].reset
      /\ a.finished = o.finished
      /\ a.deleted = (o.intent = "reset")
    BY <1>1, AcknowledgedType
<1>3. row.revision \in Nat /\ row.deleted \in BOOLEAN /\ row.operation \in OperationIds \cup {None}
    BY <1>1 DEF TypeOK, Row
<1>4. a.revision <= row.revision
    BY <1>1, <1>2, <1>3 DEF OneWritePerReceipt
<1>5. ASSUME a.revision = row.revision
      PROVE  a.reset = row.reset /\ a.finished = row.finished /\ a.deleted = row.deleted
    <2>1. row.operation = o.id /\ o.id # None
        BY <1>1, <1>2, <1>5, OperationAssumption DEF LastWriteIsNamed, Envelope
    <2>2. /\ receipts[o.id].reset = row.reset
          /\ o.finished = row.finished
          /\ IF o.intent = "reset" THEN row.deleted ELSE ~row.deleted
        BY <1>1, <2>1 DEF ProvenanceIsOfTheRow
    <2> QED
        BY <1>2, <1>3, <2>2
<1>6. Agrees(a, row, generation)
    <2> HIDE DEF a
    <2> QED
        BY <1>2, <1>4, <1>5 DEF Agrees
<1> QED
    BY <1>6

LEMMA BeliefsKept ==
    ASSUME Beliefs, UNCHANGED <<row, generation>>, NEW t \in Tabs,
           cached' = cached \/ Agrees(cached', row, generation),
           base'[t] = base[t] \/ base'[t] = None \/ Agrees(base'[t], row, generation),
           \/ fetch'[t] = fetch[t]
           \/ fetch'[t] = None
           \/ Agrees(fetch'[t].snapshot, row, generation),
           \A u \in Tabs \ {t} : base'[u] = base[u] /\ fetch'[u] = fetch[u]
    PROVE  Beliefs'
    BY DEF Beliefs

LEMMA FetchesBelieve ==
    ASSUME QTyped, Beliefs, NEW t \in Tabs,
           FetchSnapshot(t) \/ FetchEdition(t) \/ \E p \in Patches : BeginChoice(t, p)
    PROVE  Beliefs'
<1>1. UNCHANGED <<row, generation, cached, base>>
    BY DEF FetchSnapshot, FetchEdition, BeginChoice, serverVars, storageVars
<1>2. /\ fetch'[t].snapshot \in {MediaSnapshot, Edition}
      /\ \A u \in Tabs \ {t} : fetch'[u] = fetch[u]
    BY DEF FetchSnapshot, FetchEdition, BeginChoice, QTyped, QTypeOK
<1>3. Agrees(fetch'[t].snapshot, row, generation)
    BY <1>2, SnapshotAgrees DEF QTyped, QTypeOK
<1> QED
    BY <1>1, <1>2, <1>3, BeliefsKept

LEMMA InstallsBelieve ==
    ASSUME QTyped, Beliefs, NEW t \in Tabs, NEW b \in Snapshot, Install(t, b),
           Agrees(b, row, generation), UNCHANGED <<row, generation>>,
           fetch'[t] = fetch[t] \/ fetch'[t] = None,
           \A u \in Tabs \ {t} : fetch'[u] = fetch[u]
    PROVE  Beliefs'
<1>1. /\ base'[t] = b /\ cached' = b
      /\ \A u \in Tabs \ {t} : base'[u] = base[u]
    BY DEF Install, QTyped, QTypeOK
<1>2. /\ Agrees(base'[t], row, generation)
      /\ Agrees(cached', row, generation)
    BY <1>1
<1> QED
    BY <1>1, <1>2, BeliefsKept

LEMMA BasesBelieve ==
    ASSUME QTyped, Beliefs, NEW t \in Tabs,
           InstallSnapshot(t) \/ AdoptCachedBase(t)
    PROVE  Beliefs'
<1>1. CASE InstallSnapshot(t)
    <2> DEFINE b == fetch[t].snapshot
    <2>1. b \in Snapshot /\ Agrees(b, row, generation)
        BY <1>1 DEF InstallSnapshot, Beliefs, QTyped, QTypeOK, Fetched
    <2>2. /\ Install(t, b) /\ UNCHANGED <<row, generation>>
          /\ fetch' = [fetch EXCEPT ![t] = None]
        BY <1>1 DEF InstallSnapshot, serverVars
    <2>3. fetch'[t] = None /\ \A u \in Tabs \ {t} : fetch'[u] = fetch[u]
        BY <2>2 DEF QTyped, QTypeOK
    <2> HIDE DEF b
    <2> QED
        BY <2>1, <2>2, <2>3, InstallsBelieve
<1>2. CASE AdoptCachedBase(t)
    <2>1. UNCHANGED <<row, generation, cached, fetch>> /\ cached # None
        BY <1>2 DEF AdoptCachedBase, serverVars, storageVars
    <2>2. base'[t] = cached /\ \A u \in Tabs \ {t} : base'[u] = base[u]
        BY <1>2 DEF AdoptCachedBase, QTyped, QTypeOK
    <2>3. Agrees(base'[t], row, generation)
        BY <2>1, <2>2 DEF Beliefs
    <2> QED
        BY <2>1, <2>2, <2>3, BeliefsKept
<1> QED
    BY <1>1, <1>2

\* A save leaves the base it was made on, at most marked as settled.
LEMMA SaveBase ==
    ASSUME QTyped, NEW t \in Tabs, NEW b \in Snapshot, NEW c \in Chain,
           NEW p \in Patches, Save(t, b, c, p)
    PROVE  /\ \E d \in Snapshot :
                  /\ base'[t] = d
                  /\ d.revision = b.revision /\ d.generation = b.generation
                  /\ d.reset = b.reset /\ d.finished = b.finished
                  /\ d.deleted = b.deleted
           /\ \A u \in Tabs \ {t} : base'[u] = base[u]
<1>1. ASSUME NEW d \in Snapshot, base' = [base EXCEPT ![t] = d]
      PROVE  base'[t] = d /\ \A u \in Tabs \ {t} : base'[u] = base[u]
    BY <1>1 DEF QTyped, QTypeOK
<1>2. CASE MakesNone(t, b, c, p)
    BY <1>1, <1>2 DEF MakesNone
<1>3. ASSUME NEW r \in Stored, Makes(t, b, c, p, r)
      PROVE  \E d \in Snapshot :
                 /\ base' = [base EXCEPT ![t] = d]
                 /\ d.revision = b.revision /\ d.generation = b.generation
                 /\ d.reset = b.reset /\ d.finished = b.finished
                 /\ d.deleted = b.deleted
    <2>1. CASE Persist(t, b, p, r)
        <3> DEFINE d == [b EXCEPT !.conflict = b.conflict /\ ~Explicit(p.intent)]
        <3>1. /\ d \in Snapshot
              /\ d.revision = b.revision /\ d.generation = b.generation
              /\ d.reset = b.reset /\ d.finished = b.finished
              /\ d.deleted = b.deleted
            BY DEF Snapshot
        <3>2. base' = [base EXCEPT ![t] = d]
            BY <2>1 DEF Persist
        <3> HIDE DEF d
        <3> QED
            BY <3>1, <3>2
    <2>2. CASE PersistUnflagged(t, b, p, r) \/ Retain(t, b, r)
        BY <2>2 DEF PersistUnflagged, Retain
    <2> QED
        BY <1>3, <2>1, <2>2 DEF Makes, Writes
<1> QED
    BY <1>1, <1>2, <1>3, SaveMeans

LEMMA SaveBelieves ==
    ASSUME QTyped, Beliefs, NEW t \in Tabs, NEW b \in Snapshot, NEW c \in Chain,
           NEW p \in Patches, Save(t, b, c, p), Agrees(b, row, generation),
           UNCHANGED <<row, generation>>,
           cached' = cached \/ cached' = b,
           fetch'[t] = fetch[t] \/ fetch'[t] = None,
           \A u \in Tabs \ {t} : fetch'[u] = fetch[u]
    PROVE  Beliefs'
<1>1. \A u \in Tabs \ {t} : base'[u] = base[u]
    BY SaveBase
<1>2. Agrees(base'[t], row, generation)
    BY SaveBase DEF Agrees
<1> QED
    BY <1>1, <1>2, BeliefsKept

LEMMA SavesBelieve ==
    ASSUME QServed, SendableIssued, Beliefs, NEW t \in Tabs,
           FinishChoice(t) \/ \E p \in Patches : Enqueue(t, p)
    PROVE  Beliefs'
<1>1. QTyped
    BY DEF QServed
<1>2. ASSUME NEW p \in Patches, Enqueue(t, p) PROVE Beliefs'
    <2>1. PICK c \in Chain : Save(t, base[t], c, p)
        BY <1>1, <1>2, EnqueueSaves
    <2>2. base[t] \in Snapshot /\ Agrees(base[t], row, generation)
        BY <1>1, <1>2 DEF Enqueue, QTyped, QTypeOK, Beliefs
    <2>3. UNCHANGED <<row, generation, cached, fetch>>
        BY <1>2 DEF Enqueue, serverVars
    <2> QED
        BY <1>1, <2>1, <2>2, <2>3, SaveBelieves
<1>3. CASE FinishChoice(t)
    <2> DEFINE b == fetch[t].snapshot
    <2>1. PICK c \in Chain : Save(t, b, c, fetch[t].patch)
        BY <1>1, <1>3, FinishChoiceSaves
    <2>2. b \in Snapshot /\ fetch[t].patch \in Patches /\ Agrees(b, row, generation)
        BY <1>1, <1>3 DEF FinishChoice, QTyped, QTypeOK, Beliefs, Fetched
    <2>3. UNCHANGED <<row, generation>> /\ cached' = b
        BY <1>3 DEF FinishChoice, serverVars
    <2>4. fetch'[t] = None /\ \A u \in Tabs \ {t} : fetch'[u] = fetch[u]
        BY <1>1, <1>3 DEF FinishChoice, QTyped, QTypeOK
    <2> HIDE DEF b
    <2> QED
        BY <1>1, <2>1, <2>2, <2>3, <2>4, SaveBelieves
<1> QED
    BY <1>2, <1>3

\* A request that is answered with a receipt is for that receipt's operation.
LEMMA AnsweredReceipt ==
    ASSUME QServed, QChained, NEW t \in Tabs, Answered(t),
           reply[t] \in {"accept", "receipt"}
    PROVE  /\ sent[t].record \in Sendable
           /\ sent[t].record.operation.id \in DOMAIN receipts
           /\ receipts[sent[t].record.operation.id].envelope = sent[t].record.operation
<1>1. sent[t].record \in Sendable /\ sent[t].record \in Records
    BY SendableMeans DEF Answered, Records
<1>2. sent[t].record.operation.id \in DOMAIN receipts
    BY DEF QServed, QTyped, ReceiptsAnswered
<1>3. /\ sent[t].record.operation \in Operations
      /\ receipts[sent[t].record.operation.id].envelope \in Operations
    BY <1>1, <1>2, OperationsMean
<1> QED
    BY <1>1, <1>2, <1>3
    DEF QChained, OneRecordPerId, QServed, Inductive, ReceiptsAreNamed

LEMMA SettleBelieves ==
    ASSUME QServed, QChained, Beliefs, NEW t \in Tabs, Settle(t)
    PROVE  Beliefs'
<1> DEFINE o == sent[t].record.operation
<1>1. Answered(t) /\ reply[t] \in {"accept", "receipt"}
    BY DEF Settle
<1>2. UNCHANGED <<row, generation, fetch>>
    BY <1>1 DEF Answered, serverVars
<1>3. CASE base[t] = None
    BY <1>2, <1>3, BeliefsKept DEF Settle
<1>4. CASE base[t] # None
    <2>1. o \in Envelope /\ o.id \in DOMAIN receipts /\ receipts[o.id].envelope = o
        BY <1>1, AnsweredTyped, AnsweredReceipt DEF QServed
    <2>2. base[t] \in Snapshot /\ Agrees(base[t], row, generation)
        BY <1>4 DEF QServed, QTyped, QTypeOK, Beliefs
    <2>3. Agrees(Acknowledged(base[t], o), row, generation)
        <3> HIDE DEF o
        <3> QED
            BY <2>1, <2>2, AcknowledgedAgrees
    <2>4. base' = [base EXCEPT ![t] = Acknowledged(base[t], o)] /\ cached' = base'[t]
        BY <1>4 DEF Settle
    <2>5. /\ base'[t] = Acknowledged(base[t], o) /\ cached' = base'[t]
          /\ \A u \in Tabs \ {t} : base'[u] = base[u]
        BY <2>4 DEF QServed, QTyped, QTypeOK
    <2>6. Agrees(base'[t], row, generation) /\ Agrees(cached', row, generation)
        BY <2>3, <2>5
    <2> QED
        BY <1>2, <2>5, <2>6, BeliefsKept
<1> QED
    BY <1>3, <1>4

LEMMA QNextBelieves ==
    QServed /\ QChained /\ Beliefs /\ [QNext]_vars => Beliefs'
<1> SUFFICES ASSUME QServed, QChained, Beliefs, [QNext]_vars
             PROVE  Beliefs'
    OBVIOUS
<1>1. SendableIssued
    BY OperationsMean DEF QChained, IdsAreIssued, SendableIssued, Records
<1>2. QTyped
    BY DEF QServed
<1>3. CASE UNCHANGED <<cached, base, fetch>>
    <2>1. ASSUME NEW b \in Snapshot, Agrees(b, row, generation)
          PROVE  Agrees(b, row', generation')
        BY <2>1, AgreesStays
    <2>2. cached # None => Agrees(cached, row', generation')
        BY <1>2, <2>1 DEF Beliefs, QTyped, QTypeOK
    <2>3. \A t \in Tabs : base[t] # None => Agrees(base[t], row', generation')
        BY <1>2, <2>1 DEF Beliefs, QTyped, QTypeOK
    <2>4. \A t \in Tabs : fetch[t] # None => Agrees(fetch[t].snapshot, row', generation')
        <3>1. ASSUME NEW t \in Tabs, fetch[t] # None
              PROVE  fetch[t].snapshot \in Snapshot
            BY <1>2, <3>1 DEF QTyped, QTypeOK, Fetched
        <3> QED
            BY <2>1, <3>1 DEF Beliefs
    <2> QED
        BY <1>3, <2>2, <2>3, <2>4 DEF Beliefs
<1>4. ASSUME NEW t \in Tabs, Reload(t) PROVE Beliefs'
    <2>1. UNCHANGED <<row, generation, cached>>
        BY <1>4 DEF Reload, serverVars, storageVars
    <2>2. /\ base'[t] = None /\ fetch'[t] = None
          /\ \A u \in Tabs \ {t} : base'[u] = base[u] /\ fetch'[u] = fetch[u]
        BY <1>2, <1>4 DEF Reload, QTyped, QTypeOK
    <2> QED
        BY <2>1, <2>2, BeliefsKept
<1>5. ASSUME NEW t \in Tabs, TabNext(t) PROVE Beliefs'
    <2>1. CASE \/ RefuseHeartbeat(t) \/ Flush(t) \/ Acquire(t) \/ LeaseHeld(t)
               \/ CascadeConflict(t) \/ Request(t) \/ Quarantine(t)
               \/ FinishReplay(t) \/ NoticeExpiry(t) \/ GiveUp(t) \/ ExpireLease(t)
        BY <1>3, <2>1
        DEF RefuseHeartbeat, Flush, Acquire, LeaseHeld, CascadeConflict, Request,
            Quarantine, Answered, FinishReplay, NoticeExpiry, GiveUp, ExpireLease,
            storageVars, pageVars
    <2> QED
        BY <1>1, <1>2, <1>4, <1>5, <2>1, FetchesBelieve, BasesBelieve,
           SavesBelieve, SettleBelieves
        DEF TabNext, ReplayStep
<1>6. ASSUME NEW q \in network, Serve(q) PROVE Beliefs'
    BY <1>3, <1>6 DEF Serve, storageVars, pageVars
<1>7. CASE OtherWriters
    BY <1>3, <1>7 DEF OtherWriters, storageVars, pageVars
<1>8. CASE UNCHANGED vars
    BY <1>3, <1>8 DEF vars, storageVars, pageVars
<1> QED
    BY <1>5, <1>6, <1>7, <1>8 DEF QNext

\* A tab's base is never ahead of the row, and says of the row's revision what
\* the server would: the base that Settle computes from the receipt alone is
\* the one a fresh snapshot would have brought.
THEOREM BasesStayRight == QSpec => []BasesAgree
<1>1. QInit => Beliefs
    BY DEF QInit, Beliefs
<1>2. Beliefs => BasesAgree
    BY DEF Beliefs, Agrees, BasesAgree
<1> QED
    BY <1>1, <1>2, QNextBelieves, QChainedHolds, PTL DEF QSpec

-----------------------------------------------------------------------------
(* What is flagged for review is not applied behind the user's back.       *)

LEMMA OperationsTyped ==
    ASSUME QTyped, NEW x \in Operations PROVE x \in Envelope
<1>1. CASE \E r \in Records : x = r.operation
    BY <1>1, RecordsStored DEF Stored
<1>2. CASE \E id \in DOMAIN receipts : x = receipts[id].envelope
    BY <1>2 DEF QTyped, QTypeOK, TypeOK, Receipt
<1> QED
    BY <1>1, <1>2, OperationsMean

\* A record made on a copy that agrees with the server is behind it.
LEMMA MadeBehind ==
    ASSUME QServed, NEW t, NEW b \in Snapshot, NEW c \in Chain, NEW p \in Patches,
           NEW r \in Stored, Makes(t, b, c, p, r), Agrees(b, row, generation)
    PROVE  /\ WellFormed(r.operation)
           /\ r.operation.base <= row.revision
           /\ r.operation.generation <= generation
<1>1. PICK expected \in ExpectedGenerations(b) :
          r.operation = NewOperation(r.operation.id, b, Advance(c, p), p, expected)
    BY DEF Makes
<1>2. /\ r.operation.sequence = c.sequence + 1
      /\ r.operation.intent = p.intent
      /\ r.operation.finished = (p.intent = "finish")
      /\ r.operation.base = b.revision
      /\ r.operation.generation = expected
    BY <1>1, AdvanceType DEF NewOperation
<1>3. p.intent \in PatchIntents /\ c.sequence \in Nat
    BY QueueAssumption DEF Chain
<1>4. /\ expected \in Int /\ expected <= b.generation
      /\ b.generation \in Nat /\ generation \in Nat
    BY DEF ExpectedGenerations, Snapshot, QServed, QTyped, QTypeOK, TypeOK
<1>5. expected <= generation /\ b.revision <= row.revision
    BY <1>4 DEF Agrees
<1>6. r.operation.finished <=> r.operation.intent = "finish"
    BY <1>2
<1>7. r.operation.sequence >= 1 /\ r.operation.intent # "reset"
    BY <1>2, <1>3 DEF PatchIntents
<1> QED
    BY <1>2, <1>5, <1>6, <1>7 DEF WellFormed

\* The copy a save is made on agrees with the server.
LEMMA SavesOnAgreedBase ==
    ASSUME QTyped, Beliefs, NEW t \in Tabs, NEW c \in Chain, SavesOnBase(t, c)
    PROVE  /\ \E b \in Snapshot, p \in Patches :
                  Save(t, b, c, p) /\ Agrees(b, row, generation)
           /\ UNCHANGED <<todo, sent, network, row, generation>>
<1>1. ASSUME NEW p \in Patches, Enqueue(t, p), Save(t, base[t], c, p)
      PROVE  /\ base[t] \in Snapshot /\ Agrees(base[t], row, generation)
             /\ UNCHANGED <<todo, sent, network, row, generation>>
    BY <1>1 DEF Enqueue, serverVars, QTyped, QTypeOK, Beliefs
<1>2. CASE FinishChoice(t)
    BY <1>2 DEF FinishChoice, serverVars, QTyped, QTypeOK, Beliefs, Fetched,
                SavesOnBase, Enqueue
<1> QED
    BY <1>1, <1>2 DEF SavesOnBase

LEMMA QNextBehind ==
    QServed /\ QChained /\ Beliefs /\ Behind /\ [QNext]_vars => Behind'
<1> SUFFICES ASSUME QServed, QChained, Beliefs, Behind, [QNext]_vars
             PROVE  Behind'
    OBVIOUS
<1>1. QTyped /\ SendableIssued
    BY OperationsMean DEF QServed, QChained, IdsAreIssued, SendableIssued, Records
<1>2. ASSUME NEW x \in Operations
      PROVE  WellFormed(x) /\ x.base <= row'.revision /\ x.generation <= generation'
    <2>1. x.base \in Nat /\ x.generation \in Nat
        BY <1>1, OperationsTyped DEF QServed, Envelope
    <2> QED
        BY <2>1, ServerGrows DEF Behind
<1>3. CASE Moves /\ Receives
    BY <1>2, <1>3, MovesShrink DEF Behind
<1>4. ASSUME NEW t \in Tabs, NEW c \in Chain, SavingStep(t, c)
      PROVE  Behind'
    <2>1. SavesOnBase(t, c) /\ UNCHANGED receipts
        BY <1>4 DEF SavingStep
    <2>2. PICK b \in Snapshot, p \in Patches :
              Save(t, b, c, p) /\ Agrees(b, row, generation)
        BY <1>1, <2>1, SavesOnAgreedBase
    <2>3. UNCHANGED <<todo, sent, network, row, generation>>
        BY <1>1, <2>1, SavesOnAgreedBase
    <2>4. ASSUME NEW r \in Stored, Makes(t, b, c, p, r) PROVE Behind'
        <3>1. Saves(t, c, r)
            BY <1>1, <2>3, <2>4, MakesSaves
        <3>2. \A x \in Operations' : x \in Operations \/ x = r.operation
            BY <2>1, <3>1, SaveGrows
        <3>3. /\ WellFormed(r.operation)
              /\ r.operation.base <= row'.revision
              /\ r.operation.generation <= generation'
            BY <2>2, <2>3, <2>4, MadeBehind
        <3> QED
            BY <1>2, <3>2, <3>3 DEF Behind
    <2>5. CASE MakesNone(t, b, c, p)
        <3>1. Operations' = Operations
            BY <2>1, <2>3, <2>5
            DEF MakesNone, Operations, Accounted, Records, Sendable, Planned,
                Carried, Awaited, Held
        <3> QED
            BY <1>2, <3>1 DEF Behind
    <2> QED
        BY <2>2, <2>4, <2>5, SaveMeans
<1> QED
    BY <1>1, <1>3, <1>4, QNextMoves

\* The server will not accept o as things stand; unless o chains to another
\* operation, it never will again.
Refused(o) ==
    o.predecessor = None => o.id \notin DOMAIN receipts /\ Outcome(o) # "accept"

\* Every flagged save that a POST still carries was refused, and so is a save
\* whose tab is about to flag it.
Flagged ==
    /\ \A q \in network :
           q.record.operation.id \in quarantine => Refused(q.record.operation)
    /\ \A t \in Tabs, q \in Posted :
           (sent[t] = q /\ reply[t] \in {"conflict", "envelope"})
               => Refused(q.record.operation)

LEMMA OutcomeFrame ==
    ASSUME NEW o, UNCHANGED serverVars PROVE Outcome(o)' = Outcome(o)
<1>1. /\ Current(o)' <=> Current(o)
      /\ Present(o)' <=> Present(o)
      /\ Locatable(o)' <=> Locatable(o)
      /\ WithinFile(o)' <=> WithinFile(o)
      /\ TupleAgrees(o)' <=> TupleAgrees(o)
    BY DEF serverVars, Current, PredecessorAccepted, Base, Overtaken, Regresses,
           Present, Locatable, WithinFile, TupleAgrees
<1> QED
    BY <1>1 DEF Outcome, serverVars

\* A refusal of an operation that chains to none is final: either nothing
\* changes, or its base or its timeline is left behind.
LEMMA RefusedStays ==
    ASSUME QServed, QChained, Behind, [QNext]_vars, NEW o \in Operations, Refused(o)
    PROVE  Refused(o)'
<1>1. SUFFICES ASSUME o.predecessor = None
               PROVE  o.id \notin DOMAIN receipts' /\ Outcome(o)' # "accept"
    BY DEF Refused
<1>2. o.id \notin DOMAIN receipts /\ Outcome(o) # "accept"
    BY <1>1 DEF Refused
<1>3. o.id \notin DOMAIN receipts'
    <2>1. ASSUME NEW q \in network, Operates(q.record.operation),
                 Outcome(q.record.operation) = "accept",
                 q.record.operation \in Envelope, q.record.operation \in Operations
          PROVE  o.id \notin DOMAIN receipts'
        <3>1. DOMAIN receipts' = DOMAIN receipts \cup {q.record.operation.id}
            BY <2>1 DEF Operates, Commit
        <3>2. q.record.operation # o
            BY <1>2, <2>1
        <3>3. q.record.operation.id # o.id
            BY <2>1, <3>2 DEF QChained, OneRecordPerId
        <3> QED
            BY <1>2, <3>1, <3>3
    <2> QED
        BY <1>2, <2>1, QNextAccepts DEF QServed
<1>4. CASE UNCHANGED serverVars
    BY <1>2, <1>3, <1>4, OutcomeFrame
<1>5. CASE ~UNCHANGED serverVars
    <2>1. row.revision < row'.revision \/ generation < generation'
        BY <1>5, ServerGrows DEF serverVars
    <2>2. /\ o.base \in Nat /\ o.base <= row.revision
          /\ o.generation \in Nat /\ o.generation <= generation
        BY OperationsTyped DEF QServed, Envelope, Behind
    <2>3. o.base # row'.revision \/ o.generation # generation'
        BY <2>1, <2>2, ServerGrows
    <2>4. ~Current(o)'
        BY <1>1, <2>3 DEF Current, Base
    <2> QED
        BY <1>3, <2>4 DEF Outcome
<1> QED
    BY <1>4, <1>5

\* A conflict the server reports is a refusal.
LEMMA OutcomeRefuses ==
    ASSUME QServed, QChained, Behind, NEW o \in Operations,
           Outcome(o) \in {"conflict", "envelope"}
    PROVE  Refused(o)
<1>1. ASSUME o.id \in DOMAIN receipts PROVE FALSE
    <2>1. receipts[o.id].envelope = o
        BY <1>1, OperationsMean
        DEF QChained, OneRecordPerId, QServed, Inductive, ReceiptsAreNamed
    <2> QED
        BY <1>1, <2>1 DEF Behind, Outcome
<1> QED
    BY <1>1 DEF Refused

\* What keeps flags sound in a step that leaves the receipts alone: what it
\* flags was refused, what it sends is not flagged, and it hears no conflict.
LEMMA FlagsKept ==
    ASSUME QServed, QChained, Behind, Flagged, ConflictsStayUnapplied, [QNext]_vars,
           UNCHANGED receipts,
           \A id \in quarantine' \ quarantine :
               \A x \in Operations : x.id = id => Refused(x),
           \A q \in network' :
               q \in network \/ q.record.operation.id \notin quarantine',
           \A u \in Tabs : \/ sent'[u] = sent[u] /\ reply'[u] = reply[u]
                           \/ reply'[u] \notin {"conflict", "envelope"}
    PROVE  Flagged' /\ ConflictsStayUnapplied'
<1>1. ASSUME NEW q \in network', q.record.operation.id \in quarantine'
      PROVE  Refused(q.record.operation)'
    <2>1. q \in network /\ q.record.operation \in Operations
        BY <1>1, SendableMeans, OperationsMean DEF Records
    <2>2. Refused(q.record.operation)
        BY <1>1, <2>1 DEF Flagged
    <2> QED
        BY <2>1, <2>2, RefusedStays
<1>2. ASSUME NEW t \in Tabs, NEW q \in Posted,
             sent'[t] = q, reply'[t] \in {"conflict", "envelope"}
      PROVE  Refused(q.record.operation)'
    <2>1. sent[t] = q /\ reply[t] \in {"conflict", "envelope"}
        BY <1>2
    <2>2. q.record.operation \in Operations
        BY <2>1, SendableMeans, OperationsMean, QueueAssumption DEF Records
    <2>3. Refused(q.record.operation)
        BY <2>1 DEF Flagged
    <2> QED
        BY <2>2, <2>3, RefusedStays
<1>3. ASSUME NEW id \in quarantine', id \in DOMAIN receipts
      PROVE  receipts[id].envelope.predecessor # None
    <2>1. CASE id \in quarantine
        BY <1>3, <2>1 DEF ConflictsStayUnapplied
    <2>2. CASE id \notin quarantine
        <3>1. receipts[id].envelope \in Operations /\ receipts[id].envelope.id = id
            BY <1>3, OperationsMean DEF QServed, Inductive, ReceiptsAreNamed
        <3> QED
            BY <1>3, <2>2, <3>1 DEF Refused
    <2> QED
        BY <2>1, <2>2
<1> QED
    BY <1>1, <1>2, <1>3 DEF Flagged, ConflictsStayUnapplied

\* A tab flags what it did not get through, what depends on that, and what it
\* saves over changed content.
LEMMA TabFlags ==
    ASSUME QServed, QChained, Beliefs, Behind, Flagged, ConflictsStayUnapplied,
           [QNext]_vars, NEW t \in Tabs, TabNext(t)
    PROVE  Flagged' /\ ConflictsStayUnapplied'
<1>1. QTyped /\ SendableIssued /\ UNCHANGED receipts
    BY OperationsMean, TabsLeaveServer
    DEF QServed, QChained, IdsAreIssued, SendableIssued, Records, serverVars
<1>2. /\ sent \in [Tabs -> Posted \cup {None}]
      /\ reply \in [Tabs -> Replies \cup {None}]
      /\ None \notin {"conflict", "envelope"}
    BY <1>1, QueueAssumption DEF QTyped, QTypeOK, Replies
<1>3. CASE UNCHANGED <<quarantine, network, sent, reply>>
    BY <1>1, <1>3, FlagsKept
<1>4. CASE Leave(t) /\ UNCHANGED <<quarantine, network>>
    <2>1. \A u \in Tabs : \/ sent'[u] = sent[u] /\ reply'[u] = reply[u]
                          \/ reply'[u] \notin {"conflict", "envelope"}
        BY <1>2, <1>4 DEF Leave
    <2> QED
        BY <1>1, <1>4, <2>1, FlagsKept
<1>5. ASSUME Answered(t)
      PROVE  \A u \in Tabs : \/ sent'[u] = sent[u] /\ reply'[u] = reply[u]
                             \/ reply'[u] \notin {"conflict", "envelope"}
    BY <1>2, <1>5 DEF Answered
<1>6. CASE Settle(t)
    <2>1. Answered(t) /\ UNCHANGED <<quarantine, network>>
        BY <1>6 DEF Settle, Answered
    <2> QED
        BY <1>1, <1>5, <2>1, FlagsKept
<1>7. CASE Quarantine(t)
    <2> DEFINE o == sent[t].record.operation
    <2>1. /\ Answered(t) /\ network' = network
          /\ reply[t] \in {"conflict", "envelope"}
          /\ quarantine' = quarantine \cup {o.id}
        BY <1>7 DEF Quarantine, Answered
    <2>2. sent[t] \in Posted /\ o \in Operations
        BY <1>2, <2>1, SendableMeans, OperationsMean DEF Answered, Records
    <2>3. Refused(o)
        BY <2>1, <2>2 DEF Flagged
    <2>4. \A x \in Operations : x.id = o.id => Refused(x)
        BY <2>2, <2>3 DEF QChained, OneRecordPerId
    <2> HIDE DEF o
    <2>5. \A id \in quarantine' \ quarantine :
              \A x \in Operations : x.id = id => Refused(x)
        BY <2>1, <2>4
    <2> QED
        BY <1>1, <1>5, <2>1, <2>5, FlagsKept
<1>8. CASE CascadeConflict(t)
    <2>1. PICK r \in Heads(t) :
              /\ r.operation.predecessor \in quarantine
              /\ quarantine' = quarantine \cup {r.operation.id}
        BY <1>8 DEF CascadeConflict
    <2>2. r.operation \in Operations
        BY <1>1, <2>1, HeadsType, SendableMeans, OperationsMean DEF Records
    <2>3. r.operation.predecessor # None
        BY <1>1, <2>1, OperationAssumption DEF QTyped, QTypeOK
    <2>4. \A x \in Operations : x.id = r.operation.id => Refused(x)
        BY <2>2, <2>3 DEF QChained, OneRecordPerId, Refused
    <2>5. \A id \in quarantine' \ quarantine :
              \A x \in Operations : x.id = id => Refused(x)
        BY <2>1, <2>4
    <2>6. UNCHANGED <<network, sent, reply>>
        BY <1>8 DEF CascadeConflict
    <2> QED
        BY <1>1, <2>5, <2>6, FlagsKept
<1>9. CASE Request(t)
    <2>1. PICK r \in Heads(t) :
              /\ sent' = [sent EXCEPT ![t] = [record |-> r, attempt |-> faults]]
              /\ \/ reply' = [reply EXCEPT ![t] = "receipt"] /\ UNCHANGED network
                 \/ network' = network \cup {sent'[t]} /\ UNCHANGED reply
        BY <1>9 DEF Request
    <2>2. quarantine' = quarantine /\ r.operation.id \notin quarantine
        BY <1>1, <1>9, <2>1, HeadsType DEF Request, storageVars
    <2>3. sent'[t].record = r /\ \A u \in Tabs \ {t} : sent'[u] = sent[u]
        BY <1>2, <2>1
    <2>4. \A q \in network' : q \in network \/ q.record.operation.id \notin quarantine'
        BY <2>1, <2>2, <2>3
    <2>5. reply[t] = None
        BY <1>1, <1>9 DEF Request, Looping, QTyped, ReceiptsAnswered
    <2>6. \A u \in Tabs : \/ sent'[u] = sent[u] /\ reply'[u] = reply[u]
                          \/ reply'[u] \notin {"conflict", "envelope"}
        BY <1>2, <2>1, <2>3, <2>5
    <2> QED
        BY <1>1, <2>2, <2>4, <2>6, FlagsKept
<1>10. ASSUME NEW c \in Chain, SavesOnBase(t, c), UNCHANGED <<network, sent, reply>>
       PROVE  Flagged' /\ ConflictsStayUnapplied'
    <2>1. PICK b \in Snapshot, p \in Patches : Save(t, b, c, p)
        BY <1>1, <1>10, SavesOnAgreedBase
    <2>2. ASSUME NEW id \in quarantine' \ quarantine PROVE id \notin issued
        <3>1. ASSUME NEW r \in Stored, Makes(t, b, c, p, r)
              PROVE  id \notin issued
            BY <2>2, <3>1 DEF Makes, Writes, Persist, PersistUnflagged, Retain
        <3>2. CASE MakesNone(t, b, c, p)
            BY <2>2, <3>2 DEF MakesNone
        <3> QED
            BY <2>1, <3>1, <3>2, SaveMeans
    <2>3. \A id \in quarantine' \ quarantine :
              \A x \in Operations : x.id = id => Refused(x)
        BY <2>2 DEF QChained, IdsAreIssued
    <2>4. ASSUME NEW q \in network'
          PROVE  q \in network
        BY <1>10
    <2> QED
        BY <1>1, <1>10, <2>3, <2>4, FlagsKept
<1>11. CASE FinishChoice(t) \/ \E p \in Patches : Enqueue(t, p)
    <2>1. UNCHANGED <<network, sent, reply>>
        BY <1>11 DEF FinishChoice, Enqueue
    <2>2. \E c \in Chain : SavesOnBase(t, c)
        BY <1>1, <1>11, EnqueueSaves, FinishChoiceSaves DEF SavingStep
    <2> QED
        BY <1>10, <2>1, <2>2
<1>12. CASE \/ FetchSnapshot(t) \/ InstallSnapshot(t) \/ FetchEdition(t)
            \/ AdoptCachedBase(t) \/ RefuseHeartbeat(t) \/ Flush(t) \/ Acquire(t)
            \/ LeaseHeld(t) \/ ExpireLease(t)
            \/ \E p \in Patches : BeginChoice(t, p)
    BY <1>3, <1>12
    DEF FetchSnapshot, InstallSnapshot, FetchEdition, AdoptCachedBase,
        RefuseHeartbeat, Flush, Acquire, LeaseHeld, ExpireLease, BeginChoice,
        storageVars, replayVars
<1>13. CASE FinishReplay(t) \/ NoticeExpiry(t) \/ GiveUp(t) \/ Reload(t)
    BY <1>4, <1>13
    DEF FinishReplay, NoticeExpiry, GiveUp, Reload, storageVars
<1> QED
    BY <1>6, <1>7, <1>8, <1>9, <1>11, <1>12, <1>13 DEF TabNext, ReplayStep

\* The server refuses a flagged POST for good, or it chains to another.
LEMMA ServeFlags ==
    ASSUME QServed, QChained, Behind, Flagged, ConflictsStayUnapplied,
           [QNext]_vars, NEW request \in network, Serve(request)
    PROVE  Flagged' /\ ConflictsStayUnapplied'
<1> DEFINE o == request.record.operation
<1>1. UNCHANGED <<quarantine, sent>> /\ network' \subseteq network
    BY DEF Serve, storageVars
<1>2. o \in Operations
    BY SendableMeans, OperationsMean DEF Records
<1>3. \A u \in Tabs : reply'[u] = IF sent[u] = request THEN Outcome(o) ELSE reply[u]
    BY DEF Serve
<1> HIDE DEF o
<1>4. ASSUME NEW q \in network', q.record.operation.id \in quarantine'
      PROVE  Refused(q.record.operation)'
    <2>1. q \in network /\ q.record.operation \in Operations
        BY <1>1, <1>4, SendableMeans, OperationsMean DEF Records
    <2>2. Refused(q.record.operation)
        BY <1>1, <1>4, <2>1 DEF Flagged
    <2> QED
        BY <2>1, <2>2, RefusedStays
<1>5. ASSUME NEW t \in Tabs, NEW q \in Posted,
             sent'[t] = q, reply'[t] \in {"conflict", "envelope"}
      PROVE  Refused(q.record.operation)'
    <2>1. sent[t] = q
        BY <1>1, <1>5
    <2>2. q.record.operation \in Operations
        BY <2>1, SendableMeans, OperationsMean, QueueAssumption DEF Records
    <2>3. Refused(q.record.operation)
        <3>1. CASE q = request
            BY <1>2, <1>3, <1>5, <2>1, <3>1, OutcomeRefuses DEF o
        <3>2. CASE q # request
            BY <1>3, <1>5, <2>1, <3>2 DEF Flagged
        <3> QED
            BY <3>1, <3>2
    <2> QED
        BY <2>2, <2>3, RefusedStays
<1>6. ConflictsStayUnapplied'
    <2>1. CASE receipts' = receipts
        BY <1>1, <2>1 DEF ConflictsStayUnapplied
    <2>2. ASSUME NEW q \in network, Operates(q.record.operation),
                 Outcome(q.record.operation) = "accept",
                 q.record.operation \in Envelope
          PROVE  ConflictsStayUnapplied'
        <3>1. TypeOK
            BY DEF QServed, Inductive
        <3>2. /\ DOMAIN receipts' = DOMAIN receipts \cup {q.record.operation.id}
              /\ \A id \in DOMAIN receipts : receipts'[id] = receipts[id]
              /\ receipts'[q.record.operation.id] = NewReceipt(q.record.operation)
            BY <2>2, <3>1, OperatesEffect
        <3>3. receipts'[q.record.operation.id].envelope = q.record.operation
            BY <3>2 DEF NewReceipt
        <3>4. q.record.operation.id \in quarantine
                  => q.record.operation.predecessor # None
            BY <2>2 DEF Flagged, Refused
        <3> QED
            BY <1>1, <3>2, <3>3, <3>4 DEF ConflictsStayUnapplied
    <2> QED
        BY <2>1, <2>2, QNextAccepts DEF QServed
<1> QED
    BY <1>4, <1>5, <1>6 DEF Flagged

LEMMA QNextFlags ==
    QServed /\ QChained /\ Beliefs /\ Behind /\ Flagged /\ ConflictsStayUnapplied
        /\ [QNext]_vars => Flagged' /\ ConflictsStayUnapplied'
<1> SUFFICES ASSUME QServed, QChained, Beliefs, Behind, Flagged,
                    ConflictsStayUnapplied, [QNext]_vars
             PROVE  Flagged' /\ ConflictsStayUnapplied'
    OBVIOUS
<1>1. CASE UNCHANGED <<quarantine, network, sent, reply, receipts>>
    BY <1>1, FlagsKept
<1>2. CASE OtherWriters
    BY <1>1, <1>2, OtherWritersSteps DEF OtherWriters, storageVars, replayVars, QServed
<1>3. CASE UNCHANGED vars
    BY <1>1, <1>3 DEF vars, storageVars, replayVars, serverVars
<1> QED
    BY <1>2, <1>3, TabFlags, ServeFlags DEF QNext

\* A save that was flagged as conflicting is not applied later, however its
\* POSTs are delayed or repeated, unless it continues another save.
THEOREM FlaggedStaysUnapplied == QSpec => []ConflictsStayUnapplied
<1>1. QInit => Beliefs
    BY DEF QInit, Beliefs
<1>2. QInit => Behind
    <2> SUFFICES ASSUME QInit PROVE \A x : x \notin Operations
        BY DEF Behind
    <2> QED
        BY QInitOperations
<1>3. QInit => Flagged /\ ConflictsStayUnapplied
    BY QueueAssumption DEF QInit, Flagged, ConflictsStayUnapplied
<1> QED
    BY <1>1, <1>2, <1>3, QNextBelieves, QNextBehind, QNextFlags, QChainedHolds, PTL
    DEF QSpec

-----------------------------------------------------------------------------
(* Records are retained until they are settled.                            *)

LEMMA SavesRetain ==
    ASSUME NEW t, NEW b \in Snapshot, NEW c \in Chain, NEW p \in Patches,
           QTyped, Save(t, b, c, p)
    PROVE  store \subseteq store' /\ \A u \in Tabs : volatile[u] \subseteq volatile'[u]
<1>1. ASSUME NEW r \in Stored, Makes(t, b, c, p, r)
      PROVE  store \subseteq store' /\ \A u \in Tabs : volatile[u] \subseteq volatile'[u]
    <2>1. CASE Persist(t, b, p, r) \/ PersistUnflagged(t, b, p, r)
        BY <2>1 DEF Persist, PersistUnflagged
    <2>2. CASE Retain(t, b, r)
        BY <2>2 DEF Retain, QTyped, QTypeOK
    <2> QED
        BY <1>1, <2>1, <2>2 DEF Makes, Writes
<1>2. CASE MakesNone(t, b, c, p)
    BY <1>2 DEF MakesNone
<1> QED
    BY <1>1, <1>2, SaveMeans

\* No record leaves localStorage without the server's receipt for it, and none
\* leaves the tab that retains it but for localStorage or with its page.
THEOREM RecordsAreRetained == QSpec => RetainedUntilSettled
<1> DEFINE Step == /\ \A r \in store \ store' :
                          /\ r.operation.id \in DOMAIN receipts
                          /\ receipts[r.operation.id].envelope = r.operation
                   /\ \A t \in Tabs : \A r \in volatile[t] \ volatile'[t] :
                          r \in store' \/ base'[t] = None
<1>1. ASSUME QServed, QChained, QNext PROVE Step
    <2>1. CASE store \subseteq store' /\ volatile' = volatile
        BY <2>1
    <2>2. QTyped /\ SendableIssued
        BY <1>1, OperationsMean
        DEF QServed, QChained, IdsAreIssued, SendableIssued, Records
    <2>3. ASSUME NEW t \in Tabs, TabNext(t) PROVE Step
        <3>1. CASE FinishChoice(t) \/ \E p \in Patches : Enqueue(t, p)
            <4>1. \E b \in Snapshot, c \in Chain, p \in Patches : Save(t, b, c, p)
                <5>1. ASSUME NEW p \in Patches, Enqueue(t, p)
                      PROVE  \E c \in Chain : base[t] \in Snapshot /\ Save(t, base[t], c, p)
                    BY <2>2, <5>1, EnqueueSaves DEF Enqueue, QTyped, QTypeOK
                <5>2. CASE FinishChoice(t)
                    BY <2>2, <5>2, FinishChoiceSaves
                    DEF FinishChoice, QTyped, QTypeOK, Fetched
                <5> QED
                    BY <3>1, <5>1, <5>2
            <4> QED
                BY <2>2, <4>1, SavesRetain
        <3>2. CASE Settle(t)
            <4>1. /\ Answered(t) /\ reply[t] \in {"accept", "receipt"}
                  /\ store' = store \ {sent[t].record} /\ volatile' = volatile
                BY <3>2 DEF Settle, Answered
            <4> QED
                BY <1>1, <4>1, AnsweredReceipt
        <3>3. CASE Flush(t)
            <4>1. PICK kept \in SUBSET volatile[t] :
                      /\ store' = store \cup (volatile[t] \ kept)
                      /\ volatile' = [volatile EXCEPT ![t] = kept]
                BY <3>3 DEF Flush
            <4> QED
                BY <2>2, <4>1 DEF QTyped, QTypeOK
        <3>4. CASE Reload(t)
            <4>1. /\ store' = store
                  /\ volatile' = [volatile EXCEPT ![t] = {}]
                  /\ base' = [base EXCEPT ![t] = None]
                BY <3>4 DEF Reload, storageVars
            <4> QED
                BY <2>2, <4>1 DEF QTyped, QTypeOK
        <3>5. CASE \/ FetchSnapshot(t) \/ InstallSnapshot(t) \/ FetchEdition(t)
                   \/ AdoptCachedBase(t) \/ RefuseHeartbeat(t) \/ Acquire(t)
                   \/ LeaseHeld(t) \/ CascadeConflict(t) \/ Request(t)
                   \/ Quarantine(t) \/ FinishReplay(t) \/ NoticeExpiry(t)
                   \/ GiveUp(t) \/ ExpireLease(t)
                   \/ \E p \in Patches : BeginChoice(t, p)
            BY <2>1, <3>5
            DEF FetchSnapshot, InstallSnapshot, FetchEdition, AdoptCachedBase,
                RefuseHeartbeat, Acquire, LeaseHeld, CascadeConflict, Request,
                Quarantine, Answered, FinishReplay, NoticeExpiry, GiveUp,
                ExpireLease, BeginChoice, storageVars, pageVars
        <3> QED
            BY <2>3, <3>1, <3>2, <3>3, <3>4, <3>5 DEF TabNext, ReplayStep
    <2>4. CASE OtherWriters \/ \E q \in network : Serve(q)
        BY <2>1, <2>4 DEF OtherWriters, Serve, storageVars, pageVars
    <2> QED
        BY <1>1, <2>3, <2>4 DEF QNext
<1> QED
    BY <1>1, QChainedHolds, PTL DEF QSpec, RetainedUntilSettled


-----------------------------------------------------------------------------
(* One session, of which nothing but a step back conflicts.                *)

\* A timeline whose files are distinct, present and proven.
Sound(fs) ==
    /\ NoneMissing(fs)
    /\ \A i, j \in DOMAIN fs : fs[i].id = fs[j].id => i = j
    /\ \A i \in DOMAIN fs : fs[i].identity # None

\* What p saves lies within the timeline, and completes it at its last file.
Within(fs, p) ==
    fs # <<>> =>
        LET i == FileAt(fs, p.position)
        IN  /\ fs[i].duration > 0 => p.position - Before(fs, i) <= fs[i].duration
            /\ p.intent = "finish" => i = Len(fs)

\* One playback session saves, by a clock that does not step back, and nobody
\* else writes: no scan, no compatibility client, no refusal by localStorage.
Undisturbed ==
    /\ \A s, z \in Sessions : s = z
    /\ \A now, later \in Clock : now = later
    /\ MaxRevision = 0 /\ MaxGeneration <= 1 /\ MaxDenials = 0
    /\ \A fs \in FileLists : Sound(fs) /\ \A p \in Patches : Within(fs, p)

\* An operation of this timeline, in order but for where it leaves the row.
Settled(o) ==
    /\ o.generation = 1 /\ o.reset = 0 /\ o.intent # "reset"
    /\ Present(o) /\ WithinFile(o) /\ Locatable(o) /\ TupleAgrees(o)
    /\ o.predecessor = None => o.base = 0

\* Every revision is an operation's, and the row is what the last one left.
AloneServer ==
    /\ generation = 1 /\ files \in FileLists
    /\ row.reset = 0 /\ \A id \in DOMAIN receipts : receipts[id].reset = 0
    /\ \A n \in 1..row.revision : \E id \in DOMAIN receipts : receipts[id].revision = n
    /\ row.operation = None => row.revision = 0
    /\ row.operation # None =>
           LET o == receipts[row.operation].envelope
           IN  row.offset = o.offset /\ row.savedIdentity = IdentityOf(files, o.file)

AloneOperations ==
    /\ \A x \in Operations : Settled(x)
    /\ \A x, y \in Operations : x.sequence = y.sequence => x = y
    /\ \A x, y \in Operations : x.predecessor = y.id => y.epoch <= x.epoch

\* The chain of the one tab that plays is ahead of all operations.
AloneChains ==
    \A t \in Tabs : chain[t] # None =>
        \A x \in Operations :
            /\ x.sequence <= chain[t].sequence
            /\ chain[t].predecessor = x.id => x.epoch <= chain[t].epoch

Plain(b) == b.generation = 1 /\ b.reset = 0 /\ b.files = files /\ ~b.conflict

AloneBases ==
    /\ cached # None => Plain(cached)
    /\ \A t \in Tabs : base[t] # None => Plain(base[t])
    /\ \A t \in Tabs : fetch[t] # None => Plain(fetch[t].snapshot)

\* What tab t need not wait for, or will still come to.
Handled(t, id) ==
    id = None \/ id \in DOMAIN receipts \/ id \in quarantine \/ id \in Ids(todo[t])

\* The server knows what o continues.
Ready(o) == o.predecessor = None \/ o.predecessor \in DOMAIN receipts

\* Nothing is lost, and a replay comes to an operation after what it continues.
AloneReplay(t) ==
    /\ volatile[t] = {}
    /\ t \notin running => todo[t] = {}
    /\ sent[t] # None => sent[t].record \in todo[t] /\ Ready(sent[t].record.operation)
    /\ lock = t => todo[t] \subseteq store
    /\ \A r \in todo[t] : Handled(t, r.operation.predecessor)

AloneRecords ==
    /\ \A id \in issued : id \in DOMAIN receipts \/ id \in Ids(store)
    /\ \A q \in network : Ready(q.record.operation)
    /\ \A t \in Tabs : AloneReplay(t)

\* Record r is flagged, and so is a heartbeat it follows, or it is one itself.
Excused(r) ==
    /\ r.operation.id \in quarantine
    /\ \E q \in store :
           /\ q.operation.session = r.operation.session
           /\ q.operation.sequence <= r.operation.sequence
           /\ q.operation.id \in quarantine
           /\ q.operation.intent = "heartbeat"

AloneMarks ==
    /\ \A t \in Tabs :
           /\ lock = t /\ sent[t] # None => sent[t].record.operation.id \notin quarantine
           /\ reply[t] \in {"conflict", "envelope"} =>
                  sent[t].record.operation.intent = "heartbeat"
    /\ \A id \in quarantine : \E r \in store : r.operation.id = id /\ Excused(r)

Alone == /\ AloneServer /\ AloneOperations /\ AloneChains
         /\ AloneBases /\ AloneRecords /\ AloneMarks

-----------------------------------------------------------------------------
(* What the server makes of an operation.                                  *)

\* Nobody else writes and nothing is refused by localStorage.
LEMMA NobodyElse ==
    ASSUME Undisturbed, QServed, AloneServer, AloneRecords, [QNext]_vars
    PROVE  /\ UNCHANGED <<generation, files>>
           /\ ~OtherWriters
           /\ \/ UNCHANGED serverVars
              \/ \E q \in network : Serve(q)
<1>1. row.revision \in Nat /\ MaxRevision = 0 /\ MaxGeneration \in Nat /\ MaxGeneration <= 1
    BY OperationAssumption DEF Undisturbed, QServed, QTyped, QTypeOK, TypeOK, Row
<1>2. ~OtherWriters
    <2>1. ASSUME CompatibilityWrite PROVE FALSE
        <3>1. \A file, offset, position, finished :
                  SetProgress(file, offset, position, finished) => row.revision < MaxRevision
            BY Zenon DEF SetProgress
        <3>2. DeleteProgress => row.revision < MaxRevision
            BY Zenon DEF DeleteProgress
        <3>3. row.revision < MaxRevision
            BY <2>1, <3>1, <3>2, Zenon DEF CompatibilityWrite
        <3> QED
            BY <1>1, <3>3
    <2>2. ASSUME NEW fs \in FileLists, Rescan(fs) PROVE FALSE
        BY <1>1, <2>2 DEF Rescan, AloneServer
    <2> QED
        BY <2>1, <2>2 DEF OtherWriters
<1>3. UNCHANGED serverVars \/ \E q \in network : Serve(q)
    BY <1>2, TabsLeaveServer DEF QNext, vars
<1>4. ASSUME NEW q \in network, Serve(q) PROVE UNCHANGED <<generation, files>>
    BY <1>4 DEF Serve, ApplyMediaOperation
<1> QED
    BY <1>2, <1>3, <1>4 DEF serverVars

\* An operation goes through that is next in the session, and none other.
LEMMA NextInLine ==
    ASSUME Undisturbed, QServed, QChained, SessionsApplyInOrder,
           AloneServer, AloneOperations,
           NEW o \in Operations, o.id \notin DOMAIN receipts, Ready(o)
    PROVE  /\ row.operation = o.predecessor
           /\ o.predecessor = None => row.revision = 0
<1>1. row.revision \in Nat /\ DOMAIN receipts \subseteq OperationIds
    BY DEF QServed, QTyped, QTypeOK, TypeOK, Row
<1>2. \A id \in DOMAIN receipts :
          /\ receipts[id].envelope \in Operations
          /\ receipts[id].envelope.id = id
          /\ receipts[id].revision \in 1..row.revision
          /\ receipts[id].envelope.sequence \in Nat
          /\ receipts[id].envelope.session \in Sessions
    BY OperationsMean, OperationsTyped
    DEF QServed, Inductive, ReceiptsAreNamed, OneWritePerReceipt, Envelope
<1>3. o \in Envelope
    BY OperationsTyped DEF QServed
<1>4. CASE o.predecessor = None
    <2>1. ASSUME row.revision # 0 PROVE FALSE
        <3>1. PICK id \in DOMAIN receipts : receipts[id].revision = 1
            BY <1>1, <2>1 DEF AloneServer
        <3>2. PICK a \in DOMAIN receipts : receipts[a].envelope.predecessor = None
            BY <3>1 DEF QServed, Inductive, SessionsHaveRoots
        <3>3. receipts[a].envelope.session = o.session
            BY <1>2, <1>3, <3>2 DEF Undisturbed, Envelope
        <3>4. receipts[a].envelope = o
            BY <1>2, <1>4, <3>2, <3>3 DEF QChained, Chained
        <3> QED
            BY <1>2, <3>2, <3>4
    <2>2. ASSUME row.operation # None PROVE FALSE
        <3>1. row.operation \in DOMAIN receipts
            BY <2>2 DEF QServed, Inductive, ProvenanceIsOfTheRow
        <3> QED
            BY <1>1, <1>2, <2>1, <3>1
    <2> QED
        BY <1>4, <2>1, <2>2
<1>5. CASE o.predecessor # None
    <2> DEFINE p == receipts[o.predecessor]
    <2>1. o.predecessor \in DOMAIN receipts
        BY <1>5 DEF Ready
    <2>2. /\ p.envelope \in Operations /\ p.envelope.id = o.predecessor
          /\ p.revision \in 1..row.revision /\ p.envelope.sequence \in Nat
        BY <1>2, <2>1
    <2>3. o.sequence = p.envelope.sequence + 1
        BY <2>2 DEF QChained, Chained
    <2>4. ASSUME p.revision # row.revision PROVE FALSE
        <3>1. p.revision + 1 \in 1..row.revision
            BY <1>1, <2>2, <2>4
        <3>2. PICK z \in DOMAIN receipts : receipts[z].revision = p.revision + 1
            BY <3>1 DEF AloneServer
        <3>3. receipts[z].envelope.session = p.envelope.session
            BY <1>2, <2>1, <3>2 DEF Undisturbed
        <3>4. receipts[z].revision - p.revision
                  = receipts[z].envelope.sequence - p.envelope.sequence
            BY <2>1, <3>2, <3>3 DEF SessionsApplyInOrder
        <3>5. receipts[z].envelope.sequence = o.sequence
            <4>1. receipts[z].envelope.sequence \in Nat
                BY <1>2, <3>2
            <4> HIDE DEF p
            <4> QED
                BY <2>2, <2>3, <3>2, <3>4, <4>1
        <3>6. receipts[z].envelope = o
            BY <1>2, <3>2, <3>5 DEF AloneOperations
        <3> QED
            BY <1>2, <3>2, <3>6
    <2>5. row.operation = o.predecessor
        BY <2>1, <2>4 DEF QServed, Inductive, LastWriteIsNamed
    <2> QED
        BY <1>5, <2>5
<1> QED
    BY <1>4, <1>5

\* Whatever the server knows the predecessor of, it takes, unless that would
\* step back.
LEMMA OnlyStepsBackAreRefused ==
    ASSUME Undisturbed, QServed, QChained, SessionsApplyInOrder, Behind,
           AloneServer, AloneOperations,
           NEW o \in Operations, Ready(o), Outcome(o) \in {"conflict", "envelope"}
    PROVE  o.intent = "heartbeat"
<1>1. o \in Envelope /\ WellFormed(o) /\ Settled(o)
    BY OperationsTyped DEF QServed, Behind, AloneOperations
<1>2. CASE o.id \in DOMAIN receipts
    <2>1. receipts[o.id].envelope \in Operations /\ receipts[o.id].envelope.id = o.id
        BY <1>2, OperationsMean DEF QServed, Inductive, ReceiptsAreNamed
    <2>2. receipts[o.id].envelope = o
        BY <2>1 DEF QChained, OneRecordPerId
    <2> QED
        BY <1>1, <1>2, <2>2 DEF Outcome
<1>3. CASE o.id \notin DOMAIN receipts
    <2>1. row.operation = o.predecessor /\ (o.predecessor = None => row.revision = 0)
        BY <1>3, NextInLine
    <2>2. o.generation = generation /\ o.reset = row.reset
        BY <1>1 DEF Settled, AloneServer
    <2>3. /\ PredecessorAccepted(o)
          /\ Base(o) = row.revision
          /\ ~Overtaken(o)
        <3>1. CASE o.predecessor = None
            BY <1>1, <2>1, <3>1 DEF PredecessorAccepted, Base, Overtaken, Settled
        <3>2. CASE o.predecessor # None
            <4> DEFINE p == receipts[o.predecessor]
            <4>1. o.predecessor \in DOMAIN receipts
                BY <3>2 DEF Ready
            <4>2. /\ p.envelope \in Operations /\ p.envelope.id = o.predecessor
                  /\ p.envelope \in Envelope
                BY <4>1, OperationsMean, OperationsTyped
                DEF QServed, Inductive, ReceiptsAreNamed
            <4>3. p.envelope.session = o.session /\ o.sequence = p.envelope.sequence + 1
                BY <4>2 DEF QChained, Chained
            <4>4. p.envelope.epoch <= o.epoch
                BY <4>2 DEF AloneOperations
            <4>5. p.envelope.reset = o.reset /\ p.envelope.generation = o.generation
                BY <1>1, <4>2 DEF AloneOperations, Settled
            <4>6. p.revision = row.revision
                BY <2>1, <3>2 DEF QServed, Inductive, ProvenanceIsOfTheRow
            <4>7. /\ p.envelope.sequence \in Nat /\ p.envelope.epoch \in Nat
                  /\ o.sequence \in Nat /\ o.epoch \in Nat
                BY <1>1, <4>2 DEF Envelope
            <4>8. ChainsTo(o, p.envelope)
                <5> HIDE DEF p
                <5> QED
                    BY <4>3, <4>4, <4>5, <4>7 DEF ChainsTo
            <4>9. ~(o.sequence <= p.envelope.sequence \/ o.epoch < p.envelope.epoch)
                <5> HIDE DEF p
                <5> QED
                    BY <4>3, <4>4, <4>7
            <4> QED
                BY <2>1, <3>2, <4>1, <4>6, <4>8, <4>9
                DEF PredecessorAccepted, Base, Overtaken
        <3> QED
            BY <3>1, <3>2
    <2>4. CASE Regresses(o)
        BY <2>4 DEF Regresses
    <2>5. CASE ~Regresses(o)
        <3>1. Current(o)
            BY <2>2, <2>3, <2>5 DEF Current
        <3>2. Outcome(o) = "accept"
            BY <1>1, <1>3, <3>1 DEF Outcome, Settled
        <3> QED
            BY <3>2
    <2> QED
        BY <2>4, <2>5
<1> QED
    BY <1>2, <1>3

\* An accepted operation accounts for the next revision.
LEMMA ServerStaysAlone ==
    ASSUME Undisturbed, QServed, QChained, AloneServer, AloneOperations,
           AloneRecords, [QNext]_vars
    PROVE  AloneServer'
<1>1. UNCHANGED <<generation, files>>
    BY NobodyElse
<1>2. CASE UNCHANGED <<row, receipts>>
    BY <1>1, <1>2 DEF AloneServer, IdentityOf, IndexOf
<1>3. ASSUME NEW o \in Operations, o \in Envelope, Operates(o) PROVE AloneServer'
    <2>1. /\ DOMAIN receipts' = DOMAIN receipts \cup {o.id}
          /\ \A id \in DOMAIN receipts : receipts'[id] = receipts[id]
          /\ receipts'[o.id] = NewReceipt(o)
          /\ row' = Written(o)
          /\ row.revision \in Nat
        BY <1>3, OperatesEffect DEF QServed, Inductive
    <2>2. o.intent # "reset" /\ Lineage(o) = 0
        BY <1>3 DEF AloneOperations, Settled, Lineage, AloneServer
    <2>3. /\ row'.reset = 0 /\ row'.revision = row.revision + 1
          /\ row'.operation = o.id /\ row'.offset = o.offset
          /\ row'.savedIdentity = IdentityOf(files, o.file)
        BY <2>1, <2>2 DEF Written
    <2>4. /\ receipts'[o.id].reset = 0
          /\ receipts'[o.id].revision = row.revision + 1
          /\ receipts'[o.id].envelope = o
        BY <2>1, <2>2 DEF NewReceipt
    <2>5. \A id \in DOMAIN receipts' : receipts'[id].reset = 0
        BY <2>1, <2>4 DEF AloneServer
    <2>6. ASSUME NEW n \in 1..row'.revision
          PROVE  \E id \in DOMAIN receipts' : receipts'[id].revision = n
        <3>1. CASE n \in 1..row.revision
            BY <2>1, <3>1 DEF AloneServer
        <3>2. CASE n = row.revision + 1
            BY <2>1, <2>4, <3>2
        <3> QED
            BY <2>1, <2>3, <3>1, <3>2
    <2>7. o.id # None
        BY <1>3, OperationAssumption DEF Envelope
    <2> QED
        BY <1>1, <2>3, <2>4, <2>5, <2>6, <2>7 DEF AloneServer, IdentityOf, IndexOf
<1>4. ASSUME NEW q \in network, Serve(q) PROVE AloneServer'
    <2>1. /\ q.record.operation \in Operations /\ q.record.operation \in Envelope
          /\ ApplyMediaOperation(q.record.operation)
        BY <1>4, ServeSteps, SendableMeans, OperationsMean DEF QServed, Serve, Records
    <2> QED
        BY <1>2, <1>3, <2>1, ApplyShapes
<1> QED
    BY <1>2, <1>4, NobodyElse DEF serverVars

-----------------------------------------------------------------------------
(* What the tabs know, and what they save on it.                           *)

\* What the row says is proven and lies within the timeline.
LEMMA NoConflict ==
    ASSUME Undisturbed, QServed, AloneServer, AloneOperations
    PROVE  ~ResumeConflict
<1> SUFFICES ASSUME Unfinished PROVE ~ResumeConflict
    BY DEF ResumeConflict
<1> DEFINE o == receipts[row.operation].envelope
<1>1. row.operation # None
    BY DEF AloneServer, Unfinished
<1>2. /\ row.operation \in DOMAIN receipts
      /\ o.generation = row.savedGeneration
      /\ o.intent # "reset" => o.file = row.file
      /\ row.offset = o.offset /\ row.savedIdentity = IdentityOf(files, o.file)
    BY <1>1 DEF QServed, Inductive, ProvenanceIsOfTheRow, AloneServer
<1>3. o \in Operations
    BY <1>2, OperationsMean
<1>4. Settled(o)
    BY <1>3 DEF AloneOperations
<1> HIDE DEF o
<1>5. Sound(files) /\ files \in Seq(File)
    BY OperationAssumption DEF Undisturbed, AloneServer
<1>6. row.file = o.file /\ IndexOf(files, row.file) # {}
    BY <1>2, <1>4 DEF Settled, Present
<1>7. row.file # None
    <2>1. PICK i \in 1..Len(files) : files[i].id = row.file
        BY <1>5, <1>6 DEF IndexOf
    <2>2. files[i] \in File
        BY <1>5
    <2> QED
        BY <2>1, <2>2, OperationAssumption DEF File
<1>8. Proven
    <2>1. row.savedGeneration = 1
        BY <1>2, <1>4 DEF Settled
    <2>2. IdentityOf(files, row.file) # None
        BY <1>5, <1>6, <1>7 DEF IdentityOf, Sound, IndexOf
    <2> QED
        BY <1>2, <1>6, <2>1, <2>2, OperationAssumption DEF Proven
<1>9. \A i \in IndexOf(files, row.file) : Mapped(i)
    <2> TAKE i \in IndexOf(files, row.file)
    <2>1. i \in 1..Len(files) /\ KnownBefore(files, i)
        BY <1>4, <1>5, <1>6 DEF Settled, Locatable, IndexOf
    <2>2. files[i].duration > 0 => row.offset <= files[i].duration
        BY <1>2, <1>4, <1>6 DEF Settled, WithinFile
    <2>3. \A j \in 1..i : ~files[j].missing
        BY <1>5, <2>1 DEF Sound, NoneMissing
    <2> QED
        BY <2>1, <2>2, <2>3 DEF Mapped
<1> QED
    BY <1>6, <1>7, <1>8, <1>9 DEF ResumeConflict

LEMMA SnapshotsArePlain ==
    ASSUME Undisturbed, QServed, AloneServer, AloneOperations
    PROVE  Plain(MediaSnapshot) /\ Plain(Edition)
<1>1. Plain(MediaSnapshot)
    BY NoConflict DEF MediaSnapshot, Plain, AloneServer
<1>2. Sound(files) /\ files \in Seq(File)
    BY OperationAssumption DEF Undisturbed, AloneServer
<1>3. AllPresent(files) = files
    <2>1. ASSUME NEW i \in 1..Len(files)
          PROVE  [files[i] EXCEPT !.missing = FALSE] = files[i]
        <3>1. files[i] \in File /\ ~files[i].missing
            BY <1>2 DEF Sound, NoneMissing
        <3> QED
            BY <3>1 DEF File
    <2>2. AllPresent(files) = [i \in 1..Len(files) |-> [files[i] EXCEPT !.missing = FALSE]]
        BY <1>2 DEF AllPresent
    <2>3. AllPresent(files) = [i \in 1..Len(files) |-> files[i]]
        BY <2>1, <2>2
    <2> QED
        BY <1>2, <2>3
<1>4. Plain(Edition)
    BY <1>1, <1>3 DEF Edition, MediaSnapshot, Plain
<1> QED
    BY <1>1, <1>4

\* The copy a save is made on is plain.
LEMMA SavesOnPlainBase ==
    ASSUME QTyped, Beliefs, AloneBases, NEW t \in Tabs, NEW c \in Chain,
           SavesOnBase(t, c)
    PROVE  /\ \E b \in Snapshot, p \in Patches :
                  Save(t, b, c, p) /\ Agrees(b, row, generation) /\ Plain(b)
           /\ UNCHANGED <<todo, sent, reply, lock, running, network>>
           /\ UNCHANGED serverVars
<1>1. ASSUME NEW p \in Patches, Enqueue(t, p), Save(t, base[t], c, p)
      PROVE  /\ base[t] \in Snapshot /\ Agrees(base[t], row, generation)
             /\ Plain(base[t])
             /\ UNCHANGED <<todo, sent, reply, lock, running, network>>
             /\ UNCHANGED serverVars
    BY <1>1 DEF Enqueue, QTyped, QTypeOK, Beliefs, AloneBases
<1>2. CASE FinishChoice(t) /\ Save(t, fetch[t].snapshot, c, fetch[t].patch)
    <2>1. /\ fetch[t].snapshot \in Snapshot /\ fetch[t].patch \in Patches
          /\ Agrees(fetch[t].snapshot, row, generation) /\ Plain(fetch[t].snapshot)
        BY <1>2 DEF FinishChoice, QTyped, QTypeOK, Beliefs, Fetched, AloneBases
    <2>2. /\ UNCHANGED <<todo, sent, reply, lock, running, network>>
          /\ UNCHANGED serverVars
        BY <1>2 DEF FinishChoice
    <2> QED
        BY <1>2, <2>1, <2>2
<1> QED
    BY <1>1, <1>2 DEF SavesOnBase

\* localStorage takes every record, and none is flagged at once.
LEMMA MakesPersists ==
    ASSUME Undisturbed, QTyped, NEW t \in Tabs, NEW b \in Snapshot,
           NEW c \in Chain, NEW p \in Patches, NEW r \in Stored,
           Makes(t, b, c, p, r), Plain(b)
    PROVE  /\ store' = store \cup {r}
           /\ issued' = issued \cup {r.operation.id}
           /\ UNCHANGED <<quarantine, volatile, denials>>
           /\ Plain(base'[t]) /\ \A u \in Tabs \ {t} : base'[u] = base[u]
<1>1. denials \in Nat /\ MaxDenials = 0
    BY DEF QTyped, QTypeOK, Undisturbed
<1>2. Persist(t, b, p, r)
    BY <1>1 DEF Makes, Writes, PersistUnflagged, Retain, Plain
<1>3. /\ store' = store \cup {r}
      /\ UNCHANGED <<quarantine, volatile, denials>>
    BY <1>2 DEF Persist, Plain
<1>4. base' = [base EXCEPT ![t] = [b EXCEPT !.conflict = b.conflict /\ ~Explicit(p.intent)]]
    BY <1>2 DEF Persist
<1>5. /\ base'[t] = [b EXCEPT !.conflict = b.conflict /\ ~Explicit(p.intent)]
      /\ \A u \in Tabs \ {t} : base'[u] = base[u]
    BY <1>4 DEF QTyped, QTypeOK
<1>6. Plain(base'[t])
    BY <1>5 DEF Plain, Snapshot
<1> QED
    BY <1>3, <1>5, <1>6 DEF Makes

\* What is made of a patch within the timeline is an operation of it.
LEMMA MadeFits ==
    ASSUME Undisturbed, QServed, AloneServer, NEW t \in Tabs, NEW b \in Snapshot,
           NEW c \in Chain, NEW p \in Patches, NEW r \in Stored,
           Makes(t, b, c, p, r), Plain(b)
    PROVE  LET o == r.operation
           IN  /\ o.generation = 1 /\ o.reset = 0 /\ o.intent # "reset"
               /\ Present(o) /\ WithinFile(o) /\ Locatable(o) /\ TupleAgrees(o)
               /\ o.base = b.revision /\ o.predecessor = c.predecessor
               /\ o.sequence = c.sequence + 1 /\ c.epoch <= o.epoch
               /\ chain'[t].epoch = o.epoch
<1> DEFINE o == r.operation
           i == FileAt(files, p.position)
<1>1. PICK expected \in ExpectedGenerations(b) :
          o = NewOperation(o.id, b, Advance(c, p), p, expected)
    BY DEF Makes
<1>2. files \in Seq(File) /\ Sound(files) /\ Within(files, p) /\ files # <<>>
    BY OperationAssumption DEF Undisturbed, AloneServer, Plain, Makes, Available
<1>3. p.position \in Nat /\ p.intent \in PatchIntents
    BY QueueAssumption
<1>4. /\ i \in 1..Len(files) /\ Before(files, i) \in Nat /\ Before(files, i) <= p.position
      /\ KnownBefore(files, i)
    BY <1>2, <1>3, FileAtType DEF KnownBefore
<1>5. /\ files[i].duration > 0 => p.position - Before(files, i) <= files[i].duration
      /\ p.intent = "finish" => i = Len(files)
    BY <1>2 DEF Within
<1>6. /\ Advance(c, p) \in Chain
      /\ Advance(c, p).session = c.session
      /\ Advance(c, p).sequence = c.sequence
      /\ Advance(c, p).predecessor = c.predecessor
    BY AdvanceType
<1>7. c.epoch <= Advance(c, p).epoch
    BY DEF Advance, Chain
<1>8. /\ o.generation = expected /\ o.reset = 0 /\ o.intent = p.intent
      /\ o.file = files[i].id /\ o.offset = p.position - Before(files, i)
      /\ o.position = p.position /\ o.finished = (p.intent = "finish")
      /\ o.base = b.revision /\ o.predecessor = c.predecessor
      /\ o.sequence = c.sequence + 1 /\ o.epoch = Advance(c, p).epoch
    BY <1>1, <1>6 DEF NewOperation, Plain
<1>9. expected = 1
    BY DEF ExpectedGenerations, Plain
<1>10. IndexOf(files, o.file) = {i}
    <2> HIDE DEF i, o
    <2> QED
        BY <1>2, <1>4, <1>8 DEF IndexOf, Sound
<1>11. chain'[t].epoch = o.epoch
    <2>1. chain' = [chain EXCEPT ![t] =
              [Advance(c, p) EXCEPT !.sequence = o.sequence, !.predecessor = o.id]]
        BY DEF Makes
    <2>2. chain'[t] = [Advance(c, p) EXCEPT !.sequence = o.sequence, !.predecessor = o.id]
        BY <2>1 DEF QServed, QTyped, QTypeOK
    <2>3. chain'[t].epoch = Advance(c, p).epoch
        BY <1>6, <2>2 DEF Chain
    <2> QED
        BY <1>8, <2>3
<1> HIDE DEF i, o
<1>12. o.intent # "reset"
    BY <1>3, <1>8 DEF PatchIntents
<1>13. Present(o)
    BY <1>2, <1>10 DEF Present, Sound
<1>14. WithinFile(o)
    BY <1>5, <1>8, <1>10 DEF WithinFile
<1>15. Locatable(o)
    BY <1>4, <1>10 DEF Locatable
<1>16. TupleAgrees(o)
    <2>1. o.position = Before(files, i) + o.offset
        BY <1>3, <1>4, <1>8
    <2>2. o.finished => i = Len(files)
        BY <1>5, <1>8
    <2> QED
        BY <1>10, <2>1, <2>2 DEF TupleAgrees
<1>17. o.generation = 1 /\ o.reset = 0 /\ c.epoch <= o.epoch
    BY <1>7, <1>8, <1>9
<1> QED
    BY <1>8, <1>11, <1>12, <1>13, <1>14, <1>15, <1>16, <1>17 DEF o

-----------------------------------------------------------------------------
(* The operations stay in line.                                            *)

LEMMA SettledStays ==
    ASSUME NEW x, UNCHANGED files, Settled(x) PROVE Settled(x)'
    BY DEF Settled, Present, WithinFile, Locatable, TupleAgrees

\* There is one chain, it is ahead of every operation, and one that continues
\* none is the first.
LEMMA OneChain ==
    ASSUME Undisturbed, QServed, QChained, AloneChains,
           NEW t \in Tabs, NEW c \in Chain, Continues(t, c)
    PROVE  /\ \A x \in Operations :
                  /\ c.predecessor # None
                  /\ x.sequence <= c.sequence
                  /\ c.predecessor = x.id => x.epoch <= c.epoch
           /\ \A u \in Tabs \ {t} : chain[u] = None
<1>1. QTyped
    BY DEF QServed
<1>2. /\ c.session \in Sessions
      /\ \A x \in Operations : x.session \in Sessions /\ x.session \in opened
      /\ \A u \in Tabs : chain[u] # None =>
             chain[u].session \in Sessions /\ chain[u].session \in opened
    <2>1. ASSUME NEW x \in Operations PROVE x.session \in Sessions
        BY <1>1, OperationsTyped DEF Envelope
    <2>2. ASSUME NEW u \in Tabs, chain[u] # None PROVE chain[u] \in Chain
        BY <1>1, <2>2 DEF QTyped, QTypeOK
    <2>3. \A d \in Chain : d.session \in Sessions
        BY DEF Chain
    <2> QED
        BY <2>1, <2>2, <2>3
        DEF QChained, IdsAreIssued, ChainsContinue, ChainContinues
<1>3. CASE c = chain[t] /\ chain[t] # None
    BY <1>2, <1>3
    DEF Undisturbed, QChained, ChainsContinue, ChainContinues, AloneChains
<1>4. CASE c.session \notin opened
    <2>1. \A x \in Operations : FALSE
        BY <1>2, <1>4 DEF Undisturbed
    <2>2. \A u \in Tabs : chain[u] = None
        BY <1>2, <1>4 DEF Undisturbed
    <2> QED
        BY <2>1, <2>2
<1> QED
    BY <1>3, <1>4 DEF Continues

\* The operation that a save adds comes after all others.
LEMMA SaveStaysInLine ==
    ASSUME Undisturbed, QServed, QChained, AloneServer, AloneOperations, AloneChains,
           NEW t \in Tabs, NEW c \in Chain, Continues(t, c),
           NEW b \in Snapshot, NEW p \in Patches, NEW r \in Stored,
           Makes(t, b, c, p, r), Saves(t, c, r), Plain(b), Agrees(b, row, generation),
           UNCHANGED <<files, receipts>>
    PROVE  AloneOperations' /\ AloneChains'
<1> DEFINE o == r.operation
<1>1. \A x \in Operations' : x \in Operations \/ x = o
    BY SaveGrows
<1>2. /\ o.generation = 1 /\ o.reset = 0 /\ o.intent # "reset"
      /\ Present(o) /\ WithinFile(o) /\ Locatable(o) /\ TupleAgrees(o)
      /\ o.base = b.revision /\ o.predecessor = c.predecessor
      /\ o.sequence = c.sequence + 1 /\ c.epoch <= o.epoch
      /\ chain'[t].epoch = o.epoch
    BY MadeFits
<1>3. /\ \A x \in Operations :
             /\ c.predecessor # None
             /\ x.sequence <= c.sequence
             /\ c.predecessor = x.id => x.epoch <= c.epoch
      /\ \A u \in Tabs \ {t} : chain[u] = None
    BY OneChain
<1>4. /\ o \in Envelope /\ o.id \notin issued
      /\ chain'[t].sequence = o.sequence /\ chain'[t].predecessor = o.id
      /\ \A u \in Tabs \ {t} : chain'[u] = chain[u]
    BY DEF Saves, Follows, Stored
<1>5. \A x \in Operations : /\ x \in Envelope /\ x.id # o.id
                            /\ x.predecessor # o.id
    <2>1. \A x \in Operations : x.id \in issued /\ x.predecessor \in issued \cup {None}
        BY DEF QChained, IdsAreIssued
    <2>2. o.id # None
        BY <1>4, OperationAssumption DEF Envelope
    <2> QED
        BY <1>4, <2>1, <2>2, OperationsTyped DEF QServed
<1>6. c.sequence \in Nat /\ c.epoch \in Nat /\ c.predecessor \in OperationIds \cup {None}
    BY DEF Chain
<1> HIDE DEF o
<1>7. \A x \in Operations : x.sequence \in Nat /\ x.epoch \in Nat
    BY <1>5 DEF Envelope
<1>8. o.sequence \in Nat /\ o.epoch \in Nat /\ o.id \in OperationIds
    BY <1>4 DEF Envelope
<1>9. o.predecessor = None => o.base = 0
    <2>1. SUFFICES ASSUME c.predecessor = None PROVE b.revision = 0
        BY <1>2
    <2>2. \A x : x \notin Operations
        BY <1>3, <2>1
    <2>3. \A id : id \notin DOMAIN receipts
        BY <2>2, OperationsMean
    <2>4. row.revision \in Nat /\ b.revision \in Nat
        BY DEF QServed, QTyped, QTypeOK, TypeOK, Row, Snapshot
    <2>5. row.revision = 0
        <3>1. ASSUME row.revision # 0 PROVE FALSE
            <4>1. 1 \in 1..row.revision
                BY <2>4, <3>1
            <4> QED
                BY <2>3, <4>1 DEF AloneServer
        <3> QED
            BY <3>1
    <2> QED
        BY <2>4, <2>5 DEF Agrees
<1>10. Settled(o)
    BY <1>2, <1>9 DEF Settled
<1>11. \A x \in Operations' : Settled(x)'
    BY <1>1, <1>10, SettledStays DEF AloneOperations
<1>12. \A x, y \in Operations' : x.sequence = y.sequence => x = y
    <2>1. \A x \in Operations : x.sequence # o.sequence
        BY <1>2, <1>3, <1>6, <1>7
    <2> QED
        BY <1>1, <2>1 DEF AloneOperations
<1>13. \A x, y \in Operations' : x.predecessor = y.id => y.epoch <= x.epoch
    <2>1. \A y \in Operations : o.predecessor = y.id => y.epoch <= o.epoch
        BY <1>2, <1>3, <1>6, <1>7, <1>8
    <2>2. o.epoch <= o.epoch
        BY <1>8
    <2> QED
        BY <1>1, <1>5, <2>1, <2>2 DEF AloneOperations
<1>14. AloneChains'
    <2>1. \A x \in Operations' :
              /\ x.sequence <= chain'[t].sequence
              /\ chain'[t].predecessor = x.id => x.epoch <= chain'[t].epoch
        BY <1>1, <1>2, <1>3, <1>4, <1>5, <1>6, <1>7, <1>8
    <2>2. \A u \in Tabs \ {t} : chain'[u] = None
        BY <1>3, <1>4
    <2> QED
        BY <2>1, <2>2 DEF AloneChains
<1> QED
    BY <1>11, <1>12, <1>13, <1>14 DEF AloneOperations

LEMMA OperationsStayAlone ==
    ASSUME Undisturbed, QServed, QChained, Beliefs, AloneServer, AloneOperations,
           AloneChains, AloneBases, AloneRecords, [QNext]_vars
    PROVE  AloneOperations' /\ AloneChains'
<1>1. QTyped /\ SendableIssued
    BY OperationsMean DEF QServed, QChained, IdsAreIssued, SendableIssued, Records
<1>2. UNCHANGED files
    BY NobodyElse
<1>3. ASSUME Operations' \subseteq Operations PROVE AloneOperations'
    <2>1. \A x \in Operations' : Settled(x)'
        BY <1>2, <1>3, SettledStays DEF AloneOperations
    <2> QED
        BY <1>3, <2>1 DEF AloneOperations
<1>4. CASE Moves /\ Receives
    <2>1. Operations' \subseteq Operations
        BY <1>4, MovesShrink
    <2>2. AloneChains'
        BY <1>4, <2>1 DEF AloneChains, Moves
    <2> QED
        BY <1>3, <2>1, <2>2
<1>5. ASSUME NEW t \in Tabs, NEW c \in Chain, SavingStep(t, c)
      PROVE  AloneOperations' /\ AloneChains'
    <2>1. SavesOnBase(t, c) /\ Continues(t, c) /\ UNCHANGED receipts
        BY <1>5 DEF SavingStep
    <2>2. PICK b \in Snapshot, p \in Patches :
              Save(t, b, c, p) /\ Agrees(b, row, generation) /\ Plain(b)
        BY <1>1, <2>1, SavesOnPlainBase
    <2>3. UNCHANGED <<todo, sent, network>>
        BY <1>1, <2>1, SavesOnPlainBase
    <2>4. ASSUME NEW r \in Stored, Makes(t, b, c, p, r)
          PROVE  AloneOperations' /\ AloneChains'
        <3>1. Saves(t, c, r)
            BY <1>1, <2>3, <2>4, MakesSaves
        <3> QED
            BY <1>2, <2>1, <2>2, <2>4, <3>1, SaveStaysInLine
    <2>5. CASE MakesNone(t, b, c, p)
        <3>1. Operations' = Operations
            BY <2>1, <2>3, <2>5
            DEF MakesNone, Operations, Accounted, Records, Sendable, Planned,
                Carried, Awaited, Held
        <3>2. chain'[t] = Advance(c, p) /\ \A u \in Tabs \ {t} : chain'[u] = chain[u]
            BY <1>1, <2>5 DEF MakesNone, QTyped, QTypeOK
        <3>3. /\ Advance(c, p).sequence = c.sequence
              /\ Advance(c, p).predecessor = c.predecessor
              /\ Advance(c, p).epoch \in Nat /\ c.epoch \in Nat
              /\ c.epoch <= Advance(c, p).epoch
            BY DEF Advance, Chain
        <3>4. \A x \in Operations : x.epoch \in Nat
            BY <1>1, OperationsTyped DEF Envelope
        <3>5. \A x \in Operations :
                  /\ x.sequence <= c.sequence
                  /\ c.predecessor = x.id => x.epoch <= c.epoch
            BY <2>1, OneChain
        <3>6. \A u \in Tabs \ {t} : chain[u] = None
            BY <2>1, OneChain
        <3>7. AloneChains'
            <4>1. \A x \in Operations :
                      Advance(c, p).predecessor = x.id => x.epoch <= Advance(c, p).epoch
                BY <3>3, <3>4, <3>5
            <4> QED
                BY <3>1, <3>2, <3>3, <3>5, <3>6, <4>1 DEF AloneChains
        <3> QED
            BY <1>3, <3>1, <3>7
    <2> QED
        BY <2>2, <2>4, <2>5, SaveMeans
<1> QED
    BY <1>1, <1>4, <1>5, QNextMoves

-----------------------------------------------------------------------------
(* The bases stay plain.                                                   *)

LEMMA PlainStays ==
    ASSUME AloneBases, UNCHANGED files, NEW t \in Tabs,
           cached' = cached \/ Plain(cached'),
           base'[t] = base[t] \/ base'[t] = None \/ Plain(base'[t]),
           fetch'[t] = fetch[t] \/ fetch'[t] = None \/ Plain(fetch'[t].snapshot),
           \A u \in Tabs \ {t} : base'[u] = base[u] /\ fetch'[u] = fetch[u]
    PROVE  AloneBases'
    BY DEF AloneBases, Plain

\* A save leaves a plain base.
LEMMA SavePlain ==
    ASSUME Undisturbed, QTyped, AloneBases, NEW t \in Tabs, NEW b \in Snapshot,
           NEW c \in Chain, NEW p \in Patches, Save(t, b, c, p), Plain(b),
           UNCHANGED files, cached' = cached \/ cached' = b,
           fetch'[t] = fetch[t] \/ fetch'[t] = None,
           \A u \in Tabs \ {t} : fetch'[u] = fetch[u]
    PROVE  AloneBases'
<1>1. Plain(base'[t]) /\ \A u \in Tabs \ {t} : base'[u] = base[u]
    <2>1. CASE MakesNone(t, b, c, p)
        BY <2>1 DEF MakesNone, QTyped, QTypeOK
    <2>2. ASSUME NEW r \in Stored, Makes(t, b, c, p, r)
          PROVE  Plain(base'[t]) /\ \A u \in Tabs \ {t} : base'[u] = base[u]
        BY <2>2, MakesPersists
    <2> QED
        BY <2>1, <2>2, SaveMeans
<1> QED
    BY <1>1, PlainStays

LEMMA BasesStayAlone ==
    ASSUME Undisturbed, QServed, QChained, AloneServer, AloneOperations, AloneBases,
           AloneRecords, [QNext]_vars
    PROVE  AloneBases'
<1>1. QTyped /\ SendableIssued
    BY OperationsMean DEF QServed, QChained, IdsAreIssued, SendableIssued, Records
<1>2. UNCHANGED files
    BY NobodyElse
<1>3. Plain(MediaSnapshot) /\ Plain(Edition)
    BY SnapshotsArePlain
<1>4. CASE UNCHANGED <<cached, base, fetch>>
    BY <1>2, <1>4 DEF AloneBases, Plain
<1>5. ASSUME NEW t \in Tabs, TabNext(t) PROVE AloneBases'
    <2>1. CASE \/ RefuseHeartbeat(t) \/ Flush(t) \/ Acquire(t) \/ LeaseHeld(t)
               \/ CascadeConflict(t) \/ Request(t) \/ Quarantine(t)
               \/ FinishReplay(t) \/ NoticeExpiry(t) \/ GiveUp(t) \/ ExpireLease(t)
        BY <1>4, <2>1
        DEF RefuseHeartbeat, Flush, Acquire, LeaseHeld, CascadeConflict, Request,
            Quarantine, Answered, FinishReplay, NoticeExpiry, GiveUp, ExpireLease,
            storageVars, pageVars
    <2>2. CASE \/ FetchSnapshot(t) \/ FetchEdition(t)
               \/ \E p \in Patches : BeginChoice(t, p)
        <3>1. UNCHANGED <<cached, base>>
            BY <2>2 DEF FetchSnapshot, FetchEdition, BeginChoice, storageVars
        <3>2. /\ fetch'[t].snapshot \in {MediaSnapshot, Edition}
              /\ \A u \in Tabs \ {t} : fetch'[u] = fetch[u]
            BY <1>1, <2>2
            DEF FetchSnapshot, FetchEdition, BeginChoice, QTyped, QTypeOK
        <3>3. Plain(fetch'[t].snapshot)
            BY <1>3, <3>2
        <3> QED
            BY <1>2, <3>1, <3>2, <3>3, PlainStays
    <2>3. ASSUME NEW b, Plain(b), Install(t, b), fetch'[t] = fetch[t] \/ fetch'[t] = None,
                 \A u \in Tabs \ {t} : fetch'[u] = fetch[u]
          PROVE  AloneBases'
        <3>1. /\ base'[t] = b /\ cached' = b
              /\ \A u \in Tabs \ {t} : base'[u] = base[u]
            BY <1>1, <2>3 DEF Install, QTyped, QTypeOK
        <3>2. Plain(base'[t]) /\ Plain(cached')
            BY <2>3, <3>1
        <3> QED
            BY <1>2, <2>3, <3>1, <3>2, PlainStays
    <2>4. CASE InstallSnapshot(t)
        <3>1. Plain(fetch[t].snapshot) /\ Install(t, fetch[t].snapshot)
            BY <2>4 DEF InstallSnapshot, AloneBases
        <3>2. fetch'[t] = None /\ \A u \in Tabs \ {t} : fetch'[u] = fetch[u]
            BY <1>1, <2>4 DEF InstallSnapshot, QTyped, QTypeOK
        <3> QED
            BY <2>3, <3>1, <3>2
    <2>5. CASE AdoptCachedBase(t)
        <3>1. UNCHANGED <<cached, fetch>> /\ cached # None
            BY <2>5 DEF AdoptCachedBase, storageVars
        <3>2. base'[t] = cached /\ \A u \in Tabs \ {t} : base'[u] = base[u]
            BY <1>1, <2>5 DEF AdoptCachedBase, QTyped, QTypeOK
        <3>3. Plain(base'[t])
            BY <3>1, <3>2 DEF AloneBases
        <3> QED
            BY <1>2, <3>1, <3>2, <3>3, PlainStays
    <2>6. ASSUME NEW p \in Patches, Enqueue(t, p) PROVE AloneBases'
        <3>1. PICK c \in Chain : Save(t, base[t], c, p)
            BY <1>1, <2>6, EnqueueSaves
        <3>2. base[t] \in Snapshot /\ Plain(base[t])
            BY <1>1, <2>6 DEF Enqueue, QTyped, QTypeOK, AloneBases
        <3>3. UNCHANGED <<cached, fetch>>
            BY <2>6 DEF Enqueue
        <3> QED
            BY <1>1, <1>2, <3>1, <3>2, <3>3, SavePlain
    <2>7. CASE FinishChoice(t)
        <3> DEFINE b == fetch[t].snapshot
        <3>1. PICK c \in Chain : Save(t, b, c, fetch[t].patch)
            BY <1>1, <2>7, FinishChoiceSaves
        <3>2. b \in Snapshot /\ fetch[t].patch \in Patches /\ Plain(b)
            BY <1>1, <2>7 DEF FinishChoice, QTyped, QTypeOK, AloneBases, Fetched
        <3>3. cached' = b
            BY <2>7 DEF FinishChoice
        <3>4. fetch'[t] = None /\ \A u \in Tabs \ {t} : fetch'[u] = fetch[u]
            BY <1>1, <2>7 DEF FinishChoice, QTyped, QTypeOK
        <3> HIDE DEF b
        <3> QED
            BY <1>1, <1>2, <3>1, <3>2, <3>3, <3>4, SavePlain
    <2>8. CASE Settle(t)
        <3> DEFINE o == sent[t].record.operation
        <3>1. Answered(t) /\ reply[t] \in {"accept", "receipt"}
            BY <2>8 DEF Settle
        <3>2. UNCHANGED fetch
            BY <3>1 DEF Answered
        <3>3. CASE base[t] = None
            BY <1>2, <2>8, <3>2, <3>3, PlainStays DEF Settle
        <3>4. CASE base[t] # None
            <4>1. o.id \in DOMAIN receipts /\ receipts[o.id].envelope = o
                BY <3>1, AnsweredReceipt
            <4>2. receipts[o.id].reset = 0
                BY <4>1 DEF AloneServer
            <4>3. base[t] \in Snapshot /\ Plain(base[t])
                BY <1>1, <3>4 DEF QTyped, QTypeOK, AloneBases
            <4>4. base' = [base EXCEPT ![t] = Acknowledged(base[t], o)] /\ cached' = base'[t]
                BY <2>8, <3>4 DEF Settle
            <4>5. /\ base'[t] = Acknowledged(base[t], o) /\ cached' = base'[t]
                  /\ \A u \in Tabs \ {t} : base'[u] = base[u]
                BY <1>1, <4>4 DEF QTyped, QTypeOK
            <4>6. Plain(Acknowledged(base[t], o))
                <5> HIDE DEF o
                <5> QED
                    BY <4>2, <4>3 DEF Acknowledged, Plain, Snapshot
            <4>7. Plain(base'[t]) /\ Plain(cached')
                BY <4>5, <4>6
            <4> QED
                BY <1>2, <3>2, <4>5, <4>7, PlainStays
        <3> QED
            BY <3>3, <3>4
    <2>9. CASE Reload(t)
        <3>1. UNCHANGED cached
            BY <2>9 DEF Reload, storageVars
        <3>2. /\ base'[t] = None /\ fetch'[t] = None
              /\ \A u \in Tabs \ {t} : base'[u] = base[u] /\ fetch'[u] = fetch[u]
            BY <1>1, <2>9 DEF Reload, QTyped, QTypeOK
        <3> QED
            BY <1>2, <3>1, <3>2, PlainStays
    <2> QED
        BY <1>5, <2>1, <2>2, <2>4, <2>5, <2>6, <2>7, <2>8, <2>9
        DEF TabNext, ReplayStep
<1>6. ASSUME NEW q \in network, Serve(q) PROVE AloneBases'
    BY <1>4, <1>6 DEF Serve, storageVars, pageVars
<1>7. CASE UNCHANGED vars
    BY <1>4, <1>7 DEF vars, storageVars, pageVars
<1> QED
    BY <1>5, <1>6, <1>7, NobodyElse DEF QNext

-----------------------------------------------------------------------------
(* Nothing is lost, and what is flagged is excused.                        *)

LEMMA ReplayFrame ==
    ASSUME NEW u \in Tabs, AloneReplay(u), volatile'[u] = {}, todo'[u] = todo[u],
           sent'[u] = sent[u] \/ sent'[u] = None, u \in running <=> u \in running',
           lock' = u => lock = u /\ store \subseteq store',
           DOMAIN receipts \subseteq DOMAIN receipts', quarantine \subseteq quarantine'
    PROVE  AloneReplay(u)'
<1>1. ASSUME NEW id, Handled(u, id) PROVE Handled(u, id)'
    BY <1>1 DEF Handled, Ids
<1>2. ASSUME NEW o, Ready(o) PROVE Ready(o)'
    BY <1>2 DEF Ready
<1>3. \A r \in todo'[u] : Handled(u, r.operation.predecessor)'
    BY <1>1 DEF AloneReplay
<1>4. CASE sent'[u] = None
    BY <1>3, <1>4 DEF AloneReplay
<1>5. CASE sent'[u] = sent[u]
    <2>1. (sent[u] # None => Ready(sent[u].record.operation))'
        BY <1>5 DEF AloneReplay, Ready
    <2> QED
        BY <1>3, <1>5, <2>1 DEF AloneReplay
<1> QED
    BY <1>4, <1>5

\* A record of the store or of a replay is of an operation, one per id.
LEMMA AloneMeans ==
    ASSUME QServed, QChained
    PROVE  /\ \A r \in store : r \in Records /\ r.operation \in Operations
           /\ \A t \in Tabs : \A r \in todo[t] :
                  r \in Records /\ r.operation \in Operations
           /\ \A t \in Tabs : sent[t] # None =>
                  sent[t].record \in Records /\ sent[t].record.operation \in Operations
           /\ \A q \in network : q.record.operation \in Operations
           /\ \A r, q \in Records : r.operation.id = q.operation.id => r = q
           /\ None \notin Tabs
<1>1. ASSUME NEW r \in Sendable PROVE r \in Records /\ r.operation \in Operations
    BY OperationsMean DEF Records
<1> QED
    BY <1>1, SendableMeans, QueueAssumption DEF QChained, OneRecordPerId

\* What a replay has to do is over, or was before it leaves.
LEMMA LeavesAlone ==
    ASSUME QTyped, AloneRecords, AloneMarks, NEW t \in Tabs, Leave(t),
           UNCHANGED <<receipts, store, quarantine, network, issued>>,
           \A u \in Tabs : volatile'[u] = {}
    PROVE  AloneRecords' /\ AloneMarks'
<1>1. /\ todo'[t] = {} /\ sent'[t] = None /\ reply'[t] = None
      /\ t \notin running' /\ lock' # t
      /\ \A u \in Tabs : lock' = u => lock = u
    BY QueueAssumption DEF Leave, QTyped, QTypeOK
<1>2. \A u \in Tabs \ {t} :
          /\ todo'[u] = todo[u] /\ sent'[u] = sent[u] /\ reply'[u] = reply[u]
          /\ u \in running <=> u \in running'
    BY DEF Leave, QTyped, QTypeOK
<1>3. AloneReplay(t)'
    BY <1>1 DEF AloneReplay
<1>4. \A u \in Tabs \ {t} : AloneReplay(u)'
    BY <1>1, <1>2, ReplayFrame DEF AloneRecords
<1>5. AloneRecords'
    BY <1>3, <1>4 DEF AloneRecords, Ready, Ids
<1>6. AloneMarks'
    BY <1>1, <1>2, QueueAssumption DEF AloneMarks, Excused, Replies
<1> QED
    BY <1>5, <1>6

\* Steps that change neither records nor replays, and a save, which adds one
\* to the store.
LEMMA RecordsAdded ==
    ASSUME QTyped, AloneRecords, AloneMarks, UNCHANGED receipts,
           UNCHANGED <<todo, sent, reply, running, network, quarantine, volatile>>,
           \A u \in Tabs : lock' = u => lock = u,
           store \subseteq store',
           \A id \in issued' : id \in issued \/ id \in Ids(store')
    PROVE  AloneRecords' /\ AloneMarks'
<1>1. \A u \in Tabs : AloneReplay(u)'
    BY ReplayFrame DEF AloneRecords, AloneReplay
<1>2. Ids(store) \subseteq Ids(store')
    BY DEF Ids
<1>3. AloneRecords'
    BY <1>1, <1>2 DEF AloneRecords, Ready
<1>4. AloneMarks'
    BY DEF AloneMarks, Excused
<1> QED
    BY <1>3, <1>4

LEMMA AcquireAlone ==
    ASSUME QServed, QChained, AloneRecords, AloneMarks, NEW t \in Tabs, Acquire(t)
    PROVE  AloneRecords' /\ AloneMarks'
<1>1. /\ t \notin running /\ lock' = t /\ running' = running \cup {t}
      /\ todo'[t] = store /\ \A u \in Tabs \ {t} : todo'[u] = todo[u]
      /\ UNCHANGED <<sent, reply, network, issued, store, quarantine, volatile>>
      /\ UNCHANGED receipts
    BY DEF Acquire, QServed, QTyped, QTypeOK, storageVars, pageVars, idVars, serverVars
<1>2. sent[t] = None
    BY <1>1 DEF AloneRecords, AloneReplay
<1>3. reply[t] = None
    BY <1>2 DEF QServed, QTyped, ReceiptsAnswered
<1>4. \A r \in store : r.operation.predecessor \in issued \cup {None}
    BY AloneMeans DEF QChained, IdsAreIssued
<1>5. AloneReplay(t)'
    BY <1>1, <1>2, <1>4 DEF AloneRecords, AloneReplay, Handled
<1>6. \A u \in Tabs \ {t} : AloneReplay(u)'
    <2>1. \A u \in Tabs \ {t} : AloneReplay(u) /\ volatile[u] = {}
        BY DEF AloneRecords, AloneReplay
    <2> QED
        BY <1>1, <2>1, ReplayFrame
<1>7. AloneRecords'
    BY <1>1, <1>5, <1>6 DEF AloneRecords, Ready
<1>8. AloneMarks'
    BY <1>1, <1>2 DEF AloneMarks, Excused
<1> QED
    BY <1>7, <1>8

\* A successor of a flagged save shares its excuse.
LEMMA CascadeAlone ==
    ASSUME QServed, QChained, AloneRecords, AloneMarks, NEW t \in Tabs, CascadeConflict(t)
    PROVE  AloneRecords' /\ AloneMarks'
<1>1. PICK r \in Heads(t) :
          /\ r.operation.predecessor \in quarantine
          /\ quarantine' = quarantine \cup {r.operation.id}
          /\ todo' = [todo EXCEPT ![t] = todo[t] \ {r}]
    BY DEF CascadeConflict
<1>2. /\ lock = t /\ t \in running /\ sent[t] = None
      /\ UNCHANGED <<sent, reply, lock, running, network, issued, store, volatile>>
      /\ UNCHANGED receipts
    BY DEF CascadeConflict, Looping, pageVars, idVars, serverVars
<1>3. /\ todo'[t] = todo[t] \ {r} /\ \A u \in Tabs \ {t} : todo'[u] = todo[u]
      /\ r \in todo[t]
    BY <1>1, HeadsType DEF QServed, QTyped, QTypeOK
<1>4. AloneReplay(t)
    BY DEF AloneRecords
<1>5. AloneReplay(t)'
    <2>1. ASSUME NEW id, Handled(t, id) PROVE Handled(t, id)'
        BY <1>1, <1>2, <1>3, <2>1 DEF Handled, Ids
    <2>2. \A x \in todo'[t] : Handled(t, x.operation.predecessor)'
        BY <1>3, <1>4, <2>1 DEF AloneReplay
    <2> QED
        BY <1>2, <1>3, <1>4, <2>2 DEF AloneReplay
<1>6. \A u \in Tabs \ {t} : AloneReplay(u)'
    <2>1. \A u \in Tabs \ {t} : AloneReplay(u) /\ volatile[u] = {}
        BY DEF AloneRecords, AloneReplay
    <2> QED
        BY <1>1, <1>2, <1>3, <2>1, ReplayFrame
<1>7. AloneRecords'
    BY <1>2, <1>5, <1>6 DEF AloneRecords, Ready
<1>8. ASSUME NEW x, Excused(x) PROVE Excused(x)'
    BY <1>1, <1>2, <1>8 DEF Excused
<1>9. r \in store
    BY <1>2, <1>3, <1>4 DEF AloneReplay
<1>10. Excused(r)'
    <2>1. PICK q \in store : q.operation.id = r.operation.predecessor /\ Excused(q)
        BY <1>1 DEF AloneMarks
    <2>2. r.operation \in Operations /\ q.operation \in Operations
        BY <1>9, AloneMeans
    <2>3. /\ r.operation.session = q.operation.session
          /\ r.operation.sequence = q.operation.sequence + 1
        BY <2>1, <2>2 DEF QChained, Chained
    <2>4. PICK w \in store :
              /\ w.operation.session = q.operation.session
              /\ w.operation.sequence <= q.operation.sequence
              /\ w.operation.id \in quarantine
              /\ w.operation.intent = "heartbeat"
        BY <2>1 DEF Excused
    <2>5. w.operation.sequence \in Nat /\ q.operation.sequence \in Nat
        BY <2>4, <2>2, AloneMeans, OperationsTyped DEF QServed, Envelope
    <2>6. w.operation.sequence <= r.operation.sequence
        BY <2>3, <2>4, <2>5
    <2> QED
        BY <1>1, <1>2, <2>3, <2>4, <2>6 DEF Excused
<1>11. \A id \in quarantine' : \E x \in store : x.operation.id = id /\ Excused(x)'
    <2>1. ASSUME NEW id \in quarantine
          PROVE  \E x \in store : x.operation.id = id /\ Excused(x)'
        BY <1>8 DEF AloneMarks
    <2> QED
        BY <1>1, <1>9, <1>10, <2>1
<1>12. AloneMarks'
    <2>1. \A u \in Tabs \ {t} : lock' # u
        BY <1>2
    <2> QED
        BY <1>2, <1>11, <2>1 DEF AloneMarks
<1> QED
    BY <1>7, <1>12

\* A replay requests an operation after the one it continues was settled.
LEMMA HeadsAreReady ==
    ASSUME Undisturbed, QServed, QChained, AloneRecords, NEW t \in Tabs,
           NEW r \in Heads(t), r.operation.predecessor \notin quarantine
    PROVE  Ready(r.operation)
<1> DEFINE p == r.operation.predecessor
<1>1. r \in todo[t]
    BY HeadsType DEF QServed
<1>2. Handled(t, p)
    BY <1>1 DEF AloneRecords, AloneReplay
<1>3. ASSUME p # None, p \notin DOMAIN receipts PROVE FALSE
    <2>1. PICK q \in todo[t] : q.operation.id = p
        BY <1>2, <1>3 DEF Handled, Ids
    <2>2. r.operation \in Operations /\ q.operation \in Operations
        BY <1>1, AloneMeans
    <2>3. /\ r.operation.session = q.operation.session
          /\ r.operation.sequence = q.operation.sequence + 1
        BY <2>1, <2>2 DEF QChained, Chained
    <2>4. q.createdAt = r.createdAt
        <3>1. q \in Stored /\ r \in Stored
            BY <1>1, <2>1 DEF QServed, QTyped, QTypeOK
        <3> QED
            BY <3>1 DEF Stored, Undisturbed
    <2>5. q.operation.sequence \in Nat
        BY <2>2, OperationsTyped DEF QServed, Envelope
    <2>6. q.operation.sequence < r.operation.sequence
        BY <2>3, <2>5
    <2>7. Earlier(q, r)
        BY <2>3, <2>4, <2>6 DEF Earlier
    <2>8. q.operation.id \notin quarantine
        BY <2>1
    <2> QED
        BY <2>7, <2>8 DEF Heads
<1> QED
    BY <1>3 DEF Ready

LEMMA RequestAlone ==
    ASSUME Undisturbed, QServed, QChained, AloneRecords, AloneMarks,
           NEW t \in Tabs, Request(t)
    PROVE  AloneRecords' /\ AloneMarks'
<1>1. PICK r \in Heads(t) :
          /\ r.operation.predecessor \notin quarantine
          /\ sent' = [sent EXCEPT ![t] = [record |-> r, attempt |-> faults]]
          /\ \/ reply' = [reply EXCEPT ![t] = "receipt"] /\ UNCHANGED network
             \/ network' = network \cup {sent'[t]} /\ UNCHANGED reply
    BY DEF Request
<1>2. /\ lock = t /\ t \in running /\ sent[t] = None
      /\ UNCHANGED <<todo, lock, running, issued, store, quarantine, volatile>>
      /\ UNCHANGED receipts
    BY DEF Request, Looping, storageVars, pageVars, idVars, serverVars
<1>3. /\ sent'[t].record = r /\ \A u \in Tabs \ {t} : sent'[u] = sent[u]
      /\ r \in todo[t] /\ r.operation.id \notin quarantine
    <2>1. r \in todo[t] /\ r.operation.id \notin quarantine
        BY HeadsType DEF Heads
    <2> QED
        BY <1>1, <2>1 DEF QServed, QTyped, QTypeOK
<1>4. Ready(r.operation)
    BY <1>1, HeadsAreReady
<1>5. AloneReplay(t)'
    BY <1>2, <1>3, <1>4 DEF AloneRecords, AloneReplay, Handled, Ready
<1>6. \A u \in Tabs \ {t} : AloneReplay(u)'
    <2>1. \A u \in Tabs \ {t} : AloneReplay(u) /\ volatile[u] = {}
        BY DEF AloneRecords, AloneReplay
    <2> QED
        BY <1>2, <1>3, <2>1, ReplayFrame
<1>7. \A q \in network' : Ready(q.record.operation)
    BY <1>1, <1>3, <1>4 DEF AloneRecords
<1>8. AloneRecords'
    BY <1>2, <1>5, <1>6, <1>7 DEF AloneRecords, Ready
<1>9. reply[t] = None
    BY <1>2 DEF QServed, QTyped, ReceiptsAnswered
<1>10. /\ reply'[t] \in {None, "receipt"}
       /\ \A u \in Tabs \ {t} : reply'[u] = reply[u]
    BY <1>1, <1>9 DEF QServed, QTyped, QTypeOK
<1>11. reply'[t] \notin {"conflict", "envelope"}
    BY <1>10, QueueAssumption DEF Replies
<1>12. AloneMarks'
    BY <1>2, <1>3, <1>10, <1>11 DEF AloneMarks, Excused
<1> QED
    BY <1>8, <1>12

\* The server refuses heartbeats only.
LEMMA ServeAlone ==
    ASSUME Undisturbed, QServed, QChained, SessionsApplyInOrder, Behind,
           AloneServer, AloneOperations, AloneRecords, AloneMarks,
           NEW q \in network, Serve(q)
    PROVE  AloneRecords' /\ AloneMarks'
<1> DEFINE o == q.record.operation
<1>1. /\ network' \subseteq network
      /\ \A t \in Tabs : reply'[t] = IF sent[t] = q THEN Outcome(o) ELSE reply[t]
      /\ UNCHANGED <<todo, sent, lock, running, issued, store, quarantine, volatile>>
    BY DEF Serve, storageVars, pageVars, idVars
<1>2. DOMAIN receipts \subseteq DOMAIN receipts'
    BY DEF Serve, ApplyMediaOperation, Commit
<1>3. \A u \in Tabs : AloneReplay(u)'
    BY <1>1, <1>2, ReplayFrame DEF AloneRecords, AloneReplay
<1>4. \A x \in network' : Ready(x.record.operation)'
    BY <1>1, <1>2 DEF AloneRecords, Ready
<1>5. AloneRecords'
    BY <1>1, <1>2, <1>3, <1>4 DEF AloneRecords
<1>6. Outcome(o) \in {"conflict", "envelope"} => o.intent = "heartbeat"
    BY AloneMeans, OnlyStepsBackAreRefused DEF AloneRecords
<1>7. \A t \in Tabs : reply'[t] \in {"conflict", "envelope"} =>
          sent[t].record.operation.intent = "heartbeat"
    BY <1>1, <1>6 DEF AloneMarks
<1>8. AloneMarks'
    BY <1>1, <1>7 DEF AloneMarks, Excused
<1> QED
    BY <1>5, <1>8

\* The answer to the replay that holds the lock, whose records are in the
\* store and whose request is of none that is flagged.
LEMMA AnswerAlone ==
    ASSUME QServed, QChained, AloneRecords, AloneMarks, NEW t \in Tabs,
           Settle(t) \/ Quarantine(t)
    PROVE  AloneRecords' /\ AloneMarks'
<1> PICK r : r = sent[t].record
    OBVIOUS
<1> DEFINE id == r.operation.id
<1>1. /\ Answered(t) /\ lock = t /\ sent[t] # None
      /\ UNCHANGED <<lock, running, network, issued, volatile>> /\ UNCHANGED receipts
    BY DEF Settle, Quarantine, Answered, serverVars, idVars
<1>2. /\ todo'[t] = todo[t] \ {r} /\ sent'[t] = None /\ reply'[t] = None
      /\ \A u \in Tabs \ {t} : /\ todo'[u] = todo[u] /\ sent'[u] = sent[u]
                               /\ reply'[u] = reply[u]
    BY <1>1 DEF Answered, QServed, QTyped, QTypeOK
<1>3. /\ AloneReplay(t) /\ r \in todo[t] /\ r \in store /\ id \notin quarantine
      /\ t \in running
    BY <1>1 DEF AloneRecords, AloneReplay, AloneMarks
<1>4. r \in Records /\ r.operation \in Operations
    BY <1>1, AloneMeans
<1>5. \/ /\ store' = store \ {r} /\ quarantine' = quarantine /\ id \in DOMAIN receipts
      \/ /\ store' = store /\ quarantine' = quarantine \cup {id}
         /\ r.operation.intent = "heartbeat"
    <2>1. CASE Settle(t)
        BY <2>1 DEF Settle, QServed, QTyped, ReceiptsAnswered
    <2>2. CASE Quarantine(t)
        BY <2>2 DEF Quarantine, AloneMarks
    <2> QED
        BY <2>1, <2>2
<1> HIDE DEF id
<1>6. AloneReplay(t)'
    <2>1. ASSUME NEW x, Handled(t, x) PROVE Handled(t, x)'
        BY <1>1, <1>2, <1>5, <2>1 DEF Handled, Ids, id
    <2>2. \A x \in todo'[t] : Handled(t, x.operation.predecessor)'
        BY <1>2, <1>3, <2>1 DEF AloneReplay
    <2>3. todo'[t] \subseteq store'
        BY <1>1, <1>2, <1>3, <1>5 DEF AloneReplay
    <2> QED
        BY <1>1, <1>2, <1>3, <2>2, <2>3 DEF AloneReplay
<1>7. \A u \in Tabs \ {t} : AloneReplay(u)'
    <2>1. \A u \in Tabs \ {t} : AloneReplay(u) /\ volatile[u] = {}
        BY DEF AloneRecords, AloneReplay
    <2>2. \A u \in Tabs \ {t} : lock' # u
        BY <1>1
    <2>3. quarantine \subseteq quarantine'
        BY <1>5
    <2> QED
        BY <1>1, <1>2, <2>1, <2>2, <2>3, ReplayFrame
<1>8. AloneRecords'
    <2>1. \A x \in issued : x \in DOMAIN receipts \/ x \in Ids(store')
        BY <1>5 DEF AloneRecords, Ids, id
    <2> QED
        BY <1>1, <1>6, <1>7, <2>1 DEF AloneRecords, Ready
<1>9. ASSUME NEW x \in store, Excused(x)
      PROVE  x \in store' /\ Excused(x)'
    <2>1. \A w \in store : w.operation.id \in quarantine => w \in store'
        BY <1>3, <1>5 DEF id
    <2>2. quarantine \subseteq quarantine'
        BY <1>5
    <2> QED
        BY <1>9, <2>1, <2>2 DEF Excused
<1>10. ASSUME quarantine' = quarantine \cup {id}, store' = store,
              r.operation.intent = "heartbeat"
       PROVE  r \in store' /\ r.operation.id = id /\ Excused(r)'
    <2>1. r.operation.sequence <= r.operation.sequence
        BY <1>4, OperationsTyped DEF QServed, Envelope
    <2> QED
        BY <1>3, <1>10, <2>1 DEF Excused, id
<1>11. \A x \in quarantine' : \E w \in store' : w.operation.id = x /\ Excused(w)'
    <2>1. \A x \in quarantine : \E w \in store' : w.operation.id = x /\ Excused(w)'
        BY <1>9 DEF AloneMarks
    <2> QED
        BY <1>5, <1>10, <2>1
<1>12. AloneMarks'
    <2>1. \A u \in Tabs \ {t} : lock' # u
        BY <1>1
    <2>2. reply'[t] \notin {"conflict", "envelope"}
        BY <1>2, QueueAssumption DEF Replies
    <2> QED
        BY <1>2, <1>11, <2>1, <2>2 DEF AloneMarks
<1> QED
    BY <1>8, <1>12

LEMMA RecordsStayAlone ==
    ASSUME Undisturbed, QServed, QChained, SessionsApplyInOrder, Beliefs, Behind,
           Alone, [QNext]_vars
    PROVE  AloneRecords' /\ AloneMarks'
<1>1. /\ AloneServer /\ AloneOperations /\ AloneChains
      /\ AloneBases /\ AloneRecords /\ AloneMarks
    BY DEF Alone
<1>2. QTyped /\ SendableIssued
    BY OperationsMean DEF QServed, QChained, IdsAreIssued, SendableIssued, Records
<1>3. \A u \in Tabs : volatile[u] = {}
    BY <1>1 DEF AloneRecords, AloneReplay
<1>4. CASE /\ UNCHANGED <<todo, sent, reply, running, network, quarantine, volatile>>
           /\ UNCHANGED <<store, issued, receipts>>
           /\ \A u \in Tabs : lock' = u => lock = u
    BY <1>1, <1>2, <1>4, RecordsAdded
<1>5. ASSUME NEW t \in Tabs, NEW c \in Chain, SavesOnBase(t, c)
      PROVE  AloneRecords' /\ AloneMarks'
    <2>1. PICK b \in Snapshot, p \in Patches : Save(t, b, c, p) /\ Plain(b)
        BY <1>1, <1>2, <1>5, SavesOnPlainBase
    <2>2. UNCHANGED <<todo, sent, reply, lock, running, network>> /\ UNCHANGED receipts
        BY <1>1, <1>2, <1>5, SavesOnPlainBase DEF serverVars
    <2>3. CASE MakesNone(t, b, c, p)
        BY <1>4, <2>2, <2>3 DEF MakesNone
    <2>4. ASSUME NEW r \in Stored, Makes(t, b, c, p, r)
          PROVE  AloneRecords' /\ AloneMarks'
        <3>1. /\ store' = store \cup {r}
              /\ issued' = issued \cup {r.operation.id}
              /\ UNCHANGED <<quarantine, volatile>>
            BY <1>2, <2>1, <2>4, MakesPersists
        <3>2. \A id \in issued' : id \in issued \/ id \in Ids(store')
            BY <3>1 DEF Ids
        <3> QED
            BY <1>1, <1>2, <2>2, <3>1, <3>2, RecordsAdded
    <2> QED
        BY <2>1, <2>3, <2>4, SaveMeans
<1>6. ASSUME NEW t \in Tabs, TabNext(t) PROVE AloneRecords' /\ AloneMarks'
    <2>1. UNCHANGED receipts
        BY <1>6, TabsLeaveServer DEF serverVars
    <2>2. CASE \/ FetchSnapshot(t) \/ InstallSnapshot(t) \/ FetchEdition(t)
               \/ AdoptCachedBase(t) \/ RefuseHeartbeat(t) \/ LeaseHeld(t)
        BY <1>4, <2>1, <2>2
        DEF FetchSnapshot, InstallSnapshot, FetchEdition, AdoptCachedBase,
            RefuseHeartbeat, LeaseHeld, storageVars, pageVars, replayVars, idVars
    <2>3. ASSUME NEW p \in Patches, BeginChoice(t, p)
          PROVE  AloneRecords' /\ AloneMarks'
        BY <1>4, <2>1, <2>3 DEF BeginChoice, storageVars, replayVars, idVars
    <2>4. CASE ExpireLease(t)
        BY <1>4, <2>1, <2>4, QueueAssumption
        DEF ExpireLease, storageVars, pageVars, idVars
    <2>5. ~Flush(t)
        BY <1>3 DEF Flush
    <2>6. CASE FinishReplay(t) \/ NoticeExpiry(t) \/ GiveUp(t)
        <3>1. /\ Leave(t)
              /\ UNCHANGED <<store, quarantine, network, issued, volatile>>
            BY <2>6 DEF FinishReplay, NoticeExpiry, GiveUp, storageVars, pageVars, idVars
        <3> QED
            BY <1>1, <1>2, <1>3, <2>1, <3>1, LeavesAlone
    <2>7. CASE Reload(t)
        <3>1. /\ Leave(t)
              /\ UNCHANGED <<store, quarantine, network, issued>>
            BY <2>7 DEF Reload, storageVars, idVars
        <3>2. \A u \in Tabs : volatile'[u] = {}
            BY <1>2, <1>3, <2>7 DEF Reload, QTyped, QTypeOK
        <3> QED
            BY <1>1, <1>2, <2>1, <3>1, <3>2, LeavesAlone
    <2>8. ASSUME NEW p \in Patches, Enqueue(t, p) PROVE AloneRecords' /\ AloneMarks'
        BY <1>2, <1>5, <2>8, EnqueueSaves DEF SavingStep
    <2>9. CASE FinishChoice(t)
        BY <1>2, <1>5, <2>9, FinishChoiceSaves DEF SavingStep
    <2> QED
        BY <1>1, <1>6, <2>2, <2>3, <2>4, <2>5, <2>6, <2>7, <2>8, <2>9,
           AcquireAlone, CascadeAlone, RequestAlone, AnswerAlone
        DEF TabNext, ReplayStep
<1>7. ASSUME NEW q \in network, Serve(q) PROVE AloneRecords' /\ AloneMarks'
    BY <1>1, <1>7, ServeAlone
<1>8. CASE UNCHANGED vars
    BY <1>4, <1>8
    DEF vars, serverVars, storageVars, pageVars, replayVars, idVars
<1> QED
    BY <1>1, <1>6, <1>7, <1>8, NobodyElse DEF QNext

LEMMA QInitAlone == Undisturbed /\ QInit => Alone
<1> SUFFICES ASSUME Undisturbed, QInit PROVE Alone
    OBVIOUS
<1>1. \A x : x \notin Operations
    BY QInitOperations
<1>2. AloneServer
    <2>1. row.revision = 0 /\ row.reset = 0 /\ row.operation = None
        BY DEF QInit, Init, NoRow
    <2>2. DOMAIN receipts = {} /\ generation = 1 /\ files \in FileLists
        BY DEF QInit, Init
    <2> QED
        BY <2>1, <2>2 DEF AloneServer
<1>3. AloneOperations /\ AloneChains
    BY <1>1 DEF AloneOperations, AloneChains
<1>4. AloneBases
    BY DEF QInit, AloneBases
<1>5. AloneRecords
    BY DEF QInit, AloneRecords, AloneReplay
<1>6. AloneMarks
    BY QueueAssumption DEF QInit, AloneMarks, Replies
<1> QED
    BY <1>2, <1>3, <1>4, <1>5, <1>6 DEF Alone

LEMMA QNextAlone ==
    ASSUME Undisturbed, QServed, QChained, SessionsApplyInOrder, Beliefs, Behind,
           Alone, [QNext]_vars
    PROVE  Alone'
    BY ServerStaysAlone, OperationsStayAlone, BasesStayAlone, RecordsStayAlone DEF Alone

\* Where one session saves by a steady clock and nobody else writes, nothing
\* conflicts but a heartbeat that steps back and what was saved after it: lost,
\* late and repeated requests, several replaying tabs, reloads and leases that
\* expire cause no conflict.
THEOREM OnlyStepsBackConflicts ==
    ASSUME Undisturbed PROVE QSpec => []OnlyStepsBackConflict
<1>1. QInit => SessionsApplyInOrder /\ Beliefs /\ Behind /\ Alone
    <2> SUFFICES ASSUME QInit PROVE SessionsApplyInOrder /\ Beliefs /\ Behind /\ Alone
        OBVIOUS
    <2>1. SessionsApplyInOrder /\ Beliefs
        BY DEF QInit, Init, SessionsApplyInOrder, Beliefs
    <2>2. Behind
        BY QInitOperations DEF Behind
    <2> QED
        BY <2>1, <2>2, QInitAlone
<1>2. QServed /\ QChained /\ SessionsApplyInOrder /\ Beliefs /\ Behind /\ Alone
          /\ [QNext]_vars
          => SessionsApplyInOrder' /\ Beliefs' /\ Behind' /\ Alone'
    BY QNextInOrder, QNextBelieves, QNextBehind, QNextAlone
<1>3. QServed /\ QChained /\ Alone => OnlyStepsBackConflict
    <2> SUFFICES ASSUME QServed, QChained, Alone, NEW r \in store,
                        r.operation.id \in quarantine
                 PROVE  Excused(r)
        BY DEF OnlyStepsBackConflict, Excused
    <2>1. PICK q \in store : q.operation.id = r.operation.id /\ Excused(q)
        BY DEF Alone, AloneMarks
    <2>2. q = r
        BY <2>1, AloneMeans
    <2> QED
        BY <2>1, <2>2
<1> QED
    BY <1>1, <1>2, <1>3, QChainedHolds, PTL DEF QSpec


-----------------------------------------------------------------------------
(* Over changed content, a heartbeat follows a deliberate choice.          *)

\* localStorage takes every write, and every file of a timeline is proven.
Digested ==
    /\ MaxDenials = 0
    /\ \A fs \in FileLists : \A i \in DOMAIN fs : fs[i].identity # None

\* A browser holds a deliberate choice that the server has not taken.
Choice ==
    \E r \in store : /\ Explicit(r.operation.intent)
                     /\ r.operation.id \notin DOMAIN receipts

\* Copy b does not show the conflict that the row is in on this timeline: it
\* was settled on it, and then perhaps moved to the revision of a receipt.
Overlooks(b) ==
    /\ ResumeConflict /\ ~b.conflict
    /\ b.generation = generation
    /\ row.operation # None \/ b.revision = row.revision

\* The server would take o over content that is not what was saved.
Slips(o) ==
    /\ ResumeConflict /\ ~Explicit(o.intent)
    /\ o.generation = generation
    /\ o.predecessor = None
    /\ o.base = row.revision

\* The copies of the row that a save may be made on.
Copies ==
    (({cached} \cup {base[t] : t \in Tabs}) \ {None})
        \cup {f.snapshot : f \in {fetch[t] : t \in Tabs} \ {None}}

\* What was last written is proven while its timeline stands.
WritesAreProven ==
    (row.operation # None /\ receipts[row.operation].envelope.generation = generation)
        => ~ResumeConflict

Chosen ==
    /\ files \in FileLists
    /\ \A t \in Tabs : volatile[t] = {}
    /\ WritesAreProven
    /\ \A b \in Copies : Overlooks(b) => Choice
    /\ \A r \in store \cup Planned :
           (r.operation.id \notin quarantine /\ Slips(r.operation)) => Choice
    /\ \A q \in network : Slips(q.record.operation) => Choice

LEMMA CopiesMean ==
    ASSUME NEW b
    PROVE  b \in Copies <=> \/ b # None /\ (b = cached \/ \E t \in Tabs : b = base[t])
                            \/ \E t \in Tabs : fetch[t] # None /\ b = fetch[t].snapshot
    BY DEF Copies

LEMMA CopiesMeanNext ==
    ASSUME NEW b
    PROVE  b \in Copies' <=> \/ b # None /\ (b = cached' \/ \E t \in Tabs : b = base'[t])
                             \/ \E t \in Tabs : fetch'[t] # None /\ b = fetch'[t].snapshot
    BY DEF Copies

LEMMA CopiesAgree ==
    ASSUME QTyped, Beliefs, NEW b \in Copies
    PROVE  b \in Snapshot /\ Agrees(b, row, generation)
<1>1. CASE b # None /\ (b = cached \/ \E t \in Tabs : b = base[t])
    BY <1>1 DEF QTyped, QTypeOK, Beliefs
<1>2. ASSUME NEW t \in Tabs, fetch[t] # None, b = fetch[t].snapshot
      PROVE  b \in Snapshot /\ Agrees(b, row, generation)
    BY <1>2 DEF QTyped, QTypeOK, Beliefs, Fetched
<1> QED
    BY <1>1, <1>2, CopiesMean

\* What the server accepts is proven there and then.
LEMMA AcceptedIsProven ==
    ASSUME QServed, Digested, files \in FileLists, NEW o \in Envelope,
           Outcome(o) = "accept", ApplyMediaOperation(o)
    PROVE  ~ResumeConflict'
<1>1. row' = Written(o) /\ UNCHANGED <<generation, files>>
    BY DEF ApplyMediaOperation, Commit
<1>2. CASE o.intent = "reset"
    <2>1. row'.deleted
        BY <1>1, <1>2 DEF Written
    <2> QED
        BY <2>1 DEF ResumeConflict, Unfinished
<1>3. CASE o.intent # "reset"
    <2>1. Present(o) /\ WithinFile(o) /\ Locatable(o)
        BY <1>3 DEF Outcome
    <2>2. /\ row'.file = o.file /\ row'.offset = o.offset
          /\ row'.savedGeneration = o.generation
          /\ row'.savedIdentity = IdentityOf(files, o.file)
        BY <1>1, <1>3 DEF Written
    <2>3. files \in Seq(File) /\ \A i \in DOMAIN files : files[i].identity # None
        BY OperationAssumption DEF Digested
    <2>4. PICK k \in 1..Len(files) : files[k].id = o.file
        BY <2>1, <2>3 DEF Present, IndexOf
    <2>5. o.file # None
        <3>1. files[k] \in File
            BY <2>3
        <3> QED
            BY <2>4, <3>1, OperationAssumption DEF File
    <2>6. IdentityOf(files, o.file) # None
        BY <2>1, <2>3, <2>5 DEF Present, IdentityOf, IndexOf
    <2>7. o.generation # None
        BY OperationAssumption DEF Envelope
    <2>8. Proven'
        BY <1>1, <2>2, <2>6, <2>7 DEF Proven, IdentityOf, IndexOf
    <2>9. k \in IndexOf(files', row'.file)
        BY <1>1, <2>2, <2>3, <2>4 DEF IndexOf
    <2>10. Mapped(k)'
        <3>1. k \in IndexOf(files, o.file)
            BY <2>3, <2>4 DEF IndexOf
        <3>2. files[k].duration > 0 => row'.offset <= files[k].duration
            BY <2>1, <2>2, <3>1 DEF WithinFile
        <3>3. KnownBefore(files, k)
            BY <2>1, <3>1 DEF Locatable
        <3>4. \A j \in 1..k : ~files[j].missing
            BY <2>1, <2>3 DEF Present, NoneMissing
        <3> QED
            BY <1>1, <3>2, <3>3, <3>4 DEF Mapped, KnownBefore
    <2> QED
        BY <2>2, <2>5, <2>8, <2>9, <2>10 DEF ResumeConflict
<1> QED
    BY <1>2, <1>3

\* The server stands still, or leaves nothing in doubt, or moves on from every
\* copy and every operation without a predecessor.
LEMMA ServerMoves ==
    ASSUME QServed, Digested, files \in FileLists, [QNext]_vars
    PROVE  /\ files' \in FileLists
           /\ \/ UNCHANGED serverVars
              \/ ~ResumeConflict'
              \/ /\ row'.operation = None /\ row'.revision = row.revision + 1
                 /\ UNCHANGED <<receipts, generation>>
              \/ generation' = generation + 1 /\ UNCHANGED <<row, receipts>>
<1>1. CASE UNCHANGED serverVars
    BY <1>1 DEF serverVars
<1>2. ASSUME NEW q \in network, Serve(q)
      PROVE  files' = files /\ (UNCHANGED serverVars \/ ~ResumeConflict')
    <2>1. q.record.operation \in Envelope /\ ApplyMediaOperation(q.record.operation)
        BY <1>2, ServeSteps DEF QServed, Serve
    <2>2. CASE Outcome(q.record.operation) = "accept"
        BY <2>1, <2>2, AcceptedIsProven DEF ApplyMediaOperation
    <2>3. CASE Outcome(q.record.operation) # "accept"
        BY <2>1, <2>3 DEF ApplyMediaOperation, serverVars
    <2> QED
        BY <2>2, <2>3
<1>3. CASE OtherWriters
    <2>1. CASE CompatibilityWrite
        BY <2>1, CompatibilityShapes DEF QServed, Inductive, Overwrites
    <2>2. ASSUME NEW fs \in FileLists, Rescan(fs)
          PROVE  /\ files' \in FileLists /\ generation' = generation + 1
                 /\ UNCHANGED <<row, receipts>>
        BY <2>2 DEF Rescan
    <2> QED
        BY <1>3, <2>1, <2>2 DEF OtherWriters
<1> QED
    BY <1>1, <1>2, <1>3, TabsLeaveServer DEF QNext, vars

LEMMA ConflictFrame ==
    ASSUME UNCHANGED serverVars PROVE ResumeConflict' = ResumeConflict
    BY DEF serverVars, ResumeConflict, Unfinished, IndexOf, Proven, IdentityOf,
           Mapped, KnownBefore

\* Doubts about a copy or an operation only arise where the server stands still.
LEMMA NoNewDoubts ==
    ASSUME QServed, Digested, Behind, files \in FileLists, WritesAreProven, [QNext]_vars
    PROVE  /\ files' \in FileLists /\ WritesAreProven'
           /\ \A b \in Snapshot :
                  (Agrees(b, row, generation) /\ Overlooks(b)')
                      => UNCHANGED serverVars /\ Overlooks(b)
           /\ \A o \in Operations :
                  Slips(o)' => UNCHANGED serverVars /\ Slips(o)
<1>1. /\ row.revision \in Nat /\ generation \in Nat
    BY DEF QServed, Inductive, TypeOK, Row
<1>2. ASSUME NEW b \in Snapshot, Agrees(b, row, generation), Overlooks(b)'
      PROVE  UNCHANGED serverVars /\ Overlooks(b)
    <2>1. /\ ResumeConflict' /\ ~b.conflict /\ b.generation = generation'
          /\ row'.operation # None \/ b.revision = row'.revision
        BY <1>2 DEF Overlooks
    <2>2. b.generation \in Nat /\ b.revision \in Nat
        BY DEF Snapshot
    <2>3. b.generation <= generation /\ b.revision <= row.revision
        BY <1>2 DEF Agrees
    <2>4. UNCHANGED serverVars
        BY <1>1, <2>1, <2>2, <2>3, ServerMoves
    <2> QED
        BY <2>1, <2>4, ConflictFrame DEF Overlooks, serverVars
<1>3. ASSUME NEW o \in Operations, Slips(o)'
      PROVE  UNCHANGED serverVars /\ Slips(o)
    <2>1. /\ ResumeConflict' /\ ~Explicit(o.intent) /\ o.predecessor = None
          /\ o.generation = generation' /\ o.base = row'.revision
        BY <1>3 DEF Slips
    <2>2. /\ o.generation \in Nat /\ o.base \in Nat
          /\ o.generation <= generation /\ o.base <= row.revision
        BY OperationsTyped DEF QServed, Behind, Envelope
    <2>3. UNCHANGED serverVars
        BY <1>1, <2>1, <2>2, ServerMoves
    <2> QED
        BY <2>1, <2>3, ConflictFrame DEF Slips, serverVars
<1>4. WritesAreProven'
    <2> SUFFICES ASSUME row'.operation # None, ResumeConflict',
                        receipts'[row'.operation].envelope.generation = generation'
                 PROVE  FALSE
        BY DEF WritesAreProven
    <2>1. CASE UNCHANGED serverVars
        BY <2>1, ConflictFrame DEF WritesAreProven, serverVars
    <2>2. CASE generation' = generation + 1 /\ UNCHANGED <<row, receipts>>
        <3> DEFINE x == receipts[row.operation].envelope
        <3>1. row.operation \in DOMAIN receipts
            BY <2>2 DEF QServed, Inductive, ProvenanceIsOfTheRow
        <3>2. x \in Operations
            BY <3>1, OperationsMean
        <3>3. x.generation \in Nat /\ x.generation <= generation
            BY <3>2, OperationsTyped DEF QServed, Behind, Envelope
        <3>4. x.generation = generation + 1
            BY <2>2
        <3> HIDE DEF x
        <3> QED
            BY <1>1, <3>3, <3>4
    <2> QED
        BY <2>1, <2>2, ServerMoves
<1> QED
    BY <1>2, <1>3, <1>4, ServerMoves

-----------------------------------------------------------------------------
(* What a tab does to its copies.                                          *)

\* Copy b shows the row's conflict, or hides no more than a copy there was.
Derived(b) ==
    \/ b.conflict = ResumeConflict
    \/ \E a \in Copies : /\ b.conflict = a.conflict /\ b.generation = a.generation
                         /\ \/ b.revision = a.revision
                            \/ row.operation = None => b.revision # row.revision

LEMMA OldIsDerived == ASSUME NEW b \in Copies PROVE Derived(b)
    BY DEF Derived

LEMMA DerivedOverlooks ==
    ASSUME \A a \in Copies : Overlooks(a) => Choice,
           NEW b, Derived(b), Overlooks(b)
    PROVE  Choice
    BY DEF Derived, Overlooks

\* Where tab t alone changes its copies, those it takes are derived.
LEMMA CopiesPass ==
    ASSUME NEW t \in Tabs, NEW goal,
           \A u \in Tabs \ {t} : base'[u] = base[u] /\ fetch'[u] = fetch[u],
           cached' = cached \/ Derived(cached') \/ goal,
           base'[t] = base[t] \/ base'[t] = None \/ Derived(base'[t]) \/ goal,
           fetch'[t] = fetch[t] \/ fetch'[t] = None \/ Derived(fetch'[t].snapshot)
    PROVE  \A b \in Copies' : Derived(b) \/ goal
<1> SUFFICES ASSUME NEW b \in Copies', ~goal PROVE Derived(b)
    OBVIOUS
<1>1. CASE b # None /\ b = cached'
    BY <1>1, CopiesMean, OldIsDerived
<1>2. ASSUME NEW u \in Tabs, b # None, b = base'[u] PROVE Derived(b)
    BY <1>2, CopiesMean, OldIsDerived
<1>3. ASSUME NEW u \in Tabs, fetch'[u] # None, b = fetch'[u].snapshot PROVE Derived(b)
    BY <1>3, CopiesMean, OldIsDerived
<1> QED
    BY <1>1, <1>2, <1>3, CopiesMeanNext

LEMMA FetchesDerive ==
    ASSUME QTyped, NEW t \in Tabs,
           FetchSnapshot(t) \/ FetchEdition(t) \/ \E p \in Patches : BeginChoice(t, p)
    PROVE  \A b \in Copies' : Derived(b)
<1>1. cached' = cached /\ base' = base
    BY DEF FetchSnapshot, FetchEdition, BeginChoice, storageVars
<1>2. /\ fetch'[t].snapshot \in {MediaSnapshot, Edition}
      /\ \A u \in Tabs \ {t} : fetch'[u] = fetch[u]
    BY DEF FetchSnapshot, FetchEdition, BeginChoice, QTyped, QTypeOK
<1>3. Derived(fetch'[t].snapshot)
    BY <1>2 DEF MediaSnapshot, Edition, Derived
<1>4. \A b \in Copies' : Derived(b) \/ FALSE
    BY <1>1, <1>2, <1>3, CopiesPass
<1> QED
    BY <1>4

LEMMA InstallsDerive ==
    ASSUME QTyped, NEW t \in Tabs, NEW b, Install(t, b), Derived(b),
           fetch'[t] = fetch[t] \/ fetch'[t] = None,
           \A u \in Tabs \ {t} : fetch'[u] = fetch[u]
    PROVE  \A d \in Copies' : Derived(d)
<1>1. /\ base'[t] = b /\ cached' = b
      /\ \A u \in Tabs \ {t} : base'[u] = base[u]
    BY DEF Install, QTyped, QTypeOK
<1>2. Derived(base'[t]) /\ Derived(cached')
    BY <1>1
<1>3. \A d \in Copies' : Derived(d) \/ FALSE
    BY <1>1, <1>2, CopiesPass
<1> QED
    BY <1>3

LEMMA BasesDerive ==
    ASSUME QTyped, NEW t \in Tabs,
           InstallSnapshot(t) \/ AdoptCachedBase(t)
    PROVE  \A b \in Copies' : Derived(b)
<1>1. CASE InstallSnapshot(t)
    <2>1. fetch[t].snapshot \in Copies
        BY <1>1, CopiesMean DEF InstallSnapshot
    <2>2. Install(t, fetch[t].snapshot) /\ fetch' = [fetch EXCEPT ![t] = None]
        BY <1>1 DEF InstallSnapshot
    <2>3. fetch'[t] = None /\ \A u \in Tabs \ {t} : fetch'[u] = fetch[u]
        BY <2>2 DEF QTyped, QTypeOK
    <2> QED
        BY <2>1, <2>2, <2>3, OldIsDerived, InstallsDerive
<1>2. CASE AdoptCachedBase(t)
    <2>1. cached' = cached /\ fetch' = fetch /\ cached # None
        BY <1>2 DEF AdoptCachedBase, storageVars
    <2>2. base'[t] = cached /\ \A u \in Tabs \ {t} : base'[u] = base[u]
        BY <1>2 DEF AdoptCachedBase, QTyped, QTypeOK
    <2>3. Derived(base'[t])
        BY <2>1, <2>2, CopiesMean, OldIsDerived
    <2>4. \A b \in Copies' : Derived(b) \/ FALSE
        BY <2>1, <2>2, <2>3, CopiesPass
    <2> QED
        BY <2>4
<1> QED
    BY <1>1, <1>2

\* A receipt moves a base to a revision that an operation wrote.
LEMMA SettleDerives ==
    ASSUME QServed, QChained, NEW t \in Tabs, Settle(t)
    PROVE  \A b \in Copies' : Derived(b)
<1> DEFINE o == sent[t].record.operation
<1>1. Answered(t) /\ reply[t] \in {"accept", "receipt"} /\ fetch' = fetch
    BY DEF Settle, Answered
<1>2. CASE base[t] = None
    <2>1. base' = base /\ cached' = cached
        BY <1>2 DEF Settle
    <2>2. \A b \in Copies' : Derived(b) \/ FALSE
        BY <1>1, <2>1, CopiesPass
    <2> QED
        BY <2>2
<1>3. CASE base[t] # None
    <2> DEFINE a == Acknowledged(base[t], o)
    <2>1. o.id \in DOMAIN receipts
        BY <1>1, AnsweredReceipt
    <2>2. base[t] \in Snapshot /\ base[t] \in Copies
        BY <1>3, CopiesMean DEF QServed, QTyped, QTypeOK
    <2>3. /\ a.conflict = base[t].conflict /\ a.generation = base[t].generation
          /\ a.revision = receipts[o.id].revision
        <3> HIDE DEF o
        <3> QED
            BY <2>2 DEF Acknowledged, Snapshot
    <2>4. row.operation = None => a.revision # row.revision
        <3>1. o.id # None
            BY <2>1, OperationAssumption DEF QServed, Inductive, TypeOK
        <3> QED
            BY <2>1, <2>3, <3>1 DEF QServed, Inductive, LastWriteIsNamed
    <2>5. Derived(a)
        <3> HIDE DEF a
        <3> QED
            BY <2>2, <2>3, <2>4 DEF Derived
    <2>6. /\ base'[t] = a /\ cached' = a
          /\ \A u \in Tabs \ {t} : base'[u] = base[u]
        BY <1>3 DEF Settle, QServed, QTyped, QTypeOK
    <2> HIDE DEF a
    <2>7. Derived(base'[t]) /\ Derived(cached')
        BY <2>5, <2>6
    <2>8. \A b \in Copies' : Derived(b) \/ FALSE
        BY <1>1, <2>6, <2>7, CopiesPass
    <2> QED
        BY <2>8
<1> QED
    BY <1>2, <1>3

LEMMA ReloadDerives ==
    ASSUME QTyped, NEW t \in Tabs, Reload(t)
    PROVE  \A b \in Copies' : Derived(b)
<1>1. /\ cached' = cached /\ base'[t] = None /\ fetch'[t] = None
      /\ \A u \in Tabs \ {t} : base'[u] = base[u] /\ fetch'[u] = fetch[u]
    BY DEF Reload, storageVars, QTyped, QTypeOK
<1>2. \A b \in Copies' : Derived(b) \/ FALSE
    BY <1>1, CopiesPass
<1> QED
    BY <1>2

\* Where localStorage refuses nothing, every record reaches it.
LEMMA DigestedPersists ==
    ASSUME Digested, QTyped, NEW t \in Tabs, NEW b \in Snapshot,
           NEW c \in Chain, NEW p \in Patches, NEW r \in Stored,
           Makes(t, b, c, p, r)
    PROVE  Persist(t, b, p, r)
<1>1. denials \in Nat /\ MaxDenials = 0
    BY DEF QTyped, QTypeOK, Digested
<1> QED
    BY <1>1 DEF Makes, Writes, PersistUnflagged, Retain

\* What is made of patch p on base b.
LEMMA MadeOf ==
    ASSUME NEW t, NEW b \in Snapshot, NEW c \in Chain, NEW p \in Patches,
           NEW r \in Stored, Makes(t, b, c, p, r)
    PROVE  /\ r.operation.intent = p.intent
           /\ r.operation.base = b.revision
           /\ r.operation.generation <= b.generation
<1>1. PICK expected \in ExpectedGenerations(b) :
          r.operation = NewOperation(r.operation.id, b, Advance(c, p), p, expected)
    BY DEF Makes
<1>2. expected \in Int /\ expected <= b.generation
    BY DEF ExpectedGenerations, Snapshot
<1> QED
    BY <1>1, <1>2 DEF NewOperation

\* A save settles the conflict of its base with a choice, or not at all.
LEMMA SaveChooses ==
    ASSUME QServed, QChained, Digested, NEW t \in Tabs, NEW b \in Snapshot,
           NEW c \in Chain, NEW p \in Patches, Save(t, b, c, p), b \in Copies,
           UNCHANGED serverVars,
           cached' = cached \/ cached' = b, fetch'[t] = fetch[t] \/ fetch'[t] = None,
           \A u \in Tabs \ {t} : fetch'[u] = fetch[u]
    PROVE  \A d \in Copies' : Derived(d) \/ Choice'
<1>1. QTyped
    BY DEF QServed
<1>2. /\ Derived(base'[t]) \/ Choice'
      /\ \A u \in Tabs \ {t} : base'[u] = base[u]
    <2>1. CASE MakesNone(t, b, c, p)
        <3>1. base'[t] = b /\ \A u \in Tabs \ {t} : base'[u] = base[u]
            BY <1>1, <2>1 DEF MakesNone, QTyped, QTypeOK
        <3> QED
            BY <3>1, OldIsDerived
    <2>2. ASSUME NEW r \in Stored, Makes(t, b, c, p, r)
          PROVE  /\ Derived(base'[t]) \/ Choice'
                 /\ \A u \in Tabs \ {t} : base'[u] = base[u]
        <3> DEFINE d == [b EXCEPT !.conflict = b.conflict /\ ~Explicit(p.intent)]
        <3>1. Persist(t, b, p, r)
            BY <1>1, <2>2, DigestedPersists
        <3>2. base' = [base EXCEPT ![t] = d] /\ store' = store \cup {r}
            BY <3>1 DEF Persist
        <3>3. base'[t] = d /\ \A u \in Tabs \ {t} : base'[u] = base[u]
            BY <1>1, <3>2 DEF QTyped, QTypeOK
        <3>4. /\ d.conflict = (b.conflict /\ ~Explicit(p.intent))
              /\ d.generation = b.generation /\ d.revision = b.revision
            BY DEF Snapshot
        <3>5. CASE Explicit(p.intent)
            <4>1. r.operation.intent = p.intent
                BY <2>2, MadeOf
            <4>2. r.operation.id \notin DOMAIN receipts'
                <5>1. \A id \in DOMAIN receipts : id \in issued
                    BY OperationsMean
                    DEF QChained, IdsAreIssued, QServed, Inductive, ReceiptsAreNamed
                <5> QED
                    BY <2>2, <5>1 DEF Makes, serverVars
            <4>3. Choice'
                BY <3>2, <3>5, <4>1, <4>2 DEF Choice
            <4> QED
                BY <3>3, <4>3
        <3>6. CASE ~Explicit(p.intent)
            <4>1. d.conflict = b.conflict
                BY <3>4, <3>6 DEF Snapshot
            <4>2. Derived(d)
                <5> HIDE DEF d
                <5> QED
                    BY <3>4, <4>1 DEF Derived
            <4>3. Derived(base'[t])
                BY <3>3, <4>2
            <4> QED
                BY <3>3, <4>3
        <3> QED
            BY <3>5, <3>6
    <2> QED
        BY <2>1, <2>2, SaveMeans
<1>3. cached' = cached \/ Derived(cached') \/ Choice'
    BY OldIsDerived
<1> QED
    BY <1>2, <1>3, CopiesPass

LEMMA EnqueueChooses ==
    ASSUME QServed, QChained, Digested, NEW t \in Tabs, NEW p \in Patches, Enqueue(t, p)
    PROVE  \A d \in Copies' : Derived(d) \/ Choice'
<1>1. QTyped /\ SendableIssued
    BY OperationsMean DEF QServed, QChained, IdsAreIssued, SendableIssued, Records
<1>2. PICK c \in Chain : Save(t, base[t], c, p)
    BY <1>1, EnqueueSaves
<1>3. base[t] \in Snapshot /\ base[t] \in Copies
    BY <1>1, CopiesMean DEF Enqueue, QTyped, QTypeOK
<1>4. UNCHANGED serverVars /\ cached' = cached /\ fetch' = fetch
    BY DEF Enqueue
<1> QED
    BY <1>2, <1>3, <1>4, SaveChooses

LEMMA FinishChooses ==
    ASSUME QServed, QChained, Digested, NEW t \in Tabs, FinishChoice(t)
    PROVE  \A d \in Copies' : Derived(d) \/ Choice'
<1>1. QTyped /\ SendableIssued
    BY OperationsMean DEF QServed, QChained, IdsAreIssued, SendableIssued, Records
<1>2. PICK c \in Chain : Save(t, fetch[t].snapshot, c, fetch[t].patch)
    BY <1>1, FinishChoiceSaves
<1>3. /\ fetch[t].snapshot \in Snapshot /\ fetch[t].patch \in Patches
      /\ fetch[t].snapshot \in Copies
    BY <1>1, CopiesMean DEF FinishChoice, QTyped, QTypeOK, Fetched
<1>4. UNCHANGED serverVars /\ cached' = fetch[t].snapshot
    BY DEF FinishChoice
<1>5. fetch'[t] = None /\ \A u \in Tabs \ {t} : fetch'[u] = fetch[u]
    BY <1>1 DEF FinishChoice, QTyped, QTypeOK
<1> QED
    BY <1>2, <1>3, <1>4, <1>5, SaveChooses

LEMMA TabDerives ==
    ASSUME QServed, QChained, Digested, NEW t \in Tabs, TabNext(t)
    PROVE  \A d \in Copies' : Derived(d) \/ Choice'
<1>1. QTyped
    BY DEF QServed
<1>2. CASE \/ RefuseHeartbeat(t) \/ Flush(t) \/ Acquire(t) \/ LeaseHeld(t)
           \/ CascadeConflict(t) \/ Request(t) \/ Quarantine(t)
           \/ FinishReplay(t) \/ NoticeExpiry(t) \/ GiveUp(t) \/ ExpireLease(t)
    <2>1. UNCHANGED <<cached, base, fetch>>
        BY <1>2
        DEF RefuseHeartbeat, Flush, Acquire, LeaseHeld, CascadeConflict, Request,
            Quarantine, Answered, FinishReplay, NoticeExpiry, GiveUp, ExpireLease,
            storageVars, pageVars
    <2> QED
        BY <2>1, OldIsDerived DEF Copies
<1> QED
    BY <1>1, <1>2, FetchesDerive, BasesDerive, SettleDerives, ReloadDerives,
       EnqueueChooses, FinishChooses
    DEF TabNext, ReplayStep

-----------------------------------------------------------------------------
(* What may be sent was made with the conflict in view.                    *)

\* Records that a replay may come to, unless they are flagged.
Pending == {r \in store \cup Planned : r.operation.id \notin quarantine}

LEMMA PendingMeans ==
    ASSUME NEW r
    PROVE  r \in Pending <=> /\ r \in store \/ \E t \in Tabs : r \in todo[t]
                             /\ r.operation.id \notin quarantine
    BY DEF Pending, Planned

LEMMA PendingMeansNext ==
    ASSUME NEW r
    PROVE  r \in Pending' <=> /\ r \in store' \/ \E t \in Tabs : r \in todo'[t]
                              /\ r.operation.id \notin quarantine'
    BY DEF Pending, Planned

\* Nothing but a save adds to what is pending, and a tab only sends of that.
Proceeds ==
    /\ Pending' \subseteq Pending
    /\ \A q \in network' : q \in network \/ q.record \in Pending
    /\ volatile' = volatile \/ \E t \in Tabs : volatile' = [volatile EXCEPT ![t] = {}]
    /\ \A r \in store \ store' : r.operation.id \in DOMAIN receipts

LEMMA PendingShrinks ==
    ASSUME store' \subseteq store, \A t \in Tabs : todo'[t] \subseteq todo[t] \cup store,
           quarantine \subseteq quarantine'
    PROVE  Pending' \subseteq Pending
    BY PendingMeans, PendingMeansNext

LEMMA TabProceeds ==
    ASSUME QServed, QChained, \A t \in Tabs : volatile[t] = {},
           NEW t \in Tabs, TabNext(t),
           ~FinishChoice(t), \A p \in Patches : ~Enqueue(t, p)
    PROVE  Proceeds
<1>1. QTyped
    BY DEF QServed
<1>2. CASE \/ FetchSnapshot(t) \/ InstallSnapshot(t) \/ FetchEdition(t)
           \/ AdoptCachedBase(t) \/ RefuseHeartbeat(t) \/ LeaseHeld(t)
           \/ ExpireLease(t) \/ \E p \in Patches : BeginChoice(t, p)
    <2>1. UNCHANGED <<store, quarantine, todo, network, volatile>>
        BY <1>2
        DEF FetchSnapshot, InstallSnapshot, FetchEdition, AdoptCachedBase,
            RefuseHeartbeat, LeaseHeld, ExpireLease, BeginChoice, storageVars,
            pageVars, replayVars
    <2> QED
        BY <2>1, PendingShrinks DEF Proceeds
<1>3. ~Flush(t)
    BY DEF Flush
<1>4. CASE Acquire(t)
    <2>1. /\ UNCHANGED <<store, quarantine, network, volatile>>
          /\ \A u \in Tabs : todo'[u] \subseteq todo[u] \cup store
        BY <1>1, <1>4 DEF Acquire, storageVars, pageVars, QTyped, QTypeOK
    <2> QED
        BY <2>1, PendingShrinks DEF Proceeds
<1>5. CASE CascadeConflict(t)
    <2>1. /\ UNCHANGED <<store, network, volatile>> /\ quarantine \subseteq quarantine'
          /\ \A u \in Tabs : todo'[u] \subseteq todo[u]
        BY <1>1, <1>5 DEF CascadeConflict, pageVars, QTyped, QTypeOK
    <2> QED
        BY <2>1, PendingShrinks DEF Proceeds
<1>6. CASE Request(t)
    <2>1. PICK r \in Heads(t) :
              /\ sent' = [sent EXCEPT ![t] = [record |-> r, attempt |-> faults]]
              /\ network' = network \/ network' = network \cup {sent'[t]}
        BY <1>6 DEF Request
    <2>2. sent'[t].record = r
        BY <1>1, <2>1 DEF QTyped, QTypeOK
    <2>3. r \in Pending
        BY PendingMeans DEF Heads
    <2>4. UNCHANGED <<store, quarantine, todo, volatile>>
        BY <1>6 DEF Request, storageVars, pageVars
    <2> QED
        BY <2>1, <2>2, <2>3, <2>4, PendingShrinks DEF Proceeds
<1>7. CASE Settle(t) \/ Quarantine(t)
    <2>1. /\ Answered(t) /\ quarantine \subseteq quarantine'
          /\ store' \subseteq store
        BY <1>7 DEF Settle, Quarantine
    <2>2. /\ UNCHANGED <<network, volatile>>
          /\ \A u \in Tabs : todo'[u] \subseteq todo[u]
        BY <1>1, <2>1 DEF Answered, QTyped, QTypeOK
    <2>3. \A r \in store \ store' : r.operation.id \in DOMAIN receipts
        BY <1>7, AnsweredReceipt DEF Settle, Quarantine
    <2> QED
        BY <2>1, <2>2, <2>3, PendingShrinks DEF Proceeds
<1>8. CASE FinishReplay(t) \/ NoticeExpiry(t) \/ GiveUp(t) \/ Reload(t)
    <2>1. /\ Leave(t) /\ UNCHANGED <<store, quarantine, network>>
          /\ volatile' = volatile \/ volatile' = [volatile EXCEPT ![t] = {}]
        BY <1>8 DEF FinishReplay, NoticeExpiry, GiveUp, Reload, storageVars, pageVars
    <2>2. \A u \in Tabs : todo'[u] \subseteq todo[u]
        BY <1>1, <2>1 DEF Leave, QTyped, QTypeOK
    <2> QED
        BY <2>1, <2>2, PendingShrinks DEF Proceeds
<1> QED
    BY <1>2, <1>3, <1>4, <1>5, <1>6, <1>7, <1>8 DEF TabNext, ReplayStep

\* A save that is neither a choice nor flagged was made with no conflict in view.
SavesInView ==
    /\ \A r \in Pending' : \/ r \in Pending
                           \/ Slips(r.operation) => \E b \in Copies : Overlooks(b)
    /\ UNCHANGED <<network, volatile>>
    /\ store \subseteq store'

LEMMA SaveInView ==
    ASSUME QServed, Beliefs, Digested, NEW t \in Tabs, NEW b \in Copies,
           NEW c \in Chain, NEW p \in Patches, Save(t, b, c, p),
           UNCHANGED <<todo, network>>
    PROVE  SavesInView
<1>1. QTyped /\ b \in Snapshot /\ Agrees(b, row, generation) /\ generation \in Nat
    BY CopiesAgree DEF QServed, Inductive, TypeOK
<1>2. CASE MakesNone(t, b, c, p)
    BY <1>2, PendingShrinks DEF MakesNone, SavesInView
<1>3. ASSUME NEW r \in Stored, Makes(t, b, c, p, r) PROVE SavesInView
    <2>1. Persist(t, b, p, r)
        BY <1>1, <1>3, DigestedPersists
    <2>2. /\ store' = store \cup {r} /\ volatile' = volatile
          /\ quarantine \subseteq quarantine'
          /\ b.conflict /\ ~Explicit(p.intent) => r.operation.id \in quarantine'
        BY <2>1 DEF Persist
    <2>3. /\ r.operation.intent = p.intent /\ r.operation.base = b.revision
          /\ r.operation.generation <= b.generation
        BY <1>1, <1>3, MadeOf
    <2>4. ASSUME Slips(r.operation), r.operation.id \notin quarantine'
          PROVE  Overlooks(b)
        <3>1. /\ ResumeConflict /\ ~b.conflict /\ b.revision = row.revision
              /\ generation <= b.generation
            BY <2>2, <2>3, <2>4 DEF Slips
        <3>2. b.generation \in Nat /\ b.generation <= generation
            BY <1>1 DEF Agrees, Snapshot
        <3> QED
            BY <1>1, <3>1, <3>2 DEF Overlooks
    <2>5. ASSUME NEW x \in Pending' PROVE x \in Pending \/ x = r
        BY <2>2, <2>5, PendingMeans, PendingMeansNext
    <2>6. r \in Pending' => r.operation.id \notin quarantine'
        BY PendingMeansNext
    <2> QED
        BY <2>2, <2>4, <2>5, <2>6 DEF SavesInView
<1> QED
    BY <1>1, <1>2, <1>3, SaveMeans

LEMMA SavingInView ==
    ASSUME QServed, QChained, Beliefs, Digested, NEW t \in Tabs,
           FinishChoice(t) \/ \E p \in Patches : Enqueue(t, p)
    PROVE  SavesInView
<1>1. QTyped /\ SendableIssued
    BY OperationsMean DEF QServed, QChained, IdsAreIssued, SendableIssued, Records
<1>2. ASSUME NEW p \in Patches, Enqueue(t, p) PROVE SavesInView
    <2>1. PICK c \in Chain : Save(t, base[t], c, p)
        BY <1>1, <1>2, EnqueueSaves
    <2>2. base[t] \in Copies /\ UNCHANGED <<todo, network>>
        BY <1>2, CopiesMean DEF Enqueue
    <2> QED
        BY <2>1, <2>2, SaveInView
<1>3. CASE FinishChoice(t)
    <2>1. PICK c \in Chain : Save(t, fetch[t].snapshot, c, fetch[t].patch)
        BY <1>1, <1>3, FinishChoiceSaves
    <2>2. /\ fetch[t].snapshot \in Copies /\ fetch[t].patch \in Patches
          /\ UNCHANGED <<todo, network>>
        BY <1>1, <1>3, CopiesMean DEF FinishChoice, QTyped, QTypeOK, Fetched
    <2> QED
        BY <2>1, <2>2, SaveInView
<1> QED
    BY <1>2, <1>3

LEMMA ChosenMeans ==
    Chosen <=> /\ files \in FileLists
               /\ \A t \in Tabs : volatile[t] = {}
               /\ WritesAreProven
               /\ \A b \in Copies : Overlooks(b) => Choice
               /\ \A r \in Pending : Slips(r.operation) => Choice
               /\ \A q \in network : Slips(q.record.operation) => Choice
    BY DEF Chosen, Pending

LEMMA ChosenMeansNext ==
    Chosen' <=> /\ files' \in FileLists
                /\ \A t \in Tabs : volatile'[t] = {}
                /\ WritesAreProven'
                /\ \A b \in Copies' : Overlooks(b)' => Choice'
                /\ \A r \in Pending' : Slips(r.operation)' => Choice'
                /\ \A q \in network' : Slips(q.record.operation)' => Choice'
    BY DEF Chosen, Pending, Overlooks, Slips

\* A choice is held until the server took it.
LEMMA ChoiceStays ==
    ASSUME UNCHANGED receipts, Choice,
           \A r \in store \ store' : r.operation.id \in DOMAIN receipts
    PROVE  Choice'
    BY DEF Choice

LEMMA QNextChosen ==
    ASSUME QServed, QChained, Beliefs, Behind, Digested, Chosen, [QNext]_vars
    PROVE  Chosen'
<1>1. /\ files' \in FileLists /\ WritesAreProven'
      /\ \A b \in Snapshot :
             (Agrees(b, row, generation) /\ Overlooks(b)')
                 => UNCHANGED serverVars /\ Overlooks(b)
      /\ \A o \in Operations : Slips(o)' => UNCHANGED serverVars /\ Slips(o)
    BY NoNewDoubts DEF Chosen
<1>2. QTyped
    BY DEF QServed
<1>3. \A r \in Pending : r.operation \in Operations
    BY PendingMeans, SendableMeans, OperationsMean DEF Records
<1>4. \A q \in network : q.record.operation \in Operations
    BY SendableMeans, OperationsMean DEF Records
<1>5. ASSUME NEW t \in Tabs, TabNext(t) PROVE Chosen'
    <2>1. UNCHANGED serverVars
        BY <1>5, TabsLeaveServer
    <2>2. \A r \in store \ store' : r.operation.id \in DOMAIN receipts
        BY <1>5, TabProceeds, SavingInView DEF Proceeds, SavesInView, Chosen
    <2>3. Choice => Choice'
        BY <2>1, <2>2, ChoiceStays DEF serverVars
    <2>4. ASSUME NEW b \in Copies', Overlooks(b)' PROVE Choice'
        <3>1. Overlooks(b)
            BY <2>1, <2>4, ConflictFrame DEF Overlooks, serverVars
        <3>2. Derived(b) \/ Choice'
            BY <1>5, TabDerives
        <3>3. Derived(b) => Choice
            BY <3>1, DerivedOverlooks DEF Chosen
        <3> QED
            BY <2>3, <3>2, <3>3
    <2>5. ASSUME NEW o, Slips(o)' PROVE Slips(o)
        BY <2>1, <2>5, ConflictFrame DEF Slips, serverVars
    <2>6. CASE FinishChoice(t) \/ \E p \in Patches : Enqueue(t, p)
        <3>1. SavesInView
            BY <2>6, SavingInView
        <3>2. ASSUME NEW r \in Pending', Slips(r.operation)' PROVE Choice'
            <4>1. PICK o : o = r.operation
                OBVIOUS
            <4>2. Slips(o)'
                BY <3>2, <4>1
            <4>3. Slips(r.operation)
                BY <2>5, <4>1, <4>2
            <4> QED
                BY <2>3, <3>1, <4>3, ChosenMeans DEF SavesInView
        <3>3. ASSUME NEW q \in network', Slips(q.record.operation)' PROVE Choice'
            <4>1. PICK o : o = q.record.operation
                OBVIOUS
            <4>2. Slips(o)'
                BY <3>3, <4>1
            <4>3. Slips(q.record.operation) /\ q \in network
                BY <2>5, <3>1, <4>1, <4>2 DEF SavesInView
            <4> QED
                BY <2>3, <4>3, ChosenMeans
        <3>4. \A u \in Tabs : volatile'[u] = {}
            BY <3>1 DEF SavesInView, Chosen
        <3> QED
            BY <1>1, <2>4, <3>2, <3>3, <3>4, ChosenMeansNext
    <2>7. CASE Proceeds
        <3>1. ASSUME NEW r \in Pending', Slips(r.operation)' PROVE Choice'
            <4>1. Slips(r.operation)
                BY <2>5, <3>1
            <4> QED
                BY <2>3, <2>7, <4>1, ChosenMeans DEF Proceeds
        <3>2. ASSUME NEW q \in network', Slips(q.record.operation)' PROVE Choice'
            <4>1. Slips(q.record.operation)
                BY <2>5, <3>2
            <4> QED
                BY <2>3, <2>7, <4>1, ChosenMeans DEF Proceeds
        <3>3. \A u \in Tabs : volatile'[u] = {}
            BY <1>2, <2>7 DEF Proceeds, Chosen, QTyped, QTypeOK
        <3> QED
            BY <1>1, <2>4, <3>1, <3>2, <3>3, ChosenMeansNext
    <2> QED
        BY <1>5, <2>6, <2>7, TabProceeds DEF Chosen
<1>6. CASE UNCHANGED <<storageVars, pageVars, todo>> /\ network' \subseteq network
    <2>1. Copies' = Copies /\ Pending' = Pending
        BY <1>6 DEF Copies, Pending, Planned, storageVars, pageVars
    <2>2. ASSUME UNCHANGED serverVars, Choice PROVE Choice'
        BY <1>6, <2>2, ChoiceStays DEF storageVars, serverVars
    <2>3. ASSUME NEW b \in Copies', Overlooks(b)' PROVE Choice'
        <3>1. UNCHANGED serverVars /\ Overlooks(b)
            BY <1>1, <1>2, <2>1, <2>3, CopiesAgree
        <3> QED
            BY <2>1, <2>2, <3>1 DEF Chosen
    <2>4. ASSUME NEW r \in Pending', Slips(r.operation)' PROVE Choice'
        <3>1. UNCHANGED serverVars /\ Slips(r.operation)
            BY <1>1, <1>3, <2>1, <2>4
        <3> QED
            BY <2>1, <2>2, <3>1, ChosenMeans
    <2>5. ASSUME NEW q \in network', Slips(q.record.operation)' PROVE Choice'
        <3>1. UNCHANGED serverVars /\ Slips(q.record.operation) /\ q \in network
            BY <1>1, <1>4, <1>6, <2>5
        <3> QED
            BY <2>2, <3>1, ChosenMeans
    <2>6. \A u \in Tabs : volatile'[u] = {}
        BY <1>6 DEF pageVars, Chosen
    <2> QED
        BY <1>1, <2>3, <2>4, <2>5, <2>6, ChosenMeansNext
<1>7. ASSUME NEW q \in network, Serve(q) PROVE Chosen'
    BY <1>6, <1>7 DEF Serve
<1>8. CASE OtherWriters \/ UNCHANGED vars
    BY <1>6, <1>8 DEF OtherWriters, vars, replayVars
<1> QED
    BY <1>5, <1>7, <1>8 DEF QNext

\* A heartbeat or a completion goes through over content that changed or was
\* never proven only as the first of its session, and only while a choice is
\* held that the server has not taken.
LEMMA AcceptedOverConflict ==
    ASSUME QServed, QChained, Chosen, NEW q \in network, Serve(q),
           row' # row, ResumeConflict, ~Explicit(q.record.operation.intent)
    PROVE  q.record.operation.predecessor = None /\ Choice
<1> DEFINE o == q.record.operation
<1>1. o \in Envelope /\ Operates(o)
    <2>1. o \in Envelope /\ ApplyMediaOperation(o)
        BY ServeSteps DEF QServed, Serve
    <2> QED
        BY <2>1, ApplyShapes
<1>2. /\ o.generation = generation /\ PredecessorAccepted(o) /\ Base(o) = row.revision
    BY <1>1 DEF Operates, Accepted
<1>3. ASSUME o.predecessor # None PROVE FALSE
    <2>1. /\ o.predecessor \in DOMAIN receipts
          /\ receipts[o.predecessor].revision = row.revision
          /\ receipts[o.predecessor].envelope.generation = generation
        BY <1>2, <1>3 DEF PredecessorAccepted, ChainsTo, Base
    <2>2. row.operation = o.predecessor
        BY <2>1 DEF QServed, Inductive, LastWriteIsNamed
    <2> QED
        BY <1>3, <2>1, <2>2 DEF Chosen, WritesAreProven
<1>4. Slips(o)
    BY <1>2, <1>3 DEF Slips, Base
<1> QED
    BY <1>3, <1>4 DEF Chosen

LEMMA QInitChosen == QInit => Chosen
<1> SUFFICES ASSUME QInit PROVE Chosen
    OBVIOUS
<1>1. row.revision = 0 /\ row.operation = None /\ files \in FileLists
    BY DEF QInit, Init, NoRow
<1>2. ~ResumeConflict
    BY <1>1 DEF ResumeConflict, Unfinished
<1>3. \A t \in Tabs : volatile[t] = {}
    BY DEF QInit
<1> QED
    BY <1>1, <1>2, <1>3 DEF Chosen, WritesAreProven, Overlooks, Slips

\* Where localStorage takes every write and every file is proven, nobody plays
\* on over changed content without a deliberate choice, whatever the tabs, the
\* scans, the compatibility clients and the network do.
THEOREM ChangedContentAwaitsChoice ==
    ASSUME Digested PROVE QSpec => OnlyChosenContinues
<1> DEFINE Step ==
        (/\ row'.operation # None
         /\ row'.operation # row.operation
         /\ ~Explicit(receipts'[row'.operation].envelope.intent)
         /\ ResumeConflict)
        => /\ receipts'[row'.operation].envelope.predecessor = None
           /\ \E r \in store : /\ Explicit(r.operation.intent)
                               /\ r.operation.id \notin DOMAIN receipts
<1>1. QInit => Beliefs /\ Behind /\ Chosen
    <2> SUFFICES ASSUME QInit PROVE Beliefs /\ Behind /\ Chosen
        OBVIOUS
    <2>1. Beliefs
        BY DEF QInit, Init, Beliefs
    <2>2. Behind
        BY QInitOperations DEF Behind
    <2> QED
        BY <2>1, <2>2, QInitChosen
<1>2. QServed /\ QChained /\ Beliefs /\ Behind /\ Chosen /\ [QNext]_vars
          => Beliefs' /\ Behind' /\ Chosen'
    BY QNextBelieves, QNextBehind, QNextChosen
<1>3. ASSUME QServed, QChained, Chosen, QNext PROVE Step
    <2>1. ASSUME NEW q \in network, Serve(q), row' # row PROVE Step
        <3> DEFINE o == q.record.operation
        <3>1. o \in Envelope /\ Operates(o)
            <4>1. o \in Envelope /\ ApplyMediaOperation(o)
                BY <1>3, <2>1, ServeSteps DEF QServed, Serve
            <4> QED
                BY <2>1, <4>1, ApplyShapes
        <3>2. receipts'[o.id] = NewReceipt(o) /\ row' = Written(o)
            BY <1>3, <3>1, OperatesEffect DEF QServed, Inductive
        <3>3. row'.operation = o.id /\ receipts'[row'.operation].envelope = o
            BY <3>2 DEF NewReceipt, Written
        <3>4. (ResumeConflict /\ ~Explicit(o.intent)) => o.predecessor = None /\ Choice
            BY <1>3, <2>1, AcceptedOverConflict
        <3> QED
            BY <3>3, <3>4 DEF Choice
    <2>2. CASE row'.operation = row.operation \/ row'.operation = None
        BY <2>2
    <2>3. CASE OtherWriters
        <3>1. CompatibilityWrite => row'.operation = None
            BY <1>3, CompatibilityShapes DEF QServed, Inductive, Overwrites
        <3>2. \A fs : Rescan(fs) => row' = row
            BY DEF Rescan
        <3> QED
            BY <2>2, <2>3, <3>1, <3>2 DEF OtherWriters
    <2> QED
        BY <1>3, <2>1, <2>2, <2>3, TabsLeaveServer DEF QNext, serverVars
<1> QED
    BY <1>1, <1>2, <1>3, QChainedHolds, PTL DEF QSpec, OnlyChosenContinues

==============================================================================
