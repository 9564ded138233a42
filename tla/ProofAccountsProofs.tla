------------------------ MODULE ProofAccountsProofs ------------------------
(***************************************************************************)
(* Theorems of ProofAccounts, for any number of proofs and of record       *)
(* chunks.                                                                 *)
(***************************************************************************)
EXTENDS ProofAccounts, TLAPS

\* How far the operation got determines what it has prepared.
Progress ==
  /\ at \in {"create", "write", "build", "send"} => contexts = Inline
  /\ at \in {"verify", "create"} => records = {}
  /\ at \in {"write", "build", "send"} => records = {Record}
  /\ at = "write" => written \in 1..layout.chunks
  /\ at \in {"build", "send"} => Readable = layout.chunks

\* The call returns when the operation ends, and has debited if it says so.
Answer ==
  /\ at = "ended" <=> outcome # "running"
  /\ debits = IF outcome = "ok" THEN 1 ELSE 0

IInv == TypeOK /\ BooksMatchChain /\ Progress /\ Answer /\ StrandedOnlyByFailedClose

LEMMA InitIInv == Init => IInv
<1> SUFFICES ASSUME Init PROVE IInv
  OBVIOUS
<1>1. TypeOK
  <2>1. written \in 0..MaxChunks /\ tail \in 0..1 /\ debits \in Nat
    BY ProofsAssumption DEF Init
  <2>2. closeFailed \in BOOLEAN
    BY DEF Init
  <2> QED
    BY <2>1, <2>2 DEF Init, TypeOK, Stages
<1>2. BooksMatchChain
  BY DEF Init, BooksMatchChain
<1>3. Progress /\ Answer /\ StrandedOnlyByFailedClose
  BY DEF Init, Progress, Answer, StrandedOnlyByFailedClose
<1> QED
  BY <1>1, <1>2, <1>3 DEF IInv

LEMMA StepTypeOK ==
  ASSUME TypeOK, Progress, [Next]_vars
  PROVE  TypeOK'
<1> USE ProofsAssumption DEF TypeOK, Stages, Layout, CloseAfter
<1>1. ASSUME NEW proof \in Inline, Verify(proof) PROVE TypeOK'
  BY <1>1 DEF Verify
<1>2. CASE VerifyFails \/ AllVerified
  BY <1>2 DEF VerifyFails, AllVerified
<1>3. CASE CreateRecord
  BY <1>3 DEF CreateRecord
<1>4. CASE WriteChunk
  BY <1>4 DEF WriteChunk
<1>5. CASE Stage \/ StageFails
  BY <1>5 DEF Stage, StageFails, Progress
<1>6. CASE WriteTail
  <2>1. written + 1 = layout.chunks
    BY <1>6 DEF WriteTail, Progress, Readable
  <2> QED
    BY <1>6, <2>1 DEF WriteTail
<1>7. CASE Build \/ BuildFails
  BY <1>7 DEF Build, BuildFails
<1>8. CASE Land \/ SendFails
  BY <1>8 DEF Land, SendFails
<1>9. ASSUME NEW batch \in SUBSET (Inline \cup {Record}), CloseBatch(batch)
      PROVE  TypeOK'
  BY <1>9 DEF CloseBatch
<1>10. CASE CloseEnds \/ CloseFails
  BY <1>10 DEF CloseEnds, CloseFails
<1>11. CASE UNCHANGED vars
  BY <1>11 DEF vars
<1> QED
  BY <1>1, <1>2, <1>3, <1>4, <1>5, <1>6, <1>7, <1>8, <1>9, <1>10, <1>11 DEF Next

LEMMA StepIInv ==
  ASSUME IInv, [Next]_vars
  PROVE  IInv'
<1> DEFINE Rest == BooksMatchChain /\ Progress /\ Answer /\ StrandedOnlyByFailedClose
<1> SUFFICES Rest'
  BY StepTypeOK DEF IInv
<1> USE ProofsAssumption
        DEF IInv, TypeOK, Stages, Layout, BooksMatchChain, Progress, Answer,
            StrandedOnlyByFailedClose, CloseAfter
<1>1. ASSUME NEW proof \in Inline, Verify(proof) PROVE Rest'
  BY <1>1 DEF Verify
<1>2. CASE VerifyFails \/ AllVerified
  BY <1>2 DEF VerifyFails, AllVerified
<1>3. CASE CreateRecord
  BY <1>3 DEF CreateRecord
<1>4. CASE WriteChunk
  BY <1>4 DEF WriteChunk
<1>5. CASE Stage
  BY <1>5 DEF Stage, Readable
<1>6. CASE StageFails
  BY <1>6 DEF StageFails
<1>7. CASE WriteTail
  BY <1>7 DEF WriteTail, Readable
<1>8. CASE Build
  BY <1>8 DEF Build, Readable
<1>9. CASE BuildFails
  BY <1>9 DEF BuildFails
<1>10. CASE Land
  BY <1>10 DEF Land
<1>11. CASE SendFails
  BY <1>11 DEF SendFails
<1>12. ASSUME NEW batch \in SUBSET (Inline \cup {Record}), CloseBatch(batch)
       PROVE  Rest'
  BY <1>12 DEF CloseBatch
<1>13. CASE CloseEnds \/ CloseFails
  BY <1>13 DEF CloseEnds, CloseFails
<1>14. CASE UNCHANGED vars
  BY <1>14 DEF vars, Readable
<1> QED
  BY <1>1, <1>2, <1>3, <1>4, <1>5, <1>6, <1>7, <1>8, <1>9, <1>10, <1>11, <1>12,
     <1>13, <1>14 DEF Next

\* The invariant, for any proofs and any layout.
LEMMA Invariance == Spec => []IInv
<1>1. IInv /\ [Next]_vars => IInv'
  BY StepIInv
<1> QED
  BY InitIInv, <1>1, PTL DEF Spec

\* Counters stay within their bounds: no more than one chunk is ever kept back,
\* and a record is never written past its last chunk (stage_from_record).
THEOREM BookkeepingTypeCorrect == Spec => []TypeOK
<1>1. IInv => TypeOK
  BY DEF IInv
<1> QED
  BY <1>1, Invariance, PTL

\* The client never loses track of a proof account.
THEOREM BooksAreRight == Spec => []BooksMatchChain
<1>1. IInv => BooksMatchChain
  BY DEF IInv
<1> QED
  BY <1>1, Invariance, PTL

\* The consuming transaction is never sent for an incomplete set of proofs.
THEOREM ReadyBeforeUse == Spec => []ReadyWhenSent
<1>1. IInv => ReadyWhenSent
  BY DEF IInv, BooksMatchChain, Progress, ReadyWhenSent
<1> QED
  BY <1>1, Invariance, PTL

\* Rent is stranded in proof accounts only when a close was refused.
THEOREM StrandedOnlyIfRefused == Spec => []StrandedOnlyByFailedClose
<1>1. IInv => StrandedOnlyByFailedClose
  BY DEF IInv
<1> QED
  BY <1>1, Invariance, PTL

\* The many transactions of a confidential debit are one atomic debit to its
\* caller: every step is a step of AtomicDebit or stutters in it (that the
\* operation returns is left to the model checker).
THEOREM DebitRefines == Spec => Debit!Init /\ [][Debit!Next]_(Debit!vars)
<1>1. Init => Debit!Init
  BY DEF Init, Debit!Init
<1>2. IInv /\ [Next]_vars => [Debit!Next]_(Debit!vars)
  <2> SUFFICES ASSUME IInv, [Next]_vars PROVE [Debit!Next]_(Debit!vars)
    OBVIOUS
  <2> USE DEF IInv, Answer, CloseAfter, Debit!Next, Debit!Succeed, Debit!Refuse,
              Debit!vars
  <2>1. ASSUME NEW proof \in Inline, Verify(proof) PROVE UNCHANGED Debit!vars
    BY <2>1 DEF Verify
  <2>2. CASE Land
    BY <2>2 DEF Land
  <2>3. CASE CloseEnds \/ CloseFails
    BY <2>3 DEF CloseEnds, CloseFails
  <2>4. ASSUME NEW batch \in SUBSET (Inline \cup {Record}), CloseBatch(batch)
        PROVE  UNCHANGED Debit!vars
    BY <2>4 DEF CloseBatch
  <2>5. CASE \/ VerifyFails \/ AllVerified \/ CreateRecord \/ WriteChunk
             \/ Stage \/ StageFails \/ WriteTail \/ Build \/ BuildFails
             \/ SendFails \/ UNCHANGED vars
    BY <2>5 DEF VerifyFails, AllVerified, CreateRecord, WriteChunk, Stage,
                StageFails, WriteTail, Build, BuildFails, SendFails, vars
  <2> QED
    BY <2>1, <2>2, <2>3, <2>4, <2>5 DEF Next
<1> QED
  BY <1>1, <1>2, Invariance, PTL DEF Spec
=============================================================================
