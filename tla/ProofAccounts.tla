--------------------------- MODULE ProofAccounts ---------------------------
(***************************************************************************)
(* One confidential debit (a transfer or a withdraw) as proofs.rs sends    *)
(* it: small proofs are verified into context accounts, one transaction    *)
(* each; the range proof is written into a record account in chunks; one   *)
(* last transaction verifies it from there, runs the Token-2022            *)
(* instruction and closes every account.  Any transaction may fail, and    *)
(* then the accounts created so far are closed.                            *)
(*                                                                         *)
(* The record is written by one process and read by the chain; everything  *)
(* the client remembers (`contexts`, `records`, `tail`, `closing`) is kept *)
(* apart from what is on the chain (`open`, `written`).                    *)
(***************************************************************************)
EXTENDS Naturals, FiniteSets

CONSTANTS
  Inline,      \* proofs that are verified into a context of their own
  Record,      \* the record account of the range proof
  MaxChunks    \* most transactions' worth of record bytes explored

ASSUME ProofsAssumption ==
  /\ IsFiniteSet(Inline)
  /\ Record \notin Inline
  /\ MaxChunks \in Nat \ {0}

\* What the packet limit makes of the proofs: the record writes the range
\* proof takes, whether its last chunk fits in the consuming transaction, and
\* whether that transaction fits in a packet without it.
Layout == [chunks : 1..MaxChunks, tailRides : BOOLEAN, fits : BOOLEAN]

VARIABLES
  layout,     \* the sizes of this operation's proofs
  at,         \* where the client is
  contexts,   \* ProofAccounts::contexts
  records,    \* ProofAccounts::records
  tail,       \* chunks kept back in Staged::tail_write, none or one
  closing,    \* closes the client has still to send
  outcome,    \* what the call has returned so far
  open,       \* proof accounts on the chain
  written,    \* chunks in the record account
  debits,     \* history: executions of the Token-2022 instruction
  closeFailed \* history: a transaction that closes accounts failed

vars == <<layout, at, contexts, records, tail, closing, outcome, open, written,
          debits, closeFailed>>

Stages == {"verify", "create", "write", "build", "send", "close", "ended"}

\* The client's bookkeeping is about accounts of this operation.
TypeOK ==
  /\ layout \in Layout
  /\ at \in Stages
  /\ contexts \subseteq Inline
  /\ records \subseteq {Record}
  /\ tail \in 0..1
  /\ closing \subseteq Inline \cup {Record}
  /\ outcome \in {"running", "ok", "error"}
  /\ open \subseteq Inline \cup {Record}
  /\ written \in 0..MaxChunks
  /\ debits \in Nat
  /\ closeFailed \in BOOLEAN

Init ==
  /\ layout \in Layout
  /\ at = "verify"
  /\ contexts = {}
  /\ records = {}
  /\ tail = 0
  /\ closing = {}
  /\ outcome = "running"
  /\ open = {}
  /\ written = 0
  /\ debits = 0
  /\ closeFailed = FALSE

-----------------------------------------------------------------------------
(* close_after: every account the client knows of is to be closed; staged  *)
(* contexts only exist inside the consuming transaction.                   *)

\* Mutation: the records are forgotten.
CloseContextsAfter ==
  /\ at' = "close"
  /\ closing' = contexts

CloseAfter ==
  /\ at' = "close"
  /\ closing' = contexts \cup records

-----------------------------------------------------------------------------
(* verify: create a context and verify the proof into it, atomically; the  *)
(* client remembers it once the transaction has landed.                    *)

\* Mutation: the context is not remembered.
VerifyUnrecorded(proof) ==
  /\ at = "verify"
  /\ proof \in Inline \ open
  /\ open' = open \cup {proof}
  /\ UNCHANGED <<layout, at, contexts, records, tail, closing, outcome, written,
                 debits, closeFailed>>

Verify(proof) ==
  /\ at = "verify"
  /\ proof \in Inline \ contexts
  /\ open' = open \cup {proof}
  /\ contexts' = contexts \cup {proof}
  /\ UNCHANGED <<layout, at, records, tail, closing, outcome, written, debits,
                 closeFailed>>

\* A proof too large for one transaction, or a transaction that fails.
VerifyFails ==
  /\ at = "verify"
  /\ contexts # Inline
  /\ CloseAfter
  /\ UNCHANGED <<layout, contexts, records, tail, outcome, open, written,
                 debits, closeFailed>>

AllVerified ==
  /\ at = "verify"
  /\ contexts = Inline
  /\ at' = "create"
  /\ UNCHANGED <<layout, contexts, records, tail, closing, outcome, open,
                 written, debits, closeFailed>>

-----------------------------------------------------------------------------
(* stage_from_record: create the record with its first chunk, write full   *)
(* chunks, keep the last one back.                                         *)

CreateRecord ==
  /\ at = "create"
  /\ open' = open \cup {Record}
  /\ records' = records \cup {Record}
  /\ written' = 1
  /\ at' = "write"
  /\ UNCHANGED <<layout, contexts, tail, closing, outcome, debits, closeFailed>>

WriteChunk ==
  /\ at = "write"
  /\ written + 1 < layout.chunks
  /\ written' = written + 1
  /\ UNCHANGED <<layout, at, contexts, records, tail, closing, outcome, open,
                 debits, closeFailed>>

\* The rest fits in one write, or there is no rest: the proof is staged.
Stage ==
  /\ at = "write"
  /\ written + 1 >= layout.chunks
  /\ tail' = layout.chunks - written
  /\ at' = "build"
  /\ UNCHANGED <<layout, contexts, records, closing, outcome, open, written,
                 debits, closeFailed>>

\* The record's creation fails, or a write that was to be sent.
StageFails ==
  /\ \/ at = "create"
     \/ at = "write" /\ written + 1 < layout.chunks
  /\ CloseAfter
  /\ UNCHANGED <<layout, contexts, records, tail, outcome, open, written,
                 debits, closeFailed>>

-----------------------------------------------------------------------------
(* consume *)

\* Mutation: the kept chunk is dropped instead of written.
WriteTailDropped ==
  /\ at = "build"
  /\ tail = 1
  /\ ~layout.tailRides
  /\ tail' = 0
  /\ UNCHANGED <<layout, at, contexts, records, closing, outcome, open, written,
                 debits, closeFailed>>

\* The kept chunk does not fit in the consuming transaction: write it first.
WriteTail ==
  /\ at = "build"
  /\ tail = 1
  /\ ~layout.tailRides
  /\ written' = written + 1
  /\ tail' = 0
  /\ UNCHANGED <<layout, at, contexts, records, closing, outcome, open, debits,
                 closeFailed>>

\* The consuming transaction fits, with the kept chunk if there is one.
Build ==
  /\ at = "build"
  /\ IF tail = 1 THEN layout.tailRides ELSE layout.fits
  /\ at' = "send"
  /\ UNCHANGED <<layout, contexts, records, tail, closing, outcome, open,
                 written, debits, closeFailed>>

\* The kept chunk's write fails, or the transaction does not fit without it.
BuildFails ==
  /\ at = "build"
  /\ IF tail = 1 THEN ~layout.tailRides ELSE ~layout.fits
  /\ CloseAfter
  /\ UNCHANGED <<layout, contexts, records, tail, outcome, open, written,
                 debits, closeFailed>>

\* Chunks in the record when the range proof is verified from it.
Readable == written + tail

\* One transaction: the range proof is verified from the record, the
\* Token-2022 instruction runs, every proof account is closed.
Land ==
  /\ at = "send"
  /\ Inline \cup {Record} \subseteq open
  /\ Readable = layout.chunks
  /\ debits' = debits + 1
  /\ open' = open \ (contexts \cup records)
  /\ outcome' = "ok"
  /\ at' = "ended"
  /\ UNCHANGED <<layout, contexts, records, tail, closing, written, closeFailed>>

\* The balance, the account or the fee changed, or the cluster refused.
SendFails ==
  /\ at = "send"
  /\ CloseAfter
  /\ UNCHANGED <<layout, contexts, records, tail, outcome, open, written,
                 debits, closeFailed>>

-----------------------------------------------------------------------------
(* close: as many closes per transaction as fit (here, any batch).         *)

CloseBatch(batch) ==
  /\ at = "close"
  /\ batch \subseteq closing \cap open
  /\ batch # {}
  /\ open' = open \ batch
  /\ closing' = closing \ batch
  /\ UNCHANGED <<layout, at, contexts, records, tail, outcome, written, debits,
                 closeFailed>>

\* Everything is closed: close_after hands back the original error.
CloseEnds ==
  /\ at = "close"
  /\ closing = {}
  /\ outcome' = "error"
  /\ at' = "ended"
  /\ UNCHANGED <<layout, contexts, records, tail, closing, open, written, debits,
                 closeFailed>>

\* A batch fails: the rest is not tried, and the original error is returned.
CloseFails ==
  /\ at = "close"
  /\ closing # {}
  /\ outcome' = "error"
  /\ at' = "ended"
  /\ closeFailed' = TRUE
  /\ UNCHANGED <<layout, contexts, records, tail, closing, open, written,
                 debits>>

-----------------------------------------------------------------------------
Next ==
  \/ \E proof \in Inline : Verify(proof)
  \/ VerifyFails
  \/ AllVerified
  \/ CreateRecord
  \/ WriteChunk
  \/ Stage
  \/ StageFails
  \/ WriteTail
  \/ Build
  \/ BuildFails
  \/ Land
  \/ SendFails
  \/ \E batch \in SUBSET (Inline \cup {Record}) : CloseBatch(batch)
  \/ CloseEnds
  \/ CloseFails

\* The client is one sequential process and every send returns an outcome
\* (Cluster::send waits for it), so it keeps taking steps.
Spec == Init /\ [][Next]_vars /\ WF_vars(Next)

-----------------------------------------------------------------------------
(* Properties. *)

\* The client knows every proof account on the chain, at every moment: those
\* to close are exactly those open (verify, stage_from_record, close_after).
BooksMatchChain ==
  CASE at = "close" -> open = closing
    [] at = "ended" -> TRUE
    [] OTHER        -> open = contexts \cup records

\* The consuming transaction is sent only when every proof it names is there
\* to be used: all contexts verified, all chunks written or riding along.
ReadyWhenSent ==
  at = "send" => /\ Inline \cup {Record} \subseteq open
                 /\ Readable = layout.chunks

\* An ended operation leaves no proof account behind, unless the cluster
\* refused the transaction that was to close it.
StrandedOnlyByFailedClose == at = "ended" /\ ~closeFailed => open = {}

\* "So a failed operation does not strand rent in proof accounts"
\* (close_after): an ended operation leaves no proof account behind.
NothingStranded == at = "ended" => open = {}

Debit == INSTANCE AtomicDebit

\* The operation as its caller sees it: the debit happens once and the call
\* returns Ok, or never and it returns an error; and it does return (transfer,
\* withdraw).
DebitIsAtomic == Debit!Spec
=============================================================================
