--------------------------- MODULE RecordPacking ---------------------------
(***************************************************************************)
(* How a record account is filled, byte by byte (stage_from_record and     *)
(* largest_chunk of proofs.rs).  ProofAccounts takes the number of chunks  *)
(* of a proof as given; here it comes out of the sizes: before each        *)
(* transaction a binary search finds the longest prefix of what is left    *)
(* that still fits in a packet with it.                                    *)
(*                                                                         *)
(* transaction_size grows with the chunk, so what fits is all the lengths  *)
(* up to some bound: `createRoom` next to the creation of the record,      *)
(* `writeRoom` in a write of its own.                                      *)
(***************************************************************************)
EXTENDS ProofAccounts

CONSTANT MaxBytes   \* most bytes of a proof explored

\* One chunk for each byte, and some to spare (see ChunksOf).
ASSUME BytesAssumption == MaxBytes \in Nat \ {0} /\ MaxBytes + 2 <= MaxChunks

VARIABLES
  sizes,    \* the sizes the packet limit gives this proof
  offset,   \* bytes of the proof in the record
  low,      \* largest_chunk: the longest prefix known to fit
  high      \* largest_chunk: the longest one not known not to

search == <<sizes, offset, low, high>>
packVars == <<vars, sizes, offset, low, high>>

Sizes == [bytes : 1..MaxBytes, createRoom : 0..MaxBytes, writeRoom : 0..MaxBytes]

\* The bytes that are not in the record yet, and how many of them the next
\* transaction can carry.
Rest == sizes.bytes - offset
Room == IF at = "write" THEN sizes.writeRoom ELSE sizes.createRoom

\* The chunks the sizes amount to: those of the creation and as few writes as
\* the rest can do with.  A rest that no write can carry never ends.
ChunksOf(s) ==
  LET rest == IF s.createRoom < s.bytes THEN s.bytes - s.createRoom ELSE 0
  IN  IF rest = 0 THEN 1
      ELSE IF s.writeRoom = 0 THEN MaxChunks
      ELSE 1 + (rest + s.writeRoom - 1) \div s.writeRoom

PackInit ==
  /\ Init
  /\ sizes \in Sizes
  /\ layout.chunks = ChunksOf(sizes)
  /\ offset = 0
  /\ low = 0
  /\ high = sizes.bytes

-----------------------------------------------------------------------------
(* largest_chunk. *)

\* Mutation: a transaction of exactly the limit is taken not to fit.
BelowLimit(n) == n < Room

\* fits_in_one_transaction, of a transaction with a chunk of `n` bytes.
FitsInOneTransaction(n) == n <= Room

Searching == at \in {"create", "write"} /\ low < high

\* Mutation: the middle is rounded down.
NarrowDown ==
  LET mid == (low + high) \div 2 IN
  /\ Searching
  /\ IF FitsInOneTransaction(mid)
     THEN low' = mid /\ high' = high
     ELSE low' = low /\ high' = mid - 1
  /\ UNCHANGED <<vars, sizes, offset>>

Narrow ==
  LET mid == (low + high + 1) \div 2 IN
  /\ Searching
  /\ IF FitsInOneTransaction(mid)
     THEN low' = mid /\ high' = high
     ELSE low' = low /\ high' = mid - 1
  /\ UNCHANGED <<vars, sizes, offset>>

\* The chunk found is on the chain; the next search is in the bytes left.
Advance ==
  /\ offset' = offset + low
  /\ low' = 0
  /\ high' = Rest - low
  /\ UNCHANGED sizes

-----------------------------------------------------------------------------
(* stage_from_record. *)

\* The record is created with as many bytes as fit.
CreateWithBytes ==
  /\ ~Searching
  /\ CreateRecord
  /\ Advance

\* Mutation: the offset stays.
WriteBytesInPlace ==
  /\ at = "write" /\ ~Searching
  /\ low \notin {0, Rest}
  /\ written' = written + 1
  /\ UNCHANGED <<search, layout, at, contexts, records, tail, closing, outcome,
                 open, debits, closeFailed>>

\* Mutation: the last chunk is not kept back.
WriteAllBytes ==
  /\ at = "write" /\ ~Searching
  /\ low # 0
  /\ written' = written + 1
  /\ Advance
  /\ UNCHANGED <<layout, at, contexts, records, tail, closing, outcome, open,
                 debits, closeFailed>>

\* A full chunk, more to come.
WriteBytes ==
  /\ at = "write" /\ ~Searching
  /\ low \notin {0, Rest}
  /\ written' = written + 1
  /\ Advance
  /\ UNCHANGED <<layout, at, contexts, records, tail, closing, outcome, open,
                 debits, closeFailed>>

\* Nothing is left, or what is left fits in one write, which is kept back.
StageBytes ==
  /\ at = "write" /\ ~Searching
  /\ low = Rest
  /\ tail' = IF Rest = 0 THEN 0 ELSE 1
  /\ at' = "build"
  /\ UNCHANGED <<search, layout, contexts, records, closing, outcome, open,
                 written, debits, closeFailed>>

\* A transaction fails, or not one byte fits in a write.
StageBytesFails ==
  /\ ~Searching
  /\ \/ at = "create"
     \/ at = "write" /\ low # Rest
  /\ CloseAfter
  /\ UNCHANGED <<search, layout, contexts, records, tail, outcome, open,
                 written, debits, closeFailed>>

-----------------------------------------------------------------------------
\* Before the record, and after it is staged, as in ProofAccounts.
OtherStages ==
  /\ \/ \E proof \in Inline : Verify(proof)
     \/ VerifyFails
     \/ AllVerified
     \/ WriteTail
     \/ Build
     \/ BuildFails
     \/ Land
     \/ SendFails
     \/ \E batch \in SUBSET (Inline \cup {Record}) : CloseBatch(batch)
     \/ CloseEnds
     \/ CloseFails
  /\ UNCHANGED search

PackNext ==
  \/ OtherStages
  \/ Narrow
  \/ CreateWithBytes
  \/ WriteBytes
  \/ StageBytes
  \/ StageBytesFails

\* Fair as in ProofAccounts: the search is a loop of the same process.
PackSpec == PackInit /\ [][PackNext]_packVars /\ WF_packVars(PackNext)

-----------------------------------------------------------------------------
(* Properties. *)

\* "Largest prefix of data for which build(prefix) still fits in one
\* transaction": a search that has ended is at the longest one, so no
\* transaction is over the limit and none has room to spare (largest_chunk).
LongestPrefix ==
  at \in {"create", "write"} /\ low >= high =>
    /\ low = high
    /\ low <= Rest /\ low <= Room
    /\ low \in {Rest, Room}

\* The bytes of every proof, whatever its size, end up in as few chunks as the
\* packet limit allows, all but the last of them written before the proof is
\* used (stage_from_record): what ProofAccounts says of chunks is what happens
\* to bytes.
ImplementsProofAccounts == Init /\ [][Next]_vars
=============================================================================
