------------------------ MODULE RecordPackingProofs ------------------------
(***************************************************************************)
(* Theorems of RecordPacking, for proofs and packets of every size: the    *)
(* search finds the longest chunk that fits, and a record filled byte by   *)
(* byte is one filled chunk by chunk.                                      *)
(***************************************************************************)
EXTENDS RecordPacking, ProofAccountsProofs

-----------------------------------------------------------------------------
(* Division, by steps of the divisor. *)

LEMMA DivSmall ==
  ASSUME NEW n \in Nat, NEW w \in Nat, n < w
  PROVE  n \div w = 0
BY SMT

LEMMA DivShift ==
  ASSUME NEW n \in Nat, NEW w \in Nat \ {0}, w <= n
  PROVE  n \div w = 1 + (n - w) \div w
BY SMT

LEMMA DivNat ==
  ASSUME NEW n \in Nat, NEW w \in Nat \ {0}
  PROVE  n \div w \in Nat
BY SMT

-----------------------------------------------------------------------------
(* The search. *)

\* Until the proof is staged: what is below `low` fits, what is above `high`
\* does not, or is not there.
SearchInv ==
  /\ sizes \in Sizes
  /\ offset \in 0..sizes.bytes
  /\ at \in {"verify", "create", "write"} =>
       /\ low \in Nat /\ high \in Nat
       /\ low <= high /\ high <= Rest
       /\ low <= Room
       /\ high = Rest \/ Room <= high
  /\ at \in {"verify", "create"} => offset = 0
  /\ at = "verify" => low = 0 /\ high = Rest

LEMMA SearchInit == PackInit => SearchInv
BY BytesAssumption DEF PackInit, Init, SearchInv, Sizes, Rest, Room

\* After each chunk the search starts again in what is left.
LEMMA AdvanceSearch ==
  ASSUME SearchInv, at \in {"create", "write"}, at' = "write", Advance
  PROVE  SearchInv'
<1> USE DEF SearchInv, Sizes, Rest, Room, Advance
<1>1. offset' \in 0..sizes'.bytes
  OBVIOUS
<1>2. high' = Rest' /\ low' = 0 /\ Rest' \in Nat /\ Room' \in Nat
  OBVIOUS
<1> QED
  BY <1>1, <1>2

LEMMA SearchStep ==
  ASSUME SearchInv, [PackNext]_packVars
  PROVE  SearchInv'
<1>1. CASE OtherStages
  <2>1. /\ UNCHANGED <<sizes, offset, low, high>>
        /\ \/ at' = at
           \/ at = "verify" /\ at' = "create"
           \/ at' \notin {"verify", "create", "write"}
    BY <1>1
    DEF OtherStages, search, Verify, VerifyFails, AllVerified, WriteTail, Build,
        BuildFails, Land, SendFails, CloseBatch, CloseEnds, CloseFails,
        CloseAfter
  <2> QED
    BY <2>1 DEF SearchInv, Rest, Room
<1>2. CASE Narrow
  <2> DEFINE mid == (low + high + 1) \div 2
  <2>1. /\ low \in Nat /\ high \in Nat /\ low < high /\ high <= Rest
        /\ low <= Room /\ (high = Rest \/ Room <= high)
        /\ Room \in Nat
    BY <1>2 DEF Narrow, Searching, SearchInv, Room, Sizes
  <2>2. mid \in Nat /\ low < mid /\ mid <= high
    BY <2>1
  <2>3. /\ UNCHANGED <<sizes, offset, at>>
        /\ at \in {"create", "write"}
        /\ \/ mid <= Room /\ low' = mid /\ high' = high
           \/ ~(mid <= Room) /\ low' = low /\ high' = mid - 1
    BY <1>2 DEF Narrow, Searching, FitsInOneTransaction, vars
  <2>4. Rest' = Rest /\ Room' = Room
    BY <2>3 DEF Rest, Room
  <2> HIDE DEF mid
  <2>5. Rest \in Nat
    BY DEF SearchInv, Rest, Sizes
  <2>6. /\ low' \in Nat /\ high' \in Nat
        /\ low' <= high' /\ high' <= Rest
        /\ low' <= Room
        /\ high' = Rest \/ Room <= high'
    BY <2>1, <2>2, <2>3, <2>5
  <2> QED
    BY <2>3, <2>4, <2>6 DEF SearchInv
<1>3. CASE CreateWithBytes
  BY <1>3, AdvanceSearch DEF CreateWithBytes, CreateRecord
<1>4. CASE WriteBytes
  BY <1>4, AdvanceSearch DEF WriteBytes
<1>5. CASE StageBytes \/ StageBytesFails
  BY <1>5
  DEF StageBytes, StageBytesFails, CloseAfter, search, SearchInv, Rest, Room
<1>6. CASE UNCHANGED packVars
  BY <1>6 DEF packVars, vars, SearchInv, Rest, Room
<1> QED
  BY <1>1, <1>2, <1>3, <1>4, <1>5, <1>6 DEF PackNext

LEMMA SearchIsRight == SearchInv => LongestPrefix
BY DEF SearchInv, LongestPrefix, Rest, Room, Sizes

LEMMA SearchInvariance == PackSpec => []SearchInv
BY SearchInit, SearchStep, PTL DEF PackSpec

\* Every transaction that fills a record is as full as the packet limit allows
\* and no fuller, for proofs and packets of every size.
THEOREM SearchFindsLongest == PackSpec => []LongestPrefix
BY SearchInvariance, SearchIsRight, PTL

-----------------------------------------------------------------------------
(* Chunks. *)

\* Writes it takes to carry `n` bytes, in writes of `w`.
Writes(n, w) == (n + w - 1) \div w

\* One write carries up to `w` bytes, and takes one off the count.
LEMMA LastWrite ==
  ASSUME NEW n \in Nat \ {0}, NEW w \in Nat \ {0}, n <= w
  PROVE  Writes(n, w) = 1
<1>1. (n + w - 1) \div w = 1 + (n - 1) \div w
  <2>1. n + w - 1 \in Nat /\ w <= n + w - 1 /\ (n + w - 1) - w = n - 1
    OBVIOUS
  <2> QED
    BY <2>1, DivShift
<1>2. (n - 1) \div w = 0
  <2>1. n - 1 \in Nat /\ n - 1 < w
    OBVIOUS
  <2> QED
    BY <2>1, DivSmall
<1> QED
  BY <1>1, <1>2 DEF Writes

LEMMA FullWrite ==
  ASSUME NEW n \in Nat, NEW w \in Nat \ {0}, w < n
  PROVE  /\ Writes(n, w) = 1 + Writes(n - w, w)
         /\ Writes(n - w, w) \in Nat \ {0}
<1> DEFINE m == (n - w) + w - 1
<1>1. /\ n + w - 1 \in Nat /\ w <= n + w - 1 /\ (n + w - 1) - w = m
      /\ m \in Nat /\ w <= m
  OBVIOUS
<1>2. (n + w - 1) \div w = 1 + m \div w
  BY <1>1, DivShift
<1>3. m \div w = 1 + (m - w) \div w
  BY <1>1, DivShift
<1>4. (m - w) \div w \in Nat
  <2>1. m - w \in Nat
    BY <1>1
  <2> QED
    BY <2>1, DivNat
<1> QED
  BY <1>2, <1>3, <1>4 DEF Writes

\* The chunks of the plan are those in the record and those its rest will take.
ChunksInv ==
  /\ at \in {"verify", "create"} => layout.chunks = ChunksOf(sizes)
  /\ at = "write" =>
       /\ written \in Nat
       /\ Rest = 0 => layout.chunks = written
       /\ Rest # 0 /\ sizes.writeRoom = 0 =>
            layout.chunks = MaxChunks /\ written = 1
       /\ Rest # 0 /\ sizes.writeRoom # 0 =>
            layout.chunks = written + Writes(Rest, sizes.writeRoom)

\* What is known of the search where a chunk is about to be sent or kept.
LEMMA Searched ==
  ASSUME SearchInv, at \in {"create", "write"}, ~Searching
  PROVE  /\ low \in Nat /\ Rest \in Nat /\ Room \in Nat
         /\ low <= Rest /\ low <= Room
         /\ low = Rest \/ low = Room
BY DEF SearchInv, Searching, Rest, Room, Sizes

LEMMA CreateRefines ==
  ASSUME SearchInv, ChunksInv, CreateWithBytes
  PROVE  [Next]_vars /\ ChunksInv'
<1>1. CreateRecord /\ Advance /\ ~Searching /\ at = "create" /\ offset = 0
  BY DEF CreateWithBytes, CreateRecord, SearchInv
<1>2. /\ at' = "write" /\ written' = 1 /\ UNCHANGED <<layout, sizes>>
      /\ Rest' = Rest - low
  BY <1>1, Searched DEF CreateRecord, Advance, Rest, SearchInv, Sizes
<1>3. /\ sizes.bytes \in Nat /\ sizes.createRoom \in Nat /\ sizes.writeRoom \in Nat
      /\ Rest = sizes.bytes /\ Room = sizes.createRoom
  BY <1>1 DEF SearchInv, Sizes, Rest, Room
<1> DEFINE rest == IF sizes.createRoom < sizes.bytes
                   THEN sizes.bytes - sizes.createRoom ELSE 0
<1>4. Rest' = rest
  BY <1>1, <1>2, <1>3, Searched
<1>5. layout.chunks = IF rest = 0 THEN 1
                      ELSE IF sizes.writeRoom = 0 THEN MaxChunks
                      ELSE 1 + Writes(rest, sizes.writeRoom)
  BY <1>1 DEF ChunksInv, ChunksOf, Writes
<1> HIDE DEF rest
<1>6. ChunksInv'
  BY <1>2, <1>4, <1>5 DEF ChunksInv
<1> QED
  BY <1>1, <1>6 DEF Next

LEMMA WriteRefines ==
  ASSUME SearchInv, ChunksInv, WriteBytes
  PROVE  [Next]_vars /\ ChunksInv'
<1> DEFINE w == sizes.writeRoom
<1>1. /\ at = "write" /\ at' = "write" /\ ~Searching /\ low \notin {0, Rest}
      /\ written' = written + 1 /\ Advance
      /\ UNCHANGED <<layout, sizes>>
  BY DEF WriteBytes, Advance
<1>2. Room = w
  BY <1>1 DEF Room
<1>3. w \in Nat \ {0} /\ Rest \in Nat /\ w < Rest /\ low = w
  BY <1>1, <1>2, Searched
<1>4. Rest' = Rest - w
  BY <1>1, <1>3 DEF Advance, Rest, SearchInv, Sizes
<1>5. /\ layout.chunks = written + Writes(Rest, w) /\ written \in Nat
      /\ Writes(Rest, w) = 1 + Writes(Rest - w, w)
      /\ Writes(Rest - w, w) \in Nat \ {0}
  BY <1>1, <1>3, FullWrite DEF ChunksInv
<1> HIDE DEF w
<1>6. written + 1 < layout.chunks
  BY <1>5
<1>7. WriteChunk
  BY <1>1, <1>6 DEF WriteBytes, WriteChunk
<1>8. sizes'.writeRoom = w /\ w # 0 /\ Rest' # 0
  BY <1>1, <1>3, <1>4 DEF w
<1>9. layout'.chunks = written' + Writes(Rest', w) /\ written' \in Nat
  BY <1>1, <1>4, <1>5
<1>10. ChunksInv'
  BY <1>1, <1>8, <1>9 DEF ChunksInv
<1> QED
  BY <1>7, <1>10 DEF Next

LEMMA StageRefines ==
  ASSUME SearchInv, ChunksInv, StageBytes
  PROVE  [Next]_vars /\ ChunksInv'
<1>1. at = "write" /\ at' = "build" /\ ~Searching /\ low = Rest /\ written \in Nat
  BY DEF StageBytes, ChunksInv
<1>2. Rest \in Nat /\ sizes.writeRoom \in Nat /\ Rest <= sizes.writeRoom
  BY <1>1, Searched DEF Room
<1>3. layout.chunks = IF Rest = 0 THEN written ELSE written + 1
  <2>1. CASE Rest = 0
    BY <1>1, <2>1 DEF ChunksInv
  <2>2. CASE Rest # 0
    BY <1>1, <1>2, <2>2, LastWrite DEF ChunksInv
  <2> QED
    BY <2>1, <2>2
<1>4. Stage
  <2>1. tail' = layout.chunks - written /\ written + 1 >= layout.chunks
    BY <1>1, <1>3 DEF StageBytes
  <2> QED
    BY <2>1 DEF StageBytes, Stage
<1>5. ChunksInv'
  BY <1>1 DEF ChunksInv
<1> QED
  BY <1>4, <1>5 DEF Next

LEMMA StageFailsRefines ==
  ASSUME SearchInv, ChunksInv, StageBytesFails
  PROVE  [Next]_vars /\ ChunksInv'
<1>1. at' = "close" /\ ~Searching
  BY DEF StageBytesFails, CloseAfter
<1>2. ASSUME at = "write", low # Rest
      PROVE  written + 1 < layout.chunks
  <2> DEFINE w == sizes.writeRoom
  <2>1. w \in Nat /\ Rest \in Nat /\ w < Rest /\ low = w
    BY <1>1, <1>2, Searched DEF Room
  <2>2. CASE w = 0
    BY <1>2, <2>1, <2>2, BytesAssumption, ProofsAssumption DEF ChunksInv
  <2>3. CASE w # 0
    <3>1. /\ layout.chunks = written + Writes(Rest, w) /\ written \in Nat
          /\ Writes(Rest, w) = 1 + Writes(Rest - w, w)
          /\ Writes(Rest - w, w) \in Nat \ {0}
      BY <1>2, <2>1, <2>3, FullWrite DEF ChunksInv
    <3> QED
      BY <3>1
  <2> QED
    BY <2>2, <2>3
<1>3. StageFails
  BY <1>2 DEF StageBytesFails, StageFails
<1>4. ChunksInv'
  BY <1>1 DEF ChunksInv
<1> QED
  BY <1>3, <1>4 DEF Next

LEMMA PackStepRefines ==
  ASSUME SearchInv, ChunksInv, [PackNext]_packVars
  PROVE  [Next]_vars /\ ChunksInv'
<1>1. CASE OtherStages
  <2>1. Next
    BY <1>1 DEF OtherStages, Next
  <2>2. /\ UNCHANGED <<sizes, offset, layout>>
        /\ \/ at' = at /\ at # "write"
           \/ at = "verify" /\ at' = "create"
           \/ at' \notin {"verify", "create", "write"}
    BY <1>1
    DEF OtherStages, search, Verify, VerifyFails, AllVerified, WriteTail, Build,
        BuildFails, Land, SendFails, CloseBatch, CloseEnds, CloseFails,
        CloseAfter
  <2>3. ChunksInv'
    BY <2>2 DEF ChunksInv
  <2> QED
    BY <2>1, <2>3
<1>2. CASE Narrow
  BY <1>2 DEF Narrow, vars, ChunksInv, Rest
<1>3. CASE CreateWithBytes
  BY <1>3, CreateRefines
<1>4. CASE WriteBytes
  BY <1>4, WriteRefines
<1>5. CASE StageBytes
  BY <1>5, StageRefines
<1>6. CASE StageBytesFails
  BY <1>6, StageFailsRefines
<1>7. CASE UNCHANGED packVars
  BY <1>7 DEF packVars, vars, ChunksInv, Rest
<1> QED
  BY <1>1, <1>2, <1>3, <1>4, <1>5, <1>6, <1>7 DEF PackNext

\* Filling a record byte by byte, by a search before each transaction, is
\* filling it with the fewest chunks; so the theorems about ProofAccounts hold
\* of proofs and packets of every size.
THEOREM PackingImplements == PackSpec => ImplementsProofAccounts
<1>1. PackInit => Init /\ SearchInv /\ ChunksInv
  <2>1. PackInit => ChunksInv
    BY DEF PackInit, Init, ChunksInv
  <2> QED
    BY <2>1, SearchInit DEF PackInit
<1>2. SearchInv /\ ChunksInv /\ [PackNext]_packVars
        => (SearchInv /\ ChunksInv)' /\ [Next]_vars
  BY SearchStep, PackStepRefines
<1> QED
  BY <1>1, <1>2, PTL DEF PackSpec, ImplementsProofAccounts
=============================================================================
