------------------------- MODULE MintCreationProofs -------------------------
(***************************************************************************)
(* What StablecoinProofs shows of one mint holds through its closing and   *)
(* its creation anew, for every constant: accounts, owners and calls in    *)
(* progress outlive the mint.  And every mint there ever is was planned by *)
(* the issuer, accepted by the token program and paid for exactly, and one *)
(* left without metadata stays without.                                    *)
(***************************************************************************)
EXTENDS MintCreation, StablecoinProofs, SequenceTheorems

\* A step is one of Stablecoin, or changes nothing of it but the mint, which
\* stays or is replaced by a new one.
LEMMA LaunchStep ==
  ASSUME [LaunchNext]_launchVars
  PROVE  \/ [Next]_vars
         \/ /\ mint' \in {mint, NewMint(epoch)}
            /\ UNCHANGED <<epoch, status, owner, amount, withheld, call, gated,
                           cleared, uncollected>>
<1>1. ASSUME NEW accounts, Becomes(accounts)
      PROVE  /\ mint' \in {mint, NewMint(epoch)}
             /\ UNCHANGED <<epoch, status, owner, amount, withheld, call,
                            gated, cleared, uncollected>>
  BY <1>1 DEF Becomes, MintFollows
<1>2. CASE UNCHANGED launchVars
  BY <1>2 DEF launchVars
<1>3. ASSUME NEW design \in Designs, CreateMint(design)
      PROVE  \E accounts : Becomes(accounts)
  BY <1>3 DEF CreateMint, Lands
<1>4. CASE SendLands
  BY <1>1, <1>4 DEF SendLands, Lands
<1>5. CASE SendFails
  BY <1>5 DEF SendFails
<1>6. ASSUME NEW i \in StrangersInits, StrangerInitializes(i)
      PROVE  \E accounts : Becomes(accounts)
  BY <1>6 DEF StrangerInitializes
<1>7. CASE Use
  BY <1>7 DEF Use
<1> QED
  BY <1>1, <1>2, <1>3, <1>4, <1>5, <1>6, <1>7 DEF LaunchNext

LEMMA LaunchTypeStep ==
  ASSUME TypeOK, [LaunchNext]_launchVars
  PROVE  TypeOK'
<1>1. CASE [Next]_vars
  BY <1>1, NextTypeOK
<1>2. CASE /\ mint' \in {mint, NewMint(epoch)}
           /\ UNCHANGED <<epoch, status, owner, amount, withheld, call, gated,
                          cleared, uncollected>>
  <2>1. mint' \in Mint
    BY <1>2, NewMintType DEF TypeOK
  <2> QED
    BY <1>2, <2>1 DEF TypeOK
<1> QED
  BY <1>1, <1>2, LaunchStep

LEMMA LaunchInitTypeOK == LaunchInit => TypeOK
<1> SUFFICES ASSUME LaunchInit PROVE TypeOK
  OBVIOUS
<1>1. mint \in Mint
  <2>1. NewMint(0) \in Mint
    BY NewMintType
  <2> QED
    BY <2>1 DEF LaunchInit, Mint
<1> QED
  BY <1>1, NothingYetTypeOK DEF LaunchInit

\* Balances stay numbers and calls in progress stay well formed when the mint
\* they are about is closed and another one takes its place (create_mint,
\* close_mint).
THEOREM LaunchTypeCorrect == LaunchSpec => []TypeOK
<1>1. LaunchInit => TypeOK
  BY LaunchInitTypeOK
<1>2. TypeOK /\ [LaunchNext]_launchVars => TypeOK'
  BY LaunchTypeStep
<1> QED
  BY <1>1, <1>2, PTL DEF LaunchSpec

LEMMA LaunchKycStep ==
  ASSUME OneApprover, TypeOK, KycInv, [LaunchNext]_launchVars
  PROVE  KycInv'
<1>1. CASE [Next]_vars
  BY <1>1, KycInvInductive
<1>2. CASE UNCHANGED <<epoch, status, owner, amount, withheld, call, gated,
                       cleared, uncollected>>
  BY <1>2 DEF KycInv, ClearedHolders
<1> QED
  BY <1>1, <1>2, LaunchStep

\* Accounts outlive their mint: one that is thawed when the mint is closed is
\* thawed when another mint is created at its address.  Its owner is still one
\* whose KYC stands (approve_kyc, create_mint).
THEOREM HoldersOutliveTheMint ==
  ASSUME OneApprover PROVE LaunchSpec => []ClearedHolders
<1>1. LaunchInit => TypeOK /\ KycInv
  <2>1. LaunchInit => KycInv
    BY DEF LaunchInit, NothingYet, KycInv, ClearedHolders, NoCall, KycCall
  <2> QED
    BY <2>1, LaunchInitTypeOK
<1>2. TypeOK /\ KycInv /\ [LaunchNext]_launchVars => (TypeOK /\ KycInv)'
  BY LaunchTypeStep, LaunchKycStep
<1>3. KycInv => ClearedHolders
  BY DEF KycInv
<1> QED
  BY <1>1, <1>2, <1>3, PTL DEF LaunchSpec
-----------------------------------------------------------------------------
(* What a transaction leaves.  The execution is a recursion along the       *)
(* instructions; it is whatever function satisfies the recursion, so naming *)
(* the account after each instruction is enough.                            *)

\* `run` gives the accounts after each number of instructions.
Runs(run, a, transaction) ==
  run = [n \in 0..Len(transaction) |->
           IF n = 0 THEN {a} ELSE Execute(run[n - 1], transaction[n])]

LEMMA LandedByRun ==
  ASSUME NEW a, NEW t, Len(t) \in Nat, NEW w, Runs(w, a, t)
  PROVE  Landed(a, t) = {b \in w[Len(t)] : RentExempt(b)}
<1> DEFINE m == Len(t)
           run == CHOOSE f : Runs(f, a, t)
           Good == {n \in 0..m : run[n] = w[n]}
<1>1. Landed(a, t) = {b \in run[m] : RentExempt(b)}
  BY DEF Landed, Runs
<1>2. Runs(run, a, t)
  OBVIOUS
<1> HIDE DEF run
<1>3. 0 \in Good
  BY <1>2 DEF Runs
<1>4. ASSUME NEW n \in 1..m, n - 1 \in Good
      PROVE  n \in Good
  <2>0. n \in 0..m /\ n # 0
    OBVIOUS
  <2>1. run[n] = Execute(run[n - 1], t[n])
    BY <1>2, <2>0, Zenon DEF Runs
  <2>2. w[n] = Execute(w[n - 1], t[n])
    BY <2>0, Zenon DEF Runs
  <2> QED
    BY <1>4, <2>0, <2>1, <2>2
<1> HIDE DEF Good
<1>5. 0..m \subseteq Good
  BY <1>3, <1>4, CountInduction
<1>6. run[m] = w[m]
  BY <1>5 DEF Good
<1> QED
  BY <1>1, <1>6

\* Every instruction is accepted: the transaction leaves the last account.
LEMMA LandedAccepted ==
  ASSUME NEW t, Len(t) \in Nat, NEW s,
         \A n \in 1..Len(t) : /\ Accepts(s[n - 1], t[n])
                              /\ s[n] = After(s[n - 1], t[n]),
         RentExempt(s[Len(t)])
  PROVE  Landed(s[0], t) = {s[Len(t)]}
<1> DEFINE w == [n \in 0..Len(t) |-> {s[n]}]
<1>1. ASSUME NEW n \in 1..Len(t)
      PROVE  Execute(w[n - 1], t[n]) = {s[n]}
  <2>1. w[n - 1] = {s[n - 1]}
    OBVIOUS
  <2> QED
    BY <2>1 DEF Execute
<1>2. Runs(w, s[0], t)
  <2>1. ASSUME NEW n \in 0..Len(t)
        PROVE  {s[n]} = IF n = 0 THEN {s[0]} ELSE Execute(w[n - 1], t[n])
    <3>1. n = 0 \/ n \in 1..Len(t)
      OBVIOUS
    <3> QED
      BY <1>1, <3>1, Zenon
  <2> QED
    BY <2>1, Zenon DEF Runs
<1>3. w[Len(t)] = {s[Len(t)]}
  OBVIOUS
<1> HIDE DEF w
<1> QED
  BY <1>2, <1>3, LandedByRun

\* The first instruction is not: the transaction is rejected.
LEMMA LandedRejected ==
  ASSUME NEW a, NEW t, Len(t) \in Nat \ {0}, ~Accepts(a, t[1])
  PROVE  Landed(a, t) = {}
<1> DEFINE w == [n \in 0..Len(t) |-> IF n = 0 THEN {a} ELSE {}]
<1>1. ASSUME NEW n \in 1..Len(t)
      PROVE  Execute(w[n - 1], t[n]) = {}
  <2>1. w[n - 1] = IF n = 1 THEN {a} ELSE {}
    OBVIOUS
  <2> QED
    BY <2>1 DEF Execute
<1>2. Runs(w, a, t)
  <2>1. ASSUME NEW n \in 0..Len(t)
        PROVE  (IF n = 0 THEN {a} ELSE {})
                 = IF n = 0 THEN {a} ELSE Execute(w[n - 1], t[n])
    <3>1. n = 0 \/ n \in 1..Len(t)
      OBVIOUS
    <3> QED
      BY <1>1, <3>1, Zenon
  <2> QED
    BY <2>1, Zenon DEF Runs
<1>3. w[Len(t)] = {}
  OBVIOUS
<1> HIDE DEF w
<1> QED
  BY <1>2, <1>3, LandedByRun

-----------------------------------------------------------------------------
(* The two transactions of a plan.                                         *)

\* InitializeExtension for the issuer, of any extension.
ExtensionNames ==
  {"TransferFeeConfig", "MetadataPointer", "DefaultAccountState",
   "MintCloseAuthority", "PermanentDelegate", "ConfidentialTransferMint",
   "ConfidentialTransferFeeConfig"}
IssuersInit ==
  [do : {"initialize extension"}, extension : ExtensionNames,
   authority : {Issuer}]

LEMMA SequenceOf ==
  ASSUME NEW S, NEW n \in Nat, NEW f \in [1..n -> S]
  PROVE  f \in Seq(S) /\ Len(f) = n /\ DOMAIN f = 1..n
BY SeqDef

LEMMA InitsOf ==
  ASSUME NEW E \in Seq(ExtensionNames), NEW inits,
         inits = [i \in DOMAIN E |-> InitializeExtension(E[i], Issuer)]
  PROVE  /\ inits \in Seq(IssuersInit) /\ Len(inits) = Len(E)
         /\ \A i \in 1..Len(E) : inits[i].extension = E[i]
<1>1. Len(E) \in Nat /\ DOMAIN E = 1..Len(E) /\ E \in [1..Len(E) -> ExtensionNames]
  BY LenProperties
<1>2. \A i \in 1..Len(E) : InitializeExtension(E[i], Issuer) \in IssuersInit
  BY <1>1 DEF InitializeExtension, IssuersInit
<1>3. inits \in [1..Len(E) -> IssuersInit]
  BY <1>1, <1>2
<1>4. \A i \in 1..Len(E) : inits[i] = InitializeExtension(E[i], Issuer)
  BY <1>1
<1> QED
  BY <1>1, <1>3, <1>4, SequenceOf DEF InitializeExtension

\* "Ordering": no extension twice, and those that go together are together.
LEMMA ExtensionInitsFacts ==
  ASSUME NEW version \in {"v1", "v2"}, NEW inits,
         inits = ExtensionInits(version)
  PROVE  /\ inits \in Seq(IssuersInit)
         /\ Len(inits) \in Nat
         /\ \A i, j \in 1..Len(inits) :
              inits[i].extension = inits[j].extension => i = j
         /\ \A a : a.extensions = inits => Compatible(a, TRUE)
<1> DEFINE V1 == V1Extensions
           V2 == V2AddedExtensions
<1>1. /\ V1[1] = "TransferFeeConfig" /\ V1[2] = "MetadataPointer"
      /\ V1[3] = "DefaultAccountState" /\ V1[4] = "MintCloseAuthority"
  BY DEF V1Extensions
<1>2. /\ V2[1] = "PermanentDelegate" /\ V2[2] = "ConfidentialTransferMint"
      /\ V2[3] = "ConfidentialTransferFeeConfig"
  BY DEF V2AddedExtensions
<1>3. /\ V1 \in Seq(ExtensionNames) /\ Len(V1) = 4
      /\ V2 \in Seq(ExtensionNames) /\ Len(V2) = 3
  BY DEF V1Extensions, V2AddedExtensions, ExtensionNames
<1>4. CASE version = "v1"
  <2>1. inits = [i \in DOMAIN V1 |-> InitializeExtension(V1[i], Issuer)]
    BY <1>4 DEF ExtensionInits
  <2> HIDE DEF V1
  <2>2. /\ inits \in Seq(IssuersInit) /\ Len(inits) = 4
        /\ \A i \in 1..4 : inits[i].extension = V1[i]
    BY <1>3, <2>1, InitsOf
  <2>3. \A i, j \in 1..4 : V1[i] = V1[j] => i = j
    BY <1>1
  <2>4. \A i \in 1..4 : V1[i] # "ConfidentialTransferMint"
    BY <1>1
  <2>5. \A a : a.extensions = inits => ~Has(a, "ConfidentialTransferMint")
    BY <2>2, <2>4, LenProperties DEF Has
  <2> QED
    BY <2>2, <2>3, <2>5 DEF Compatible
<1>5. CASE version = "v2"
  <2> DEFINE E == V1 \o V2
  <2>1. /\ Len(E) = 7 /\ E \in Seq(ExtensionNames)
        /\ \A i \in 1..7 : E[i] = IF i <= 4 THEN V1[i] ELSE V2[i - 4]
    <3> HIDE DEF V1, V2
    <3>1. /\ E \in Seq(ExtensionNames) /\ Len(E) = Len(V1) + Len(V2)
          /\ \A i \in 1..(Len(V1) + Len(V2)) :
               E[i] = IF i <= Len(V1) THEN V1[i] ELSE V2[i - Len(V1)]
      BY <1>3, ConcatProperties
    <3> HIDE DEF E
    <3> QED
      BY <1>3, <3>1
  <2>2. inits = [i \in DOMAIN E |-> InitializeExtension(E[i], Issuer)]
    BY <1>5 DEF ExtensionInits
  <2> HIDE DEF E, V1, V2
  <2>3. /\ inits \in Seq(IssuersInit) /\ Len(inits) = 7
        /\ \A i \in 1..7 : inits[i].extension = E[i]
    BY <2>1, <2>2, InitsOf
  <2>4. /\ E[1] = "TransferFeeConfig" /\ E[2] = "MetadataPointer"
        /\ E[3] = "DefaultAccountState" /\ E[4] = "MintCloseAuthority"
        /\ E[5] = "PermanentDelegate" /\ E[6] = "ConfidentialTransferMint"
        /\ E[7] = "ConfidentialTransferFeeConfig"
    BY <1>1, <1>2, <2>1
  <2>5. \A i, j \in 1..7 : E[i] = E[j] => i = j
    BY <2>4
  <2>6. \A a : a.extensions = inits => Has(a, "ConfidentialTransferFeeConfig")
    BY <2>3, <2>4, LenProperties DEF Has
  <2> QED
    BY <2>3, <2>5, <2>6 DEF Compatible
<1> QED
  BY <1>4, <1>5

LEMMA Bracketed ==
  ASSUME NEW S, NEW s \in Seq(S), NEW x, NEW y, NEW t, t = <<x>> \o s \o <<y>>
  PROVE  /\ Len(t) = Len(s) + 2 /\ Len(s) \in Nat
         /\ t[1] = x /\ t[Len(s) + 2] = y
         /\ \A i \in 2..(Len(s) + 1) : t[i] = s[i - 1]
<1> DEFINE R == S \cup {x, y}
           u == <<x>> \o s
<1>1. s \in Seq(R) /\ <<x>> \in Seq(R) /\ <<y>> \in Seq(R)
  BY SeqMonotonic
<1>2. /\ u \in Seq(R) /\ Len(u) = Len(s) + 1 /\ Len(s) \in Nat
      /\ u[1] = x /\ \A i \in 2..(Len(s) + 1) : u[i] = s[i - 1]
  BY <1>1, ConcatProperties, LenProperties
<1> HIDE DEF u, R
<1> QED
  BY <1>1, <1>2, ConcatProperties DEF u

FirstTransaction(design) ==
  LET inits == ExtensionInits(design[1])
  IN  <<CreateAccount(Len(inits), Len(inits) + MetadataTlvLen(design[2]))>>
        \o inits \o <<InitializeMint2(Issuer, TRUE)>>

MetadataTransaction(design) ==
  <<InitializeMetadata>>
    \o [i \in DOMAIN design[2] |-> UpdateField(design[2][i])]

LEMMA PlanOfTwo ==
  ASSUME NEW design
  PROVE  /\ Plan(design) # <<>>
         /\ Head(Plan(design)) = FirstTransaction(design)
         /\ Tail(Plan(design)) = <<MetadataTransaction(design)>>
<1> DEFINE first == FirstTransaction(design)
           second == MetadataTransaction(design)
<1>1. Plan(design) = <<first, second>>
  BY DEF Plan, PlanFromInits, FirstTransaction, MetadataTransaction
<1> HIDE DEF first, second
<1>2. Tail(<<first, second>>) = <<second>> /\ Head(<<first, second>>) = first
  OBVIOUS
<1> QED
  BY <1>1, <1>2 DEF first, second

\* The account create_mint's first transaction makes.
Created(design) ==
  LET inits == ExtensionInits(design[1])
  IN  [exists |-> TRUE, space |-> Len(inits),
       lamports |-> Len(inits) + MetadataTlvLen(design[2]),
       extensions |-> inits, mint |-> Issuer, freeze |-> TRUE, metadata |-> 0,
       keys |-> {}]

\* The account the second leaves.
Finished(design) ==
  [Created(design) EXCEPT !.metadata = 2, !.keys = Range(design[2])]

LEMMA DesignParts ==
  ASSUME NEW design \in Designs
  PROVE  /\ design[1] \in {"v1", "v2"} /\ design[2] \in Seq(Keys)
         /\ Len(design[2]) \in Nat /\ DOMAIN design[2] = 1..Len(design[2])
<1>1. design[1] \in {"v1", "v2"} /\ design[2] \in Seq(Keys)
  BY DesignsAssumption
<1> QED
  BY <1>1, LenProperties

\* The keys among the first k pairs: at most k, as a key may come again.
KeysUpTo(design, k) == {design[2][i] : i \in 1..k}

LEMMA KeysGrow ==
  ASSUME NEW design \in Designs
  PROVE  /\ KeysUpTo(design, 0) = {}
         /\ \A k \in 1..Len(design[2]) :
              KeysUpTo(design, k) = KeysUpTo(design, k - 1) \cup {design[2][k]}
         /\ KeysUpTo(design, Len(design[2])) = Range(design[2])
<1>1. Len(design[2]) \in Nat /\ DOMAIN design[2] = 1..Len(design[2])
  BY DesignParts
<1>2. KeysUpTo(design, 0) = {}
  BY DEF KeysUpTo
<1>3. ASSUME NEW k \in 1..Len(design[2])
      PROVE  KeysUpTo(design, k) = KeysUpTo(design, k - 1) \cup {design[2][k]}
  <2>1. \A i : i \in 1..k <=> i \in 1..(k - 1) \/ i = k
    BY <1>1, <1>3
  <2> QED
    BY <2>1 DEF KeysUpTo
<1>4. KeysUpTo(design, Len(design[2])) = Range(design[2])
  BY <1>1 DEF KeysUpTo, Range
<1> QED
  BY <1>2, <1>3, <1>4

LEMMA KeysCounted ==
  ASSUME NEW design \in Designs
  PROVE  /\ IsFiniteSet(Range(design[2]))
         /\ Cardinality(Range(design[2])) \in 0..Len(design[2])
<1> DEFINE n == Len(design[2])
           K(k) == KeysUpTo(design, k)
           Good == {k \in 0..n : IsFiniteSet(K(k)) /\ Cardinality(K(k)) \in 0..k}
<1>1. n \in Nat
  BY DesignParts
<1>2. /\ K(0) = {} /\ K(n) = Range(design[2])
      /\ \A k \in 1..n : K(k) = K(k - 1) \cup {design[2][k]}
  BY KeysGrow
<1> HIDE DEF n, K
<1>3. 0 \in Good
  BY <1>1, <1>2, FS_EmptySet
<1>4. ASSUME NEW k \in 1..n, k - 1 \in Good
      PROVE  k \in Good
  <2>1. /\ IsFiniteSet(K(k - 1)) /\ Cardinality(K(k - 1)) \in 0..(k - 1)
        /\ K(k) = K(k - 1) \cup {design[2][k]}
    BY <1>2, <1>4
  <2>2. /\ IsFiniteSet(K(k))
        /\ \/ Cardinality(K(k)) = Cardinality(K(k - 1))
           \/ Cardinality(K(k)) = Cardinality(K(k - 1)) + 1
    BY <2>1, FS_AddElement
  <2>3. Cardinality(K(k)) \in 0..k /\ k \in 0..n
    BY <1>1, <1>4, <2>1, <2>2
  <2> QED
    BY <2>2, <2>3
<1> HIDE DEF Good
<1>5. n \in Good
  <2>1. 0..n \subseteq Good
    BY <1>1, <1>3, <1>4, CountInduction
  <2> QED
    BY <1>1, <2>1
<1> QED
  BY <1>2, <1>5 DEF Good, n

LEMMA PrefixGrows ==
  ASSUME NEW S, NEW s \in Seq(S), NEW k \in 1..Len(s)
  PROVE  Append(SubSeq(s, 1, k - 1), s[k]) = SubSeq(s, 1, k)
<1>1. /\ Len(s) \in Nat /\ k \in 1..k /\ 1 \in 1..Len(s) /\ k \in 1..Len(s)
      /\ \A i \in 1..Len(s) : s[i] \in S
  BY LenProperties, ElementOfSeq
<1>2. SubSeq(s, 1, k) = SubSeq(s, 1, k - 1) \o <<s[k]>>
  BY <1>1, SubSeqRecursiveSecond
<1>3. SubSeq(s, 1, k - 1) \in Seq(S) /\ s[k] \in S
  BY <1>1, SubSeqProperties
<1> QED
  BY <1>2, <1>3, AppendIsConcat

\* Both accounts, field by field; and what is paid for them against their size.
LEMMA DesignFields ==
  ASSUME NEW design \in Designs, NEW a \in {Created(design), Finished(design)}
  PROVE  /\ a.exists /\ a.freeze /\ a.mint = Issuer
         /\ a.extensions = ExtensionInits(design[1])
         /\ a = Created(design) => a.metadata = 0 /\ a.keys = {}
         /\ a = Finished(design) => a.metadata = 2 /\ a.keys = Range(design[2])
         /\ RentExempt(a)
         /\ a = Finished(design) =>
              a.lamports - Size(a) = Len(design[2]) - Cardinality(a.keys)
<1> DEFINE inits == ExtensionInits(design[1])
           L == Len(inits)
           n == Len(design[2])
           keys == Range(design[2])
           K == Cardinality(keys)
           rent == L + MetadataTlvLen(design[2])
           yes == TRUE
           c == Created(design)
           f == Finished(design)
           With(m, k) == [exists |-> yes, space |-> L, lamports |-> rent,
                          extensions |-> inits, mint |-> Issuer,
                          freeze |-> yes, metadata |-> m, keys |-> k]
<1>1. L \in Nat /\ n \in Nat /\ K \in 0..n /\ Cardinality({}) = 0
  BY DesignParts, ExtensionInitsFacts, KeysCounted, FS_EmptySet
<1>2. rent = L + (1 + 1 + n)
  BY DEF MetadataTlvLen
<1>3. c = With(0, {})
  BY DEF Created
<1>4. f = [c EXCEPT !.metadata = 2, !.keys = keys]
  BY DEF Finished
<1>5. yes
  OBVIOUS
<1> HIDE DEF inits, L, n, keys, K, rent, yes, c, f
<1>6. f = With(2, keys)
  BY ONLY <1>3, <1>4
<1>7. ASSUME NEW m, NEW k
      PROVE  /\ With(m, k).exists = yes /\ With(m, k).freeze = yes
             /\ With(m, k).mint = Issuer /\ With(m, k).extensions = inits
             /\ With(m, k).metadata = m /\ With(m, k).keys = k
             /\ With(m, k).lamports = rent
             /\ Size(With(m, k)) = L + m + Cardinality(k)
  BY DEF Size
<1> HIDE DEF With
<1>8. c.metadata = 0 /\ f.metadata = 2
  BY <1>3, <1>6, <1>7
<1>9. /\ c.keys = {} /\ f.keys = keys
      /\ c.lamports = rent /\ f.lamports = rent
      /\ Size(c) = L + 0 + Cardinality({}) /\ Size(f) = L + 2 + K
  BY <1>3, <1>6, <1>7 DEF K
<1>10. /\ rent >= Size(c) /\ rent >= Size(f) /\ rent - Size(f) = n - K
  BY <1>1, <1>2, <1>9
<1>11. RentExempt(c) /\ RentExempt(f)
  BY <1>9, <1>10 DEF RentExempt
<1>12. a = c \/ a = f
  BY DEF c, f
<1>13. /\ a.exists = yes /\ a.freeze = yes /\ a.mint = Issuer
       /\ a.extensions = inits
  BY <1>3, <1>6, <1>7, <1>12
<1>14. a = f => a.lamports - Size(a) = n - Cardinality(a.keys)
  BY <1>9, <1>10 DEF K
<1> QED
  BY <1>5, <1>8, <1>9, <1>11, <1>12, <1>13, <1>14
  DEF c, f, inits, n, keys

\* plan_from_inits, on a free address: every instruction of the first
\* transaction is accepted, and leaves the account of the design.
LEMMA CreationLands ==
  ASSUME NEW design \in Designs
  PROVE  Landed(NoAccount, FirstTransaction(design)) = {Created(design)}
<1> DEFINE inits == ExtensionInits(design[1])
           L == Len(inits)
           R == L + MetadataTlvLen(design[2])
           t == FirstTransaction(design)
           c == Created(design)
           Prefix(k) == SubSeq(inits, 1, k)
           Mid(k) == [exists |-> TRUE, space |-> L, lamports |-> R,
                      extensions |-> Prefix(k), mint |-> "none",
                      freeze |-> FALSE, metadata |-> 0, keys |-> {}]
           s == [n \in 0..(L + 2) |->
                   IF n = 0 THEN NoAccount
                   ELSE IF n = L + 2 THEN c ELSE Mid(n - 1)]
<1>1. /\ inits \in Seq(IssuersInit) /\ L \in Nat
      /\ \A i, j \in 1..L : inits[i].extension = inits[j].extension => i = j
      /\ \A a : a.extensions = inits => Compatible(a, TRUE)
  BY DesignParts, ExtensionInitsFacts
<1>2. /\ Len(t) = L + 2
      /\ t[1] = CreateAccount(L, R) /\ t[L + 2] = InitializeMint2(Issuer, TRUE)
      /\ \A i \in 2..(L + 1) : t[i] = inits[i - 1]
  <2> DEFINE x == CreateAccount(L, R)
             y == InitializeMint2(Issuer, TRUE)
  <2>1. t = <<x>> \o inits \o <<y>>
    BY DEF FirstTransaction
  <2> HIDE DEF t, x, y, inits, s
  <2>2. /\ Len(t) = Len(inits) + 2 /\ t[1] = x /\ t[Len(inits) + 2] = y
        /\ \A i \in 2..(Len(inits) + 1) : t[i] = inits[i - 1]
    BY <1>1, <2>1, Bracketed
  <2> QED
    BY <2>2 DEF x, y
<1>3. c = [exists |-> TRUE, space |-> L, lamports |-> R,
           extensions |-> inits, mint |-> Issuer, freeze |-> TRUE,
           metadata |-> 0, keys |-> {}]
  BY DEF Created
<1>4. RentExempt(c)
  BY DesignFields
<1> HIDE DEF inits, L, R, t, c
<1>5. /\ Prefix(0) = <<>>
      /\ Prefix(L) = inits
      /\ \A k \in 0..L : /\ Len(Prefix(k)) = k
                         /\ Prefix(k) \in Seq(IssuersInit)
                         /\ \A i \in 1..k : Prefix(k)[i] = inits[i]
  <2>1. \A i \in 1..L : inits[i] \in IssuersInit
    BY <1>1, ElementOfSeq DEF L
  <2>2. ASSUME NEW k \in 0..L
        PROVE  /\ Len(Prefix(k)) = k
               /\ Prefix(k) \in Seq(IssuersInit)
               /\ \A i \in 1..k : Prefix(k)[i] = inits[i]
    <3>1. \A i \in 1..k : inits[i] \in IssuersInit
      BY <1>1, <2>1
    <3> QED
      BY <1>1, <3>1, SubSeqProperties
  <2> QED
    BY <1>1, <2>2, SubSeqEmpty, SubSeqFull DEF L
<1> HIDE DEF Prefix
<1>6. /\ Accepts(NoAccount, CreateAccount(L, R))
      /\ Mid(0) = After(NoAccount, CreateAccount(L, R))
  BY <1>5 DEF Accepts, After, NoAccount, CreateAccount
<1>7. ASSUME NEW k \in 1..L
      PROVE  /\ Accepts(Mid(k - 1), inits[k])
             /\ Mid(k) = After(Mid(k - 1), inits[k])
  <2>1. inits[k] \in IssuersInit
    BY <1>1, ElementOfSeq DEF L
  <2>2. /\ Len(Prefix(k - 1)) = k - 1
        /\ DOMAIN Prefix(k - 1) = 1..(k - 1)
        /\ \A i \in 1..(k - 1) : Prefix(k - 1)[i] = inits[i]
    <3> HIDE DEF Mid, s
    <3>1. k - 1 \in 0..L
      BY <1>1
    <3>2. /\ Len(Prefix(k - 1)) = k - 1 /\ Prefix(k - 1) \in Seq(IssuersInit)
          /\ \A i \in 1..(k - 1) : Prefix(k - 1)[i] = inits[i]
      BY <1>5, <3>1
    <3>3. DOMAIN Prefix(k - 1) = 1..Len(Prefix(k - 1))
      BY <3>2, LenProperties
    <3> QED
      BY <3>2, <3>3
  <2>3. ~Has(Mid(k - 1), inits[k].extension)
    BY <1>1, <2>2 DEF Has
  <2>4. Append(Prefix(k - 1), inits[k]) = Prefix(k)
    BY <1>1, PrefixGrows DEF L, Prefix
  <2>5. inits[k].do = "initialize extension"
    BY <2>1 DEF IssuersInit
  <2> DEFINE b == Mid(k - 1)
             P == Prefix(k - 1)
             Q == Prefix(k)
             x == inits[k]
  <2>6. /\ b.exists /\ b.mint = "none" /\ b.space = L /\ b.extensions = P
        /\ Mid(k) = [b EXCEPT !.extensions = Q]
    <3>1. /\ b = [exists |-> TRUE, space |-> L, lamports |-> R,
                  extensions |-> P, mint |-> "none", freeze |-> FALSE,
                  metadata |-> 0, keys |-> {}]
          /\ Mid(k) = [exists |-> TRUE, space |-> L, lamports |-> R,
                       extensions |-> Q, mint |-> "none", freeze |-> FALSE,
                       metadata |-> 0, keys |-> {}]
      OBVIOUS
    <3>2. b.exists /\ b.mint = "none" /\ b.space = L /\ b.extensions = P
      OBVIOUS
    <3> DEFINE yes == TRUE
               no == FALSE
               m == Mid(k)
    <3>3. /\ b = [exists |-> yes, space |-> L, lamports |-> R,
                  extensions |-> P, mint |-> "none", freeze |-> no,
                  metadata |-> 0, keys |-> {}]
          /\ m = [exists |-> yes, space |-> L, lamports |-> R,
                  extensions |-> Q, mint |-> "none", freeze |-> no,
                  metadata |-> 0, keys |-> {}]
      BY <3>1
    <3> HIDE DEF Mid, s, b, P, Q, x, m, yes, no
    <3>4. m = [b EXCEPT !.extensions = Q]
      BY ONLY <3>3
    <3> QED
      BY <3>2, <3>4 DEF m
  <2>7. /\ ~Has(b, x.extension)
        /\ x.do = "initialize extension"
        /\ Append(P, x) = Q
    BY <2>3, <2>4, <2>5, Zenon
  <2>8. Len(P) < L
    <3> HIDE DEF Mid, s, b, Q, x
    <3> QED
      BY <1>1, <2>2
  <2> HIDE DEF Mid, s, b, P, Q, x
  <2>9. Accepts(b, x)
    BY <2>6, <2>7, <2>8 DEF Accepts
  <2>10. After(b, x) = [b EXCEPT !.extensions = Q]
    BY <2>6, <2>7 DEF After
  <2> QED
    BY <2>6, <2>9, <2>10 DEF b, x
<1>8. /\ Accepts(Mid(L), InitializeMint2(Issuer, TRUE))
      /\ c = After(Mid(L), InitializeMint2(Issuer, TRUE))
  <2>1. /\ Mid(L).extensions = inits /\ Len(inits) = L
        /\ Compatible(Mid(L), TRUE)
    BY <1>1, <1>5 DEF L
  <2> QED
    BY <1>3, <1>5, <2>1 DEF Accepts, After, InitializeMint2
<1> HIDE DEF Mid
<1>9. /\ s[0] = NoAccount /\ s[L + 2] = c
       /\ \A k \in 0..L : s[k + 1] = Mid(k)
  BY <1>1
<1>10. ASSUME NEW n \in 1..Len(t)
       PROVE  Accepts(s[n - 1], t[n]) /\ s[n] = After(s[n - 1], t[n])
  <2>1. CASE n = 1
    BY <1>1, <1>2, <1>6, <1>9, <2>1
  <2>2. CASE n \in 2..(L + 1)
    <3>1. /\ s[(n - 2) + 1] = Mid(n - 2) /\ s[(n - 1) + 1] = Mid(n - 1)
          /\ n - 1 \in 1..L /\ t[n] = inits[n - 1]
      BY <1>1, <1>2, <1>9, <2>2
    <3> QED
      BY <1>7, <3>1
  <2>3. CASE n = L + 2
    <3>1. s[n - 1] = Mid(L)
      BY <1>1, <1>9, <2>3
    <3>2. t[n] = InitializeMint2(Issuer, TRUE) /\ s[n] = c
      BY <1>2, <1>9, <2>3
    <3> QED
      BY <1>8, <3>1, <3>2
  <2> QED
    BY <1>1, <1>2, <2>1, <2>2, <2>3
<1> HIDE DEF s
<1>11. Landed(s[0], t) = {s[Len(t)]}
  <2>1. Len(t) \in Nat /\ RentExempt(s[Len(t)])
    BY <1>1, <1>2, <1>4, <1>9
  <2> QED
    BY <1>10, <2>1, LandedAccepted
<1> QED
  BY <1>2, <1>9, <1>11 DEF t, c

\* On an address that is taken it is rejected.
LEMMA CreationNeedsFreeAddress ==
  ASSUME NEW design \in Designs, NEW a, a.exists
  PROVE  Landed(a, FirstTransaction(design)) = {}
<1> DEFINE inits == ExtensionInits(design[1])
           x == CreateAccount(Len(inits), Len(inits) + MetadataTlvLen(design[2]))
           t == FirstTransaction(design)
<1>1. inits \in Seq(IssuersInit) /\ t = <<x>> \o inits \o <<InitializeMint2(Issuer, TRUE)>>
  BY DesignParts, ExtensionInitsFacts DEF FirstTransaction
<1>2. ~Accepts(a, x)
  BY DEF Accepts, CreateAccount
<1> HIDE DEF inits, x, t
<1>3. Len(t) \in Nat \ {0} /\ t[1] = x
  BY <1>1, Bracketed
<1> QED
  BY <1>2, <1>3, LandedRejected DEF t

\* "Funded up front": the second transaction of a plan is accepted by the
\* account of the first, and leaves the metadata in it complete and paid for.
LEMMA MetadataLands ==
  ASSUME NEW design \in Designs
  PROVE  Landed(Created(design), MetadataTransaction(design))
           = {Finished(design)}
<1> DEFINE keys == design[2]
           fields == Len(keys)
           updates == [i \in DOMAIN keys |-> UpdateField(keys[i])]
           t == MetadataTransaction(design)
           c == Created(design)
           L == Len(ExtensionInits(design[1]))
           inits == ExtensionInits(design[1])
           yes == TRUE
           K(n) == KeysUpTo(design, n)
           f == Finished(design)
           With(m, k) == [exists |-> yes, space |-> L,
                          lamports |-> L + MetadataTlvLen(design[2]),
                          extensions |-> inits, mint |-> Issuer,
                          freeze |-> yes, metadata |-> m, keys |-> k]
           s == [n \in 0..(fields + 1) |->
                   IF n = 0 THEN c ELSE With(2, K(n - 1))]
<1>1. fields \in Nat /\ L \in Nat /\ DOMAIN keys = 1..fields
  BY DesignParts, ExtensionInitsFacts
<1>2. /\ Len(t) = fields + 1 /\ t[1] = InitializeMetadata
      /\ \A i \in 2..(fields + 1) : t[i] = UpdateField(keys[i - 1])
  <2> DEFINE S == {InitializeMetadata} \cup {UpdateField(keys[i]) : i \in 1..fields}
             one == <<InitializeMetadata>>
  <2>1. t = one \o updates /\ updates \in [1..fields -> S]
    BY <1>1 DEF MetadataTransaction
  <2>2. updates \in Seq(S) /\ Len(updates) = fields
    <3> HIDE DEF S, updates, fields
    <3> QED
      BY <1>1, <2>1, SequenceOf
  <2>3. one \in Seq(S) /\ Len(one) = 1 /\ one[1] = InitializeMetadata
    <3>1. InitializeMetadata \in S
      OBVIOUS
    <3> HIDE DEF S
    <3> QED
      BY <3>1
  <2>4. \A i \in 1..fields : updates[i] = UpdateField(keys[i])
    BY <1>1
  <2> HIDE DEF t, updates, S, one, fields, s
  <2>5. /\ Len(t) = Len(one) + Len(updates)
        /\ \A i \in 1..(Len(one) + Len(updates)) :
             t[i] = IF i <= Len(one) THEN one[i] ELSE updates[i - Len(one)]
    BY <2>1, <2>2, <2>3, ConcatProperties
  <2>6. Len(t) = fields + 1 /\ t[1] = InitializeMetadata
    BY <1>1, <2>2, <2>3, <2>5
  <2>7. ASSUME NEW i \in 2..(fields + 1)
        PROVE  t[i] = UpdateField(keys[i - 1])
    <3>1. t[i] = updates[i - 1] /\ i - 1 \in 1..fields
      BY <1>1, <2>2, <2>3, <2>5
    <3> QED
      BY <2>4, <3>1
  <2> QED
    BY <2>6, <2>7
<1>3. /\ K(0) = {} /\ K(fields) = Range(keys)
      /\ \A k \in 1..fields : K(k) = K(k - 1) \cup {keys[k]}
      /\ Cardinality(K(fields)) \in 0..fields
  BY KeysGrow, KeysCounted
<1>4. c = With(0, {}) /\ f = With(2, K(fields)) /\ RentExempt(f)
  <2>1. c = With(0, {})
    BY DEF Created
  <2>2. f = [c EXCEPT !.metadata = 2, !.keys = Range(keys)]
    BY DEF Finished
  <2>3. RentExempt(f)
    BY DesignFields
  <2> HIDE DEF yes, L, inits, c, f, s, K, keys, fields
  <2>4. f = With(2, Range(keys))
    BY ONLY <2>1, <2>2
  <2> QED
    BY <1>3, <2>1, <2>3, <2>4
<1> HIDE DEF yes, L, inits, c, f, t, fields, keys, K
<1>5. ASSUME NEW m, NEW k
      PROVE  /\ With(m, k).mint = Issuer /\ With(m, k).metadata = m
             /\ With(m, k).keys = k
             /\ \A n : [With(m, k) EXCEPT !.metadata = n] = With(n, k)
             /\ \A n : [With(m, k) EXCEPT !.keys = n] = With(m, n)
  OBVIOUS
<1> HIDE DEF With
<1>6. RentExempt(With(2, K(fields)))
  BY <1>4
<1>7. /\ Accepts(With(0, {}), InitializeMetadata)
      /\ After(With(0, {}), InitializeMetadata) = With(2, {})
  BY <1>5 DEF Accepts, After, InitializeMetadata
<1>8. ASSUME NEW n \in 1..fields
      PROVE  /\ Accepts(With(2, K(n - 1)), UpdateField(keys[n]))
             /\ After(With(2, K(n - 1)), UpdateField(keys[n]))
                  = With(2, K(n))
  <2> DEFINE x == UpdateField(keys[n])
             b == With(2, K(n - 1))
             key == keys[n]
  <2>1. x.do = "update field" /\ x.key = key
    BY DEF UpdateField
  <2>2. b.mint = Issuer /\ b.metadata = 2 /\ b.keys = K(n - 1)
    BY <1>5
  <2>3. [b EXCEPT !.keys = K(n - 1) \cup {key}] = With(2, K(n))
    BY <1>3, <1>5
  <2> HIDE DEF x, b, key
  <2>4. Accepts(b, x)
    <3>1. b.metadata > 0
      BY <2>2
    <3> QED
      BY ONLY <2>1, <2>2, <3>1 DEF Accepts
  <2>5. After(b, x) = [b EXCEPT !.keys = K(n - 1) \cup {key}]
    BY ONLY <2>1, <2>2 DEF After
  <2> QED
    BY <2>3, <2>4, <2>5 DEF x, b
<1>9. /\ s[0] = c /\ s[fields + 1] = With(2, K(fields))
      /\ \A n \in 1..(fields + 1) : s[n] = With(2, K(n - 1))
  BY <1>1
<1> HIDE DEF s
<1>10. ASSUME NEW n \in 1..Len(t)
       PROVE  Accepts(s[n - 1], t[n]) /\ s[n] = After(s[n - 1], t[n])
  <2>1. CASE n = 1
    <3>1. t[n] = InitializeMetadata
      BY <1>2, <2>1
    <3>2. s[n - 1] = With(0, {})
      BY <1>4, <1>9, <2>1
    <3>3. s[n] = With(2, K(0))
      <4>1. 1 \in 1..(fields + 1) /\ 1 - 1 = 0
        BY <1>1
      <4>2. s[1] = With(2, K(1 - 1))
        BY <1>9, <4>1
      <4> QED
        BY <2>1, <4>1, <4>2
    <3> QED
      BY <1>3, <1>7, <3>1, <3>2, <3>3
  <2>2. CASE n \in 2..(fields + 1)
    <3>1. /\ s[n - 1] = With(2, K((n - 1) - 1)) /\ s[n] = With(2, K(n - 1))
          /\ t[n] = UpdateField(keys[n - 1]) /\ n - 1 \in 1..fields
      BY <1>1, <1>2, <1>9, <2>2
    <3> QED
      BY <1>8, <3>1
  <2> QED
    BY <1>1, <1>2, <2>1, <2>2
<1>11. Landed(s[0], t) = {s[Len(t)]}
  <2>1. Len(t) \in Nat /\ RentExempt(s[Len(t)])
    BY <1>1, <1>2, <1>6, <1>9
  <2> QED
    BY <1>10, <2>1, LandedAccepted
<1> QED
  BY <1>2, <1>4, <1>9, <1>11 DEF t, c, f

\* Nobody writes the metadata of an account that is no mint, and nothing a
\* stranger may send is accepted at a free address or by the issuer's mint.
LEMMA MetadataNeedsMint ==
  ASSUME NEW design \in Designs
  PROVE  Landed(NoAccount, MetadataTransaction(design)) = {}
<1> DEFINE keys == design[2]
           updates == [i \in DOMAIN keys |-> UpdateField(keys[i])]
           S == {InitializeMetadata} \cup {UpdateField(keys[i]) : i \in DOMAIN keys}
           t == MetadataTransaction(design)
<1>1. Len(keys) \in Nat /\ updates \in [1..Len(keys) -> S]
  BY DesignParts
<1>2. InitializeMetadata \in S
  OBVIOUS
<1>3. updates \in Seq(S) /\ <<InitializeMetadata>> \in Seq(S)
  <2> HIDE DEF updates, S, keys
  <2> QED
    BY <1>1, <1>2, SequenceOf
<1>4. t = <<InitializeMetadata>> \o updates
  BY DEF MetadataTransaction
<1> HIDE DEF updates, S, t
<1>5. Len(t) \in Nat \ {0} /\ t[1] = InitializeMetadata
  BY <1>3, <1>4, ConcatProperties, LenProperties
<1>6. ~Accepts(NoAccount, InitializeMetadata)
  BY DEF Accepts, InitializeMetadata, NoAccount, Issuer
<1> QED
  BY <1>5, <1>6, LandedRejected DEF t

LEMMA StrangersRejected ==
  ASSUME NEW i \in StrangersInits, NEW a, a = NoAccount \/ a.mint = Issuer
  PROVE  Landed(a, <<i>>) = {}
<1>1. i.do = "initialize extension" \/ i.do = "initialize mint"
  <2> DEFINE names == Range(V1Extensions) \cup Range(V2AddedExtensions)
  <2>1. \/ i \in {InitializeExtension(extension, Stranger) : extension \in names}
        \/ i \in {InitializeMint2(Stranger, freeze) : freeze \in BOOLEAN}
    BY DEF StrangersInits
  <2> HIDE DEF names
  <2>2. \/ \E extension : i = InitializeExtension(extension, Stranger)
        \/ \E freeze : i = InitializeMint2(Stranger, freeze)
    BY <2>1
  <2>3. ASSUME NEW x PROVE /\ InitializeExtension(x, Stranger).do
                                = "initialize extension"
                           /\ InitializeMint2(Stranger, x).do = "initialize mint"
    BY DEF InitializeExtension, InitializeMint2
  <2> QED
    BY <2>2, <2>3
<1>2. ~Accepts(a, i)
  <2>1. a.mint # "none" \/ ~a.exists
    BY DEF NoAccount, Issuer
  <2> QED
    BY <1>1, <2>1 DEF Accepts
<1>3. Len(<<i>>) = 1 /\ <<i>>[1] = i
  OBVIOUS
<1> QED
  BY <1>2, <1>3, LandedRejected

-----------------------------------------------------------------------------
(* The invariant of creation: the account is the free address, or that of  *)
(* a design with none or all of its metadata; a creation under way has one *)
(* transaction to go, and its account is as the first left it or gone.     *)

AccountPlanned ==
  \/ account = NoAccount
  \/ \E design \in Designs : account \in {Created(design), Finished(design)}

CreationPlanned ==
  creating # <<>> =>
    \E design \in Designs : /\ creating = <<MetadataTransaction(design)>>
                            /\ account \in {NoAccount, Created(design)}

\* The rest of the system has a mint only while the account exists, and tokens
\* only while it has a mint.
MintAtAccount ==
  /\ account = NoAccount => ~mint.open
  /\ ~mint.open => mint.supply = 0

LaunchInv ==
  /\ AccountPlanned
  /\ CreationPlanned
  /\ MintAtAccount
  /\ SupplyConserved
  /\ RevenueAccounted

LEMMA DesignAccounts ==
  ASSUME NEW design \in Designs, NEW a \in {Created(design), Finished(design)}
  PROVE  /\ a # NoAccount /\ a.exists /\ a.mint = Issuer /\ a.freeze
         /\ a.extensions \in {ExtensionInits("v1"), ExtensionInits("v2")}
         /\ a = Created(design) => a.metadata = 0
         /\ a = Finished(design) => a.metadata = 2
<1>1. NoAccount.mint # Issuer
  BY DEF NoAccount, Issuer
<1> QED
  BY <1>1, DesignFields, DesignParts

\* What each step of the creation does to the account, and with it to the mint.
LEMMA CreateMintStep ==
  ASSUME LaunchInv, NEW design \in Designs, CreateMint(design)
  PROVE  /\ account = NoAccount /\ account' = Created(design)
         /\ creating' = <<MetadataTransaction(design)>>
         /\ mint' = NewMint(epoch)
         /\ UNCHANGED <<epoch, status, owner, amount, withheld, call, gated,
                        cleared, uncollected>>
<1>1. /\ Becomes(Landed(account, FirstTransaction(design)))
      /\ creating' = <<MetadataTransaction(design)>>
  BY PlanOfTwo DEF CreateMint, Lands
<1>2. ~account.exists
  BY <1>1, CreationNeedsFreeAddress DEF Becomes
<1>3. account = NoAccount
  BY <1>2, DesignAccounts DEF LaunchInv, AccountPlanned
<1>4. account' = Created(design)
  BY <1>1, <1>3, CreationLands DEF Becomes
<1>5. account'.mint = Issuer
  BY <1>4, DesignAccounts
<1>6. mint' = NewMint(epoch)
  BY <1>1, <1>3, <1>5 DEF Becomes, MintFollows, NoAccount, Issuer
<1> QED
  BY <1>1, <1>3, <1>4, <1>6 DEF Becomes

LEMMA SendLandsStep ==
  ASSUME LaunchInv, SendLands
  PROVE  /\ \E design \in Designs : /\ account = Created(design)
                                    /\ account' = Finished(design)
         /\ creating' = <<>>
         /\ UNCHANGED vars
<1>1. PICK design \in Designs :
        /\ creating = <<MetadataTransaction(design)>>
        /\ account \in {NoAccount, Created(design)}
  BY DEF SendLands, LaunchInv, CreationPlanned
<1>2. /\ Becomes(Landed(account, MetadataTransaction(design)))
      /\ creating' = <<>>
  <2> DEFINE x == MetadataTransaction(design)
  <2> HIDE DEF x
  <2>1. Head(<<x>>) = x /\ Tail(<<x>>) = <<>>
    OBVIOUS
  <2> QED
    BY <1>1, <2>1 DEF SendLands, Lands, x
<1>3. account = Created(design)
  BY <1>1, <1>2, MetadataNeedsMint DEF Becomes
<1>4. account' = Finished(design)
  BY <1>2, <1>3, MetadataLands DEF Becomes
<1>5. UNCHANGED mint
  BY <1>2, <1>3, DesignAccounts DEF Becomes, MintFollows, Issuer
<1> QED
  BY <1>2, <1>3, <1>4, <1>5 DEF Becomes, vars

LEMMA StrangerStep ==
  ASSUME LaunchInv, NEW i \in StrangersInits, StrangerInitializes(i)
  PROVE  UNCHANGED vars /\ UNCHANGED <<account, creating>>
<1>1. account = NoAccount \/ account.mint = Issuer
  BY DesignAccounts DEF LaunchInv, AccountPlanned
<1>2. Landed(account, <<i>>) = {}
  BY <1>1, StrangersRejected
<1> QED
  BY <1>2 DEF StrangerInitializes, Becomes, MintFollows, vars

LEMMA LaunchCases ==
  ASSUME LaunchInv, [LaunchNext]_launchVars
  PROVE  \/ Use
         \/ /\ UNCHANGED vars
            /\ AccountPlanned' /\ CreationPlanned'
            /\ account' = NoAccount => account = NoAccount
         \/ /\ account = NoAccount /\ account' # NoAccount
            /\ mint' = NewMint(epoch)
            /\ UNCHANGED <<epoch, status, owner, amount, withheld, call, gated,
                           cleared, uncollected>>
            /\ AccountPlanned' /\ CreationPlanned'
<1>1. CASE UNCHANGED launchVars
  BY <1>1 DEF launchVars, LaunchInv, AccountPlanned, CreationPlanned
<1>2. ASSUME NEW design \in Designs, CreateMint(design)
      PROVE  account' # NoAccount /\ AccountPlanned' /\ CreationPlanned'
  BY <1>2, CreateMintStep, DesignAccounts DEF AccountPlanned, CreationPlanned
<1>3. ASSUME SendLands
      PROVE  account' # NoAccount /\ AccountPlanned' /\ CreationPlanned'
  BY <1>3, SendLandsStep, DesignAccounts DEF AccountPlanned, CreationPlanned
<1>4. CASE SendFails
  BY <1>4 DEF SendFails, LaunchInv, AccountPlanned, CreationPlanned
<1>5. ASSUME UNCHANGED <<account, creating>>
      PROVE  AccountPlanned' /\ CreationPlanned'
  BY <1>5 DEF LaunchInv, AccountPlanned, CreationPlanned
<1> QED
  BY <1>1, <1>2, <1>3, <1>4, <1>5, CreateMintStep, SendLandsStep, StrangerStep
  DEF LaunchNext

\* A new mint replaces one without supply, and nothing is withheld of none.
LEMMA NewMintConserves ==
  ASSUME TypeOK, SupplyConserved, RevenueAccounted, mint.supply = 0,
         mint' = NewMint(epoch), UNCHANGED <<amount, withheld, uncollected>>
  PROVE  SupplyConserved' /\ RevenueAccounted'
<1>1. /\ SumFunction(amount) \in Nat /\ SumFunction(withheld) \in Nat
      /\ mint.withheld \in Nat
  BY HoldingsType DEF TypeOK, Mint
<1>2. SumFunction(amount) = 0 /\ SumFunction(withheld) = 0 /\ mint.withheld = 0
  BY <1>1 DEF SupplyConserved
<1>3. mint'.supply = 0 /\ mint'.withheld = 0
  BY DEF NewMint
<1> QED
  BY <1>2, <1>3 DEF SupplyConserved, RevenueAccounted

LEMMA LaunchInvNext ==
  ASSUME TypeOK, LaunchInv, [LaunchNext]_launchVars
  PROVE  LaunchInv'
<1>1. CASE Use
  <2>1. /\ [Next]_vars
        /\ account' = IF mint.open /\ ~mint'.open THEN NoAccount ELSE account
        /\ creating' = creating
    BY <1>1 DEF Use
  <2>2. SupplyConserved' /\ RevenueAccounted'
    BY <2>1, ConservationInductive DEF LaunchInv
  <2>3. MintAtAccount'
    BY <2>1, ClosedStep DEF LaunchInv, MintAtAccount
  <2>4. AccountPlanned' /\ CreationPlanned'
    BY <2>1 DEF LaunchInv, AccountPlanned, CreationPlanned
  <2> QED
    BY <2>2, <2>3, <2>4 DEF LaunchInv
<1>2. CASE /\ UNCHANGED vars
           /\ AccountPlanned' /\ CreationPlanned'
           /\ account' = NoAccount => account = NoAccount
  <2>1. MintAtAccount' /\ SupplyConserved' /\ RevenueAccounted'
    BY <1>2 DEF vars, LaunchInv, MintAtAccount, SupplyConserved,
                RevenueAccounted
  <2> QED
    BY <1>2, <2>1 DEF LaunchInv
<1>3. CASE /\ account = NoAccount /\ account' # NoAccount
           /\ mint' = NewMint(epoch)
           /\ UNCHANGED <<epoch, status, owner, amount, withheld, call, gated,
                          cleared, uncollected>>
           /\ AccountPlanned' /\ CreationPlanned'
  <2>1. mint.supply = 0
    BY <1>3 DEF LaunchInv, MintAtAccount
  <2>2. SupplyConserved' /\ RevenueAccounted'
    BY <1>3, <2>1, NewMintConserves DEF LaunchInv
  <2>3. MintAtAccount'
    BY <1>3 DEF MintAtAccount, NewMint
  <2> QED
    BY <1>3, <2>2, <2>3 DEF LaunchInv
<1> QED
  BY <1>1, <1>2, <1>3, LaunchCases

LEMMA LaunchInvInit == LaunchInit => LaunchInv
<1> SUFFICES ASSUME LaunchInit PROVE LaunchInv
  OBVIOUS
<1>1. mint.supply = 0 /\ mint.withheld = 0 /\ ~mint.open
  BY DEF LaunchInit, NewMint
<1>2. SupplyConserved /\ RevenueAccounted
  BY <1>1, NothingYetConserved DEF LaunchInit
<1> QED
  BY <1>1, <1>2
  DEF LaunchInit, LaunchInv, AccountPlanned, CreationPlanned, MintAtAccount

LEMMA LaunchInvariant == LaunchSpec => [](TypeOK /\ LaunchInv)
<1>1. LaunchInit => TypeOK /\ LaunchInv
  BY LaunchInitTypeOK, LaunchInvInit
<1>2. TypeOK /\ LaunchInv /\ [LaunchNext]_launchVars => (TypeOK /\ LaunchInv)'
  BY LaunchTypeStep, LaunchInvNext
<1> QED
  BY <1>1, <1>2, PTL DEF LaunchSpec

\* "Split across transactions, anyone could initialize the funded, empty
\* account with their own fee authority or freeze authority first": with the
\* plan of plan_from_inits nobody ever can, for any set of calls of create_v1
\* and create_v2 and any number of closings in between.
THEOREM MintsAreTheIssuers == LaunchSpec => []MintAsPlanned
<1>1. LaunchInv => MintAsPlanned
  BY DesignAccounts DEF LaunchInv, AccountPlanned, MintAsPlanned, NoAccount
<1> QED
  BY <1>1, LaunchInvariant, PTL

\* The token program accepts either transaction of a plan, whatever the number
\* of additional metadata fields, wherever the creation or another one stopped:
\* sizes, order and rent are right for every design (plan_from_inits,
\* metadata_tlv_len).
THEOREM PlansAreAccepted == LaunchSpec => []PlanAccepted
<1>1. LaunchInv => PlanAccepted
  <2> SUFFICES ASSUME LaunchInv PROVE PlanAccepted
    OBVIOUS
  <2>1. ASSUME ~account.exists, NEW design \in Designs
        PROVE  Landed(account, Head(Plan(design))) # {}
    <3>1. account = NoAccount
      BY <2>1, DesignAccounts DEF LaunchInv, AccountPlanned
    <3> QED
      BY <3>1, CreationLands, PlanOfTwo
  <2>2. ASSUME account.exists, creating # <<>>
        PROVE  Landed(account, Head(creating)) # {}
    <3>1. PICK design \in Designs :
            /\ creating = <<MetadataTransaction(design)>>
            /\ account \in {NoAccount, Created(design)}
      BY <2>2 DEF LaunchInv, CreationPlanned
    <3>2. account = Created(design)
      BY <2>2, <3>1 DEF NoAccount
    <3>3. Head(creating) = MetadataTransaction(design)
      <4> DEFINE x == MetadataTransaction(design)
      <4> HIDE DEF x
      <4> QED
        BY <3>1 DEF x
    <3> QED
      BY <3>2, <3>3, MetadataLands
  <2> QED
    BY <2>1, <2>2 DEF PlanAccepted
<1> QED
  BY <1>1, LaunchInvariant, PTL

\* "Funded up front for its final size": metadata is there whole and exactly
\* paid for, for every sequence of fields, except that every pair whose key was
\* given before is paid for once too often (MintPlan, metadata_tlv_len).
THEOREM FundingIsExact == LaunchSpec => []FundedExactly
<1>1. LaunchInv => FundedExactly
  <2> SUFFICES ASSUME LaunchInv, account.metadata # 0 PROVE FundedExactly
    BY DEF FundedExactly
  <2>1. account # NoAccount
    BY DEF NoAccount
  <2>2. PICK design \in Designs : account \in {Created(design), Finished(design)}
    BY <2>1 DEF LaunchInv, AccountPlanned
  <2>3. account = Finished(design)
    BY <2>2, DesignAccounts
  <2> QED
    BY <2>3, DesignFields DEF FundedExactly
<1> QED
  BY <1>1, LaunchInvariant, PTL

LEMMA AbandonedStep ==
  ASSUME LaunchInv, [LaunchNext]_launchVars
  PROVE  /\ ~Abandoned /\ Abandoned' => SendFails
         /\ Abandoned /\ account'.exists => Abandoned'
<1>1. CASE UNCHANGED <<account, creating>>
  BY <1>1 DEF Abandoned
<1>2. ASSUME NEW design \in Designs, CreateMint(design)
      PROVE  ~Abandoned /\ ~Abandoned'
  <2> DEFINE x == MetadataTransaction(design)
  <2>1. account.mint = "none" /\ creating' = <<x>>
    BY <1>2, CreateMintStep DEF NoAccount
  <2> HIDE DEF x
  <2>2. creating' # <<>>
    BY <2>1
  <2> QED
    BY <2>1, <2>2 DEF Abandoned
<1>3. ASSUME SendLands
      PROVE  ~Abandoned /\ ~Abandoned'
  <2>1. account'.metadata = 2
    BY <1>3, SendLandsStep, DesignAccounts
  <2> QED
    BY <1>3, <2>1 DEF Abandoned, SendLands
<1>4. ASSUME SendFails
      PROVE  ~Abandoned
  BY <1>4 DEF Abandoned, SendFails
<1>5. ASSUME Use, account' # account
      PROVE  ~account'.exists /\ ~Abandoned'
  <2>1. account' = NoAccount
    BY <1>5 DEF Use
  <2> QED
    BY <2>1 DEF NoAccount, Abandoned
<1> QED
  BY <1>1, <1>2, <1>3, <1>4, <1>5, StrangerStep DEF LaunchNext, launchVars, Use

\* However many mints are created, used and closed at the address, one is left
\* without metadata only by the second transaction of its create_mint failing;
\* and as no other call writes metadata, it stays so until it is closed.
THEOREM AbandonedMintsStay == LaunchSpec => AbandonedForGood
<1>1. TypeOK /\ LaunchInv /\ [LaunchNext]_launchVars
        => [/\ ~Abandoned /\ Abandoned' => SendFails
            /\ Abandoned /\ account'.exists => Abandoned']_launchVars
  BY AbandonedStep
<1> QED
  BY <1>1, LaunchInvariant, PTL DEF LaunchSpec, AbandonedForGood

\* The supply stays what the accounts hold when mints are closed and created
\* anew over accounts that outlive them: only a mint without supply closes.
THEOREM SupplyOutlivesMints == LaunchSpec => []SupplyConserved
<1>1. LaunchInv => SupplyConserved
  BY DEF LaunchInv
<1> QED
  BY <1>1, LaunchInvariant, PTL

\* No fee is lost with a mint that is closed, though the withheld total is
\* deleted with it (close_mint, collect_fees).
THEOREM RevenueOutlivesMints == LaunchSpec => []RevenueAccounted
<1>1. LaunchInv => RevenueAccounted
  BY DEF LaunchInv
<1> QED
  BY <1>1, LaunchInvariant, PTL
=============================================================================
