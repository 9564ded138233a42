---------------------------- MODULE MintCreation ----------------------------
(***************************************************************************)
(* How a mint comes to be (mint.rs), what may happen to it before it has   *)
(* its metadata, and its life as the mint of Stablecoin up to its closing, *)
(* after which one may be created again at the same address.               *)
(*                                                                         *)
(* A plan is computed first: a transaction that creates and initializes    *)
(* the account and one that writes the metadata, instruction by            *)
(* instruction.  The cluster executes a transaction instruction by         *)
(* instruction and keeps all of its effects or none.  Between the two, and *)
(* before the first, anyone may send instructions to the same address.     *)
(*                                                                         *)
(* Sizes are counted in units: one for each extension of fixed size, for   *)
(* the header of the metadata, for its packed name, symbol and URI, and    *)
(* for each additional field, whose value has one size.  Rent is one       *)
(* lamport per unit.                                                       *)
(***************************************************************************)
EXTENDS Stablecoin, Sequences

CONSTANTS
  Keys,     \* keys of additional metadata fields
  Designs   \* calls: <<"v1" or "v2", the keys of additional_metadata>>

ASSUME DesignsAssumption == Designs \subseteq {"v1", "v2"} \X Seq(Keys)

VARIABLES
  account,   \* the account at the mint's address
  creating   \* create_mint: the transactions it has yet to send

launchVars == <<vars, account, creating>>

-----------------------------------------------------------------------------
(* Instructions and the plans made of them. *)

Issuer == "issuer"
Stranger == "stranger"

CreateAccount(space, lamports) ==
  [do |-> "create account", space |-> space, lamports |-> lamports]
InitializeExtension(extension, authority) ==
  [do |-> "initialize extension", extension |-> extension,
   authority |-> authority]
InitializeMint2(authority, freeze) ==
  [do |-> "initialize mint", authority |-> authority, freeze |-> freeze]
InitializeMetadata == [do |-> "initialize metadata"]
UpdateField(key) == [do |-> "update field", key |-> key]

V1Extensions == <<"TransferFeeConfig", "MetadataPointer",
                  "DefaultAccountState", "MintCloseAuthority">>

\* Mutation: "the last one" is taken to be optional.
V2AddedExtensionsButFees == <<"PermanentDelegate", "ConfidentialTransferMint">>

V2AddedExtensions == <<"PermanentDelegate", "ConfidentialTransferMint",
                       "ConfidentialTransferFeeConfig">>

\* v1_extension_inits, v2_added_extension_inits: all for the issuer's keys.
ExtensionInits(version) ==
  LET extensions == IF version = "v1" THEN V1Extensions
                    ELSE V1Extensions \o V2AddedExtensions
  IN  [i \in DOMAIN extensions |-> InitializeExtension(extensions[i], Issuer)]

\* Mutation: TokenMetadata::tlv_size_of, whose header is larger.
TlvSizeOf(keys) == 2 + 1 + Len(keys)

\* metadata_tlv_len: header, packed metadata with every pair of the call.
MetadataTlvLen(keys) == 1 + 1 + Len(keys)

\* Mutation: the account is created by a transaction of its own.
PlanFromInitsSplit(inits, keys) ==
  << <<CreateAccount(Len(inits), Len(inits) + MetadataTlvLen(keys))>>,
     Append(inits, InitializeMint2(Issuer, TRUE)),
     <<InitializeMetadata>> \o [i \in DOMAIN keys |-> UpdateField(keys[i])] >>

\* plan_from_inits: allocated for the fixed extensions alone, funded for the
\* final size, every initialization before that of the mint.
PlanFromInits(inits, keys) ==
  << <<CreateAccount(Len(inits), Len(inits) + MetadataTlvLen(keys))>>
       \o inits \o <<InitializeMint2(Issuer, TRUE)>>,
     <<InitializeMetadata>> \o [i \in DOMAIN keys |-> UpdateField(keys[i])] >>

\* plan_v1, plan_v2
Plan(design) == PlanFromInits(ExtensionInits(design[1]), design[2])

-----------------------------------------------------------------------------
(* The account, and what the programs make of an instruction.  Before      *)
(* InitializeMint2 an account of the token program belongs to nobody.      *)

NoAccount ==
  [exists |-> FALSE, space |-> 0, lamports |-> 0, extensions |-> <<>>,
   mint |-> "none", freeze |-> FALSE, metadata |-> 0, keys |-> {}]

Has(a, extension) ==
  \E i \in DOMAIN a.extensions : a.extensions[i].extension = extension

\* Extensions that go together: fees on encrypted amounts must be encrypted,
\* and accounts that start frozen need someone to thaw them.
Compatible(a, freeze) ==
  /\ Has(a, "TransferFeeConfig") /\ Has(a, "ConfidentialTransferMint")
       => Has(a, "ConfidentialTransferFeeConfig")
  /\ Has(a, "DefaultAccountState") => freeze

\* InitializeMint2 demands that every allocated byte belongs to an extension.
Accepts(a, i) ==
  CASE i.do = "create account" -> ~a.exists
    [] i.do = "initialize extension" ->
         /\ a.exists /\ a.mint = "none"
         /\ ~Has(a, i.extension)
         /\ Len(a.extensions) < a.space
    [] i.do = "initialize mint" ->
         /\ a.exists /\ a.mint = "none"
         /\ Len(a.extensions) = a.space
         /\ Compatible(a, i.freeze)
    [] i.do = "initialize metadata" -> a.mint = Issuer /\ a.metadata = 0
    [] i.do = "update field" -> a.mint = Issuer /\ a.metadata > 0

\* A field whose key the metadata has already takes the new value.
After(a, i) ==
  CASE i.do = "create account" ->
         [a EXCEPT !.exists = TRUE, !.space = i.space, !.lamports = i.lamports]
    [] i.do = "initialize extension" ->
         [a EXCEPT !.extensions = Append(@, i)]
    [] i.do = "initialize mint" ->
         [a EXCEPT !.mint = i.authority, !.freeze = i.freeze]
    [] i.do = "initialize metadata" -> [a EXCEPT !.metadata = 2]
    [] i.do = "update field" -> [a EXCEPT !.keys = @ \cup {i.key}]

\* What the account takes up: its fixed part, its metadata, a unit per field.
Size(a) == a.space + a.metadata + Cardinality(a.keys)

\* Growing in place does not bring lamports along; the runtime looks at the
\* end of a transaction.
RentExempt(a) == a.lamports >= Size(a)

\* The accounts an instruction makes of `accounts`.
Execute(accounts, i) ==
  {After(b, i) : b \in {c \in accounts : Accepts(c, i)}}

\* The account a transaction leaves: one, or none when it is rejected.
Landed(a, transaction) ==
  LET run[n \in 0..Len(transaction)] ==
        IF n = 0 THEN {a} ELSE Execute(run[n - 1], transaction[n])
  IN  {b \in run[Len(transaction)] : RentExempt(b)}

-----------------------------------------------------------------------------
(* Steps. *)

\* No account yet, hence no mint for the rest of the system to use.
LaunchInit ==
  /\ NothingYet
  /\ mint = [NewMint(0) EXCEPT !.open = FALSE]
  /\ account = NoAccount
  /\ creating = <<>>

\* The mint is there from its InitializeMint2 on, and without metadata.
MintFollows ==
  IF account.mint = "none" /\ account'.mint # "none"
  THEN mint' = NewMint(epoch)
  ELSE UNCHANGED mint

\* One transaction: the account becomes one of `accounts`.
Becomes(accounts) ==
  /\ account' \in accounts
  /\ MintFollows
  /\ UNCHANGED <<epoch, status, owner, amount, withheld, call, gated, cleared,
                 uncollected>>

\* A transaction of the plan lands.
Lands(transaction) == Becomes(Landed(account, transaction))

\* Mutation: the call returns after the first transaction.
CreateMintFirstOnly(design) ==
  /\ creating = <<>>
  /\ Lands(Head(Plan(design)))
  /\ creating' = <<>>

\* create_v1, create_v2: plan_from_inits computes everything from the arguments
\* of the call, then create_mint sends the first transaction.  If that one is
\* rejected or lost, the call fails and nothing has happened.
CreateMint(design) ==
  /\ creating = <<>>
  /\ Lands(Head(Plan(design)))
  /\ creating' = Tail(Plan(design))

\* create_mint: the next transaction lands; after the last the call returns.
SendLands ==
  /\ creating # <<>>
  /\ Lands(Head(creating))
  /\ creating' = Tail(creating)

\* It is rejected or lost: the call fails, and what landed before stays.
SendFails ==
  /\ creating # <<>>
  /\ creating' = <<>>
  /\ UNCHANGED <<vars, account>>

\* "None of those inits needs a signature": anyone may try, and mostly nothing
\* comes of it.
StrangersInits ==
  {InitializeExtension(extension, Stranger) :
     extension \in Range(V1Extensions) \cup Range(V2AddedExtensions)}
  \cup {InitializeMint2(Stranger, freeze) : freeze \in BOOLEAN}

StrangerInitializes(i) ==
  /\ Becomes(LET landed == Landed(account, <<i>>)
             IN  IF landed = {} THEN {account} ELSE landed)
  /\ UNCHANGED creating

\* Everything else: a mint made by create_v1 has no permanent delegate, and
\* closing a mint (close_mint) removes its account.
Use ==
  /\ Next
  /\ \A p \in Clients : LandSeize(p) => Has(account, "PermanentDelegate")
  /\ account' = IF mint.open /\ ~mint'.open THEN NoAccount ELSE account
  /\ UNCHANGED creating

LaunchNext ==
  \/ \E design \in Designs : CreateMint(design)
  \/ SendLands
  \/ SendFails
  \/ \E i \in StrangersInits : StrangerInitializes(i)
  \/ Use

LaunchSpec == LaunchInit /\ [][LaunchNext]_launchVars

-----------------------------------------------------------------------------
(* Properties. *)

\* "Split across transactions, anyone could initialize the funded, empty
\* account with their own fee authority or freeze authority first": whatever
\* anyone sends and whatever fails, a mint at the address is one of the two
\* designs, every extension of it the issuer's (plan_from_inits).
MintAsPlanned ==
  account.mint # "none" =>
    /\ account.mint = Issuer
    /\ account.freeze
    /\ account.extensions \in {ExtensionInits("v1"), ExtensionInits("v2")}

\* A plan is one the programs accept: create_mint fails only if a transaction
\* is lost, the address is taken, or the mint is closed before it has its
\* metadata (module documentation, "Sizing" and "Ordering").
PlanAccepted ==
  /\ ~account.exists =>
       \A design \in Designs : Landed(account, Head(Plan(design))) # {}
  /\ account.exists /\ creating # <<>> => Landed(account, Head(creating)) # {}

\* "Funded up front for its final size": a mint has no metadata, or all the
\* fields of a design, and exactly the rent it needs plus one unit for each
\* pair of that design whose key was given before, however its creation ended
\* (MintPlan, metadata_tlv_len).
FundedExactly ==
  account.metadata # 0 =>
    \E design \in Designs :
      /\ account.extensions = ExtensionInits(design[1])
      /\ account.keys = Range(design[2])
      /\ account.lamports - Size(account)
           = Len(design[2]) - Cardinality(account.keys)

\* A mint without metadata that no call is about to complete.
Abandoned ==
  /\ account.mint # "none"
  /\ account.metadata = 0
  /\ creating = <<>>

\* A mint is left without metadata by the second transaction of create_mint
\* failing and by nothing else, neither by a stranger nor by the life of the
\* mint meanwhile; and then no other call completes it: it stays so until it
\* is closed (create_mint).
AbandonedForGood ==
  [][/\ ~Abandoned /\ Abandoned' => SendFails
     /\ Abandoned /\ account'.exists => Abandoned']_launchVars
=============================================================================
