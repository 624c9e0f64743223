------------------------- MODULE ConservationProofs -------------------------
(***************************************************************************)
(* Conservation of jettons in RollingJetton, for every set of owners and   *)
(* signers and every bound: balances, messages in flight and stranded      *)
(* jettons always add up to total_supply, claims and what came from other  *)
(* accounts.                                                               *)
(*                                                                         *)
(* The sums are those of SumProofs.  Each kind of step moves one amount:   *)
(* between a balance and a message, between a message and total_supply or  *)
(* the stranded jettons, or it credits a balance and a claim alike, or a   *)
(* balance and what came from elsewhere.                                   *)
(*                                                                         *)
(* From the same sums: how many jettons there can be, how much an owner    *)
(* can be credited over all keys, and that one key means once.             *)
(***************************************************************************)
EXTENDS RollingJettonProofs, SumProofs

-----------------------------------------------------------------------------
(* The sums as functions of the state they are taken over *)

Balances(w) == SumOver([a \in Address |-> w[a].balance], Address)
Claims(w) == SumOver([a \in Address |-> w[a].alreadyClaimed], Address)

\* What the messages of a bag carry.
Carried(B) == [m \in DOMAIN B |-> m.amount * B[m]]
Amount(B) == SumOver(Carried(B), DOMAIN B)

LEMMA SumsOfState ==
    /\ Circulating = Balances(wallet) /\ Claimed = Claims(wallet)
    /\ InFlight = Amount(net)
BY DEF Circulating, Claimed, InFlight, Total, Balances, Claims, Amount, Carried, SumOver,
       BagToSet

LEMMA AddressFinite == IsFiniteSet(Address)
BY FinitelyManyAddresses, FS_Product DEF Address

(* One wallet's storage is replaced. *)
LEMMA WalletChange ==
    ASSUME NEW w \in [Address -> WalletStorage], NEW a \in Address, NEW x \in WalletStorage
    PROVE  /\ Balances([w EXCEPT ![a] = x]) = Balances(w) + (x.balance - w[a].balance)
           /\ Claims([w EXCEPT ![a] = x])
                = Claims(w) + (x.alreadyClaimed - w[a].alreadyClaimed)
<1> DEFINE u == [w EXCEPT ![a] = x]
           b0 == [c \in Address |-> w[c].balance]
           b1 == [c \in Address |-> u[c].balance]
           c0 == [c \in Address |-> w[c].alreadyClaimed]
           c1 == [c \in Address |-> u[c].alreadyClaimed]
<1>1. \A s \in WalletStorage : s.balance \in Int /\ s.alreadyClaimed \in Int
  BY DEF WalletStorage
<1>2. u[a] = x /\ \A c \in Address \ {a} : u[c] = w[c]
  OBVIOUS
<1>3. \A c \in Address : u[c] \in WalletStorage /\ w[c] \in WalletStorage
  OBVIOUS
<1> HIDE DEF u
<1>4. \A c \in Address : b0[c] \in Int /\ b1[c] \in Int /\ c0[c] \in Int /\ c1[c] \in Int
  BY <1>1, <1>3
<1>5. \A c \in Address \ {a} : b0[c] = b1[c] /\ c0[c] = c1[c]
  BY <1>2
<1>6. b1[a] - b0[a] = x.balance - w[a].balance
      /\ c1[a] - c0[a] = x.alreadyClaimed - w[a].alreadyClaimed
  BY <1>2
<1> HIDE DEF b0, b1, c0, c1
<1>7. SumOver(b1, Address) = SumOver(b0, Address) + (b1[a] - b0[a])
      /\ SumOver(c1, Address) = SumOver(c0, Address) + (c1[a] - c0[a])
  BY <1>4, <1>5, AddressFinite, SumChange
<1> QED BY <1>6, <1>7 DEF Balances, Claims, u, b0, b1, c0, c1

(* The sums are integers. *)
LEMMA WalletSumsType ==
    ASSUME NEW w \in [Address -> WalletStorage]
    PROVE  Balances(w) \in Int /\ Claims(w) \in Int
<1>1. \A s \in WalletStorage : s.balance \in Int /\ s.alreadyClaimed \in Int
  BY DEF WalletStorage
<1> QED BY <1>1, AddressFinite, SumInteger DEF Balances, Claims

\* A finite bag of messages.
Bag(B) == IsABag(B) /\ DOMAIN B \subseteq Message /\ IsFiniteSet(DOMAIN B)

LEMMA CarriedType ==
    ASSUME NEW B, Bag(B)
    PROVE  /\ \A m \in DOMAIN B : m.amount \in Nat /\ B[m] \in Nat /\ B[m] > 0
           /\ \A m \in DOMAIN B : Carried(B)[m] \in Int
<1>1. \A m \in DOMAIN B : m.amount \in Nat /\ B[m] \in Nat /\ B[m] > 0
  BY DEF Bag, IsABag, Message
<1> QED BY <1>1 DEF Carried

LEMMA AmountType ==
    ASSUME NEW B, Bag(B)
    PROVE  Amount(B) \in Int
BY CarriedType, SumInteger DEF Amount, Bag

(* Multiplication, for one copy more or less. *)
LEMMA OneCopy == \A x, y \in Int : x * (y + 1) = x * y + x /\ x * (y - 1) = x * y - x
OBVIOUS

(* A message enters a bag. *)
LEMMA AmountAdd ==
    ASSUME NEW B, Bag(B), NEW m \in Message
    PROVE  Bag(B (+) One(m)) /\ Amount(B (+) One(m)) = Amount(B) + m.amount
<1> DEFINE C == B (+) One(m)
<1>1. /\ DOMAIN C = DOMAIN B \cup {m}
      /\ C[m] = IF m \in DOMAIN B THEN B[m] + 1 ELSE 1
      /\ \A x \in DOMAIN B \ {m} : C[x] = B[x]
  BY CarriedType DEF One, SetToBag, (+)
<1>2. Bag(C)
  <2>1. IsFiniteSet(DOMAIN C)
    BY <1>1, FS_AddElement DEF Bag
  <2> QED BY <2>1, AddMessage DEF Bag, BagToSet
<1> HIDE DEF C
<1>3. Carried(C)[m] = m.amount * C[m] /\ \A x \in DOMAIN B \ {m} : Carried(C)[x] = Carried(B)[x]
  BY <1>1 DEF Carried
<1>4. m.amount \in Int
  BY DEF Message
<1>5. CASE m \in DOMAIN B
  <2>1. DOMAIN C = DOMAIN B
    BY <1>1, <1>5
  <2>2. Amount(C) = Amount(B) + (Carried(C)[m] - Carried(B)[m])
    BY <1>2, <1>3, <1>5, <2>1, CarriedType, SumChange DEF Amount, Bag
  <2>3. Carried(B)[m] = m.amount * B[m] /\ C[m] = B[m] + 1 /\ B[m] \in Int
    BY <1>1, <1>5, CarriedType DEF Carried
  <2>4. Carried(C)[m] = Carried(B)[m] + m.amount
    BY <1>3, <1>4, <2>3, OneCopy
  <2>5. Carried(B)[m] \in Int
    BY <1>5, CarriedType
  <2> QED BY <1>2, <1>4, <2>2, <2>4, <2>5 DEF C
<1>6. CASE m \notin DOMAIN B
  <2>1. SumOver(Carried(C), DOMAIN B \cup {m}) = SumOver(Carried(C), DOMAIN B) + Carried(C)[m]
    BY <1>1, <1>2, <1>6, CarriedType, SumAdd DEF Bag
  <2>2. SumOver(Carried(C), DOMAIN B) = SumOver(Carried(B), DOMAIN B)
    BY <1>3, <1>6, SumAgrees DEF Bag
  <2>3. Carried(C)[m] = m.amount
    BY <1>1, <1>3, <1>4, <1>6
  <2> QED BY <1>1, <1>2, <2>1, <2>2, <2>3 DEF C, Amount
<1> QED BY <1>5, <1>6

(* A message leaves a bag. *)
LEMMA AmountRemove ==
    ASSUME NEW B, Bag(B), NEW m \in DOMAIN B
    PROVE  Bag(B (-) One(m)) /\ Amount(B (-) One(m)) = Amount(B) - m.amount
<1> DEFINE C == B (-) One(m)
<1>0. m.amount \in Nat /\ B[m] \in Nat /\ B[m] > 0 /\ Amount(B) \in Int
      /\ \A x \in DOMAIN B : B[x] \in Nat /\ B[x] > 0
  BY CarriedType, AmountType
<1>1. /\ DOMAIN C = IF B[m] = 1 THEN DOMAIN B \ {m} ELSE DOMAIN B
      /\ \A x \in DOMAIN C : C[x] = IF x = m THEN B[m] - 1 ELSE B[x]
  BY <1>0 DEF One, SetToBag, (-)
<1>2. Bag(C)
  <2>1. IsFiniteSet(DOMAIN C)
    BY <1>1, FS_Subset DEF Bag
  <2> QED BY <2>1, RemoveMessage DEF Bag, BagToSet
<1> HIDE DEF C
<1>3. \A x \in DOMAIN C \ {m} : Carried(C)[x] = Carried(B)[x]
  BY <1>1 DEF Carried
<1>4. CASE B[m] = 1
  <2>1. Amount(B) = Carried(B)[m] + SumOver(Carried(B), DOMAIN C)
    BY <1>1, <1>4, CarriedType, SumTakeOut DEF Amount, Bag
  <2>2. SumOver(Carried(B), DOMAIN C) = Amount(C)
    BY <1>1, <1>2, <1>3, <1>4, SumAgrees DEF Amount, Bag
  <2>3. Carried(B)[m] = m.amount
    BY <1>0, <1>4 DEF Carried
  <2>4. Amount(C) \in Int
    BY <1>2, AmountType
  <2> QED BY <1>0, <1>2, <2>1, <2>2, <2>3, <2>4 DEF C
<1>5. CASE B[m] # 1
  <2>1. DOMAIN C = DOMAIN B
    BY <1>1, <1>5
  <2>2. Amount(C) = Amount(B) + (Carried(C)[m] - Carried(B)[m])
    BY <1>2, <1>3, <2>1, CarriedType, SumChange DEF Amount, Bag
  <2>3. Carried(B)[m] = m.amount * B[m] /\ Carried(C)[m] = m.amount * (B[m] - 1)
    BY <1>1, <2>1 DEF Carried
  <2>4. Carried(C)[m] = Carried(B)[m] - m.amount
    BY <1>0, <2>3, OneCopy
  <2>5. Carried(B)[m] \in Int
    BY CarriedType
  <2> QED BY <1>0, <1>2, <2>2, <2>4, <2>5 DEF C
<1> QED BY <1>4, <1>5
-----------------------------------------------------------------------------
(* What each kind of step moves *)

\* Messages in flight are few: the bag is finite, and stays so.
ConservationInv == TypeOK /\ IsFiniteSet(BagToSet(net)) /\ Conservation

\* The quantity that no step changes, and the state it needs.
Surplus == Balances(wallet) + Amount(net) + stranded - master.totalSupply - Claims(wallet)
             - foreign
Books == TypeOK /\ Bag(net)

LEMMA BooksBalance ==
    Books => /\ Balances(wallet) \in Int /\ Claims(wallet) \in Int
             /\ Amount(net) \in Int /\ stranded \in Int /\ master.totalSupply \in Int
             /\ foreign \in Int
BY WalletSumsType, AmountType DEF Books, TypeOK, MasterStorage

LEMMA SurplusIsZero == ConservationInv <=> (Books /\ Surplus = 0)
<1>1. ASSUME TypeOK, IsFiniteSet(BagToSet(net))
      PROVE  Bag(net)
  BY <1>1 DEF TypeOK, Bag, BagToSet
<1>2. Bag(net) => IsFiniteSet(BagToSet(net))
  BY DEF Bag, BagToSet
<1>3. Books => (Conservation <=> Surplus = 0)
  BY BooksBalance, SumsOfState DEF Conservation, Surplus
<1> QED BY <1>1, <1>2, <1>3 DEF ConservationInv, Books

(* Sending, consuming and returning a message. *)
LEMMA SendAmount ==
    ASSUME Bag(net), NEW m \in Message, Send(m)
    PROVE  Bag(net)' /\ Amount(net)' = Amount(net) + m.amount
BY AmountAdd DEF Send

LEMMA ConsumeAmount ==
    ASSUME Bag(net), NEW m, Consume(m)
    PROVE  Bag(net)' /\ Amount(net)' = Amount(net) - m.amount
BY AmountRemove DEF Consume, BagIn, BagToSet

LEMMA ReturnAmount ==
    ASSUME Bag(net), NEW m \in Message, ReturnBounced(m)
    PROVE  Bag(net)' /\ Amount(net)' = Amount(net)
<1> DEFINE B == net (-) One(m)
<1>1. Bag(B) /\ Amount(B) = Amount(net) - m.amount
  BY AmountRemove DEF ReturnBounced, BagIn, BagToSet
<1>2. Bounced(m) \in Message /\ Bounced(m).amount = m.amount
  BY BouncedMessage DEF Bounced
<1>3. net' = B (+) One(Bounced(m))
  BY DEF ReturnBounced
<1>4. m.amount \in Int /\ Amount(net) \in Int
  BY AmountType DEF Message
<1> HIDE DEF B
<1> QED BY <1>1, <1>2, <1>3, <1>4, AmountAdd

(* A credit of an amount to a wallet. *)
LEMMA CreditMoves ==
    ASSUME Books, NEW a \in Address, NEW amount \in Nat,
           wallet' = [wallet EXCEPT ![a].balance = @ + amount]
    PROVE  Balances(wallet)' = Balances(wallet) + amount /\ Claims(wallet)' = Claims(wallet)
<1> DEFINE s == wallet[a]
           x == [s EXCEPT !.balance = s.balance + amount]
<1>1. s \in WalletStorage /\ wallet \in [Address -> WalletStorage]
  BY DEF Books, TypeOK
<1>2. /\ x \in WalletStorage /\ s.balance \in Int /\ s.alreadyClaimed \in Int
      /\ x.balance = s.balance + amount /\ x.alreadyClaimed = s.alreadyClaimed
  BY <1>1 DEF WalletStorage
<1>3. wallet' = [wallet EXCEPT ![a] = x]
  BY <1>1
<1>4. Balances(wallet) \in Int /\ Claims(wallet) \in Int
  BY BooksBalance
<1> HIDE DEF x
<1> DEFINE u == [wallet EXCEPT ![a] = x]
<1>5. /\ Balances(u) = Balances(wallet) + (x.balance - s.balance)
      /\ Claims(u) = Claims(wallet) + (x.alreadyClaimed - s.alreadyClaimed)
  BY <1>1, <1>2, WalletChange
<1>6. Balances(wallet)' = Balances(u) /\ Claims(wallet)' = Claims(u)
  BY <1>3
<1> HIDE DEF s, u
<1> QED BY <1>2, <1>4, <1>5, <1>6

(* A transfer, with or without a claim, credits balance and claims alike and *)
(* turns the amount sent into a message.                                    *)
LEMMA TransferMoves ==
    ASSUME Books, NEW a \in Address, NEW amount \in Nat, NEW to \in Owners,
           OwnerTransfer(a, amount, to)
    PROVE  Books' /\ Surplus' = Surplus
<1>1. PICK w \in WalletStorage : /\ w = wallet[a] \/ ClaimResult(a, w)
                                 /\ SendTokens(a, w, amount, to)
  BY TransferOutcome DEF Books
<1> DEFINE s == wallet[a]
           x == [w EXCEPT !.balance = w.balance - amount]
<1>2. s \in WalletStorage /\ wallet \in [Address -> WalletStorage]
  BY DEF Books, TypeOK
<1>3. w.balance = s.balance + (w.alreadyClaimed - s.alreadyClaimed)
  BY <1>1, <1>2 DEF ClaimResult, WalletStorage
<1>4. /\ x \in WalletStorage /\ x.balance = w.balance - amount
      /\ x.alreadyClaimed = w.alreadyClaimed
  <2>1. w.balance - amount \in Nat
    BY <1>1 DEF SendTokens, WalletStorage
  <2> QED BY <2>1 DEF WalletStorage
<1>5. wallet' = [wallet EXCEPT ![a] = x]
  BY <1>1 DEF SendTokens
<1>6. /\ s.balance \in Int /\ s.alreadyClaimed \in Int
      /\ w.balance \in Int /\ w.alreadyClaimed \in Int
  BY <1>2 DEF WalletStorage
<1> HIDE DEF x
<1>7. /\ Balances(wallet)' = Balances(wallet) + (x.balance - s.balance)
      /\ Claims(wallet)' = Claims(wallet) + (x.alreadyClaimed - s.alreadyClaimed)
  BY <1>2, <1>4, <1>5, WalletChange
<1>8. Bag(net)' /\ Amount(net)' = Amount(net) + amount
  <2> DEFINE m == InternalTransfer(a, WalletAddress(to, a[2]), amount)
  <2>1. m \in Message /\ m.amount = amount
    <3>1. a[2] \in Signers
      BY DEF Address
    <3> QED BY <3>1, SentMessages DEF InternalTransfer
  <2>2. Send(m)
    BY <1>1 DEF SendTokens
  <2> HIDE DEF m
  <2> QED BY <2>1, <2>2, SendAmount DEF Books
<1>9. UNCHANGED <<master, stranded, foreign, backendVars>>
  BY <1>1 DEF OwnerTransfer
<1>10. TypeOK'
  BY <1>9, OwnerType, TypeSplit DEF Books
<1>11. Surplus' = Surplus
  <2>1. /\ Balances(wallet) \in Int /\ Claims(wallet) \in Int
        /\ Amount(net) \in Int /\ stranded \in Int /\ master.totalSupply \in Int
        /\ foreign \in Int
    BY BooksBalance
  <2>2. Surplus' = Balances(wallet)' + Amount(net)' + stranded - master.totalSupply
                     - Claims(wallet)' - foreign
    BY <1>9 DEF Surplus
  <2> HIDE DEF s
  <2> QED BY <1>3, <1>4, <1>6, <1>7, <1>8, <2>1, <2>2 DEF Surplus
<1> QED BY <1>8, <1>10, <1>11 DEF Books

(* A burn turns the amount into a message. *)
LEMMA BurnMoves ==
    ASSUME Books, NEW a \in Address, NEW amount \in Nat, OwnerBurn(a, amount)
    PROVE  Books' /\ Surplus' = Surplus
<1> DEFINE s == wallet[a]
           x == [s EXCEPT !.balance = s.balance - amount]
<1>1. s \in WalletStorage /\ wallet \in [Address -> WalletStorage] /\ s.balance >= amount
  BY DEF Books, TypeOK, OwnerBurn, BurnTokens
<1>2. /\ x \in WalletStorage /\ s.balance \in Int /\ s.alreadyClaimed \in Int
      /\ x.balance = s.balance - amount /\ x.alreadyClaimed = s.alreadyClaimed
  <2>1. s.balance - amount \in Nat
    BY <1>1 DEF WalletStorage
  <2> QED BY <1>1, <2>1 DEF WalletStorage
<1>3. wallet' = [wallet EXCEPT ![a] = x]
  BY <1>1 DEF OwnerBurn, BurnTokens
<1> HIDE DEF x
<1>4. /\ Balances(wallet)' = Balances(wallet) + (x.balance - s.balance)
      /\ Claims(wallet)' = Claims(wallet) + (x.alreadyClaimed - s.alreadyClaimed)
  BY <1>1, <1>2, <1>3, WalletChange
<1>5. Bag(net)' /\ Amount(net)' = Amount(net) + amount
  <2>1. BurnNotice(a, amount) \in Message /\ BurnNotice(a, amount).amount = amount
    BY DEF BurnNotice, Message
  <2>2. Send(BurnNotice(a, amount))
    BY DEF OwnerBurn, BurnTokens
  <2> QED BY <2>1, <2>2, SendAmount DEF Books
<1>6. UNCHANGED <<master, stranded, foreign, backendVars>>
  BY DEF OwnerBurn, historyVars
<1>7. TypeOK'
  BY <1>6, OwnerType, TypeSplit DEF Books
<1>8. Surplus' = Surplus
  <2>1. /\ Balances(wallet) \in Int /\ Claims(wallet) \in Int
        /\ Amount(net) \in Int /\ stranded \in Int /\ master.totalSupply \in Int
        /\ foreign \in Int
    BY BooksBalance
  <2>2. Surplus' = Balances(wallet)' + Amount(net)' + stranded - master.totalSupply
                     - Claims(wallet)' - foreign
    BY <1>6 DEF Surplus
  <2> HIDE DEF s
  <2> QED BY <1>2, <1>4, <1>5, <2>1, <2>2 DEF Surplus
<1> QED BY <1>5, <1>7, <1>8 DEF Books

(* Every delivery: to a wallet, back to the sender, to the master, or to nobody. *)
LEMMA DeliveryMoves ==
    ASSUME Books, NEW m \in BagToSet(net),
           Deliver(m) \/ DropBouncedBurn(m) \/ MasterBurn(m) \/ DropBouncedMint(m)
    PROVE  Books' /\ Surplus' = Surplus
<1>1. m \in Message /\ m.amount \in Nat /\ Bag(net)
  BY InFlightMessage DEF Books
<1>2. TypeOK'
  BY DeliveryType, TypeSplit DEF Books
<1>3. /\ Balances(wallet) \in Int /\ Claims(wallet) \in Int
      /\ Amount(net) \in Int /\ stranded \in Int /\ master.totalSupply \in Int
      /\ foreign \in Int
  BY BooksBalance
<1>4. Surplus' = Balances(wallet)' + Amount(net)' + stranded' - master'.totalSupply
                   - Claims(wallet)' - foreign'
  BY DEF Surplus
<1>0. foreign' = foreign
  BY DEF Deliver, DropBouncedBurn, MasterBurn, DropBouncedMint, historyVars
<1>5. CASE Deliver(m) /\ ~TransferBounces(m)
  <2>1. /\ m.dst \in Address /\ Consume(m)
        /\ wallet' = [wallet EXCEPT ![m.dst].balance = @ + m.amount]
        /\ UNCHANGED <<master, stranded>>
    BY <1>5 DEF Deliver, ReceiveTokens, OnBounce, historyVars
  <2>2. Balances(wallet)' = Balances(wallet) + m.amount /\ Claims(wallet)' = Claims(wallet)
    BY <1>1, <2>1, CreditMoves
  <2>3. Bag(net)' /\ Amount(net)' = Amount(net) - m.amount
    BY <1>1, <2>1, ConsumeAmount
  <2> QED BY <1>0, <1>1, <1>2, <1>3, <1>4, <2>1, <2>2, <2>3 DEF Books, Surplus
<1>6. CASE UNCHANGED <<wallet, master, stranded>> /\ ReturnBounced(m)
  <2>1. Bag(net)' /\ Amount(net)' = Amount(net)
    BY <1>1, <1>6, ReturnAmount
  <2>2. Balances(wallet)' = Balances(wallet) /\ Claims(wallet)' = Claims(wallet)
    BY <1>6
  <2> QED BY <1>0, <1>2, <1>4, <1>6, <2>1, <2>2 DEF Books, Surplus
<1>7. CASE UNCHANGED <<wallet, master>> /\ Consume(m) /\ stranded' = stranded + m.amount
  <2>1. Bag(net)' /\ Amount(net)' = Amount(net) - m.amount
    BY <1>1, <1>7, ConsumeAmount
  <2>2. Balances(wallet)' = Balances(wallet) /\ Claims(wallet)' = Claims(wallet)
    BY <1>7
  <2> QED BY <1>0, <1>1, <1>2, <1>3, <1>4, <1>7, <2>1, <2>2 DEF Books, Surplus
<1>8. CASE BurnNotification(m) /\ UNCHANGED <<wallet, stranded>>
  <2>1. Bag(net)' /\ Amount(net)' = Amount(net) - m.amount
    BY <1>1, <1>8, ConsumeAmount DEF BurnNotification
  <2>2. Balances(wallet)' = Balances(wallet) /\ Claims(wallet)' = Claims(wallet)
    BY <1>8
  <2>3. master'.totalSupply = master.totalSupply - m.amount
    BY <1>8 DEF BurnNotification, Books, TypeOK, MasterStorage
  <2> QED BY <1>0, <1>1, <1>2, <1>3, <1>4, <1>8, <2>1, <2>2, <2>3 DEF Books, Surplus
<1> QED
  BY <1>5, <1>6, <1>7, <1>8
     DEF Deliver, TransferBounces, DropBouncedBurn, OnBounceWrongOp, MasterBurn,
         BurnNotificationRejected, DropBouncedMint, IgnoreBounced, historyVars

(* A mint raises total_supply and sends as much. *)
LEMMA MintMoves ==
    ASSUME Books, NEW to \in Owners, NEW amount \in Nat, AdminMint(to, amount)
    PROVE  Books' /\ Surplus' = Surplus
<1> DEFINE m == InternalTransfer(Master, WalletAddress(to, master.signer), amount)
<1>1. m \in Message /\ m.amount = amount
  BY DEF Books, TypeOK, MasterStorage, InternalTransfer, WalletAddress, Message, Address
<1>2. Send(m) /\ master'.totalSupply = master.totalSupply + amount
      /\ UNCHANGED <<wallet, stranded, foreign>>
  BY DEF AdminMint, Mint, historyVars, Books, TypeOK, MasterStorage
<1> HIDE DEF m
<1>3. Bag(net)' /\ Amount(net)' = Amount(net) + amount
  BY <1>1, <1>2, SendAmount DEF Books
<1>4. TypeOK'
  BY AdminType, TypeSplit DEF Books
<1>5. Balances(wallet)' = Balances(wallet) /\ Claims(wallet)' = Claims(wallet)
  BY <1>2
<1>6. /\ Balances(wallet) \in Int /\ Claims(wallet) \in Int
      /\ Amount(net) \in Int /\ stranded \in Int /\ master.totalSupply \in Int
      /\ foreign \in Int
  BY BooksBalance
<1>7. Surplus' = Balances(wallet)' + Amount(net)' + stranded' - master'.totalSupply
                   - Claims(wallet)' - foreign'
  BY DEF Surplus
<1> QED BY <1>2, <1>3, <1>4, <1>5, <1>6, <1>7 DEF Books, Surplus

(* A message from another account credits a balance and is counted as such. *)
LEMMA ForeignMoves ==
    ASSUME Books, NEW a \in Address, NEW amount \in Nat, ForeignTransfer(a, amount)
    PROVE  Books' /\ Surplus' = Surplus
<1>1. /\ wallet' = [wallet EXCEPT ![a].balance = @ + amount]
      /\ UNCHANGED <<master, net, stranded, backendVars>>
      /\ foreign' = foreign + amount
  BY DEF ForeignTransfer, ReceiveFromElsewhere
<1>2. Balances(wallet)' = Balances(wallet) + amount /\ Claims(wallet)' = Claims(wallet)
  BY <1>1, CreditMoves
<1>3. TypeOK'
  BY OwnerType, TypeSplit DEF Books
<1>4. /\ Balances(wallet) \in Int /\ Claims(wallet) \in Int
      /\ Amount(net) \in Int /\ stranded \in Int /\ master.totalSupply \in Int
      /\ foreign \in Int
  BY BooksBalance
<1>5. Surplus' = Balances(wallet)' + Amount(net) + stranded - master.totalSupply
                   - Claims(wallet)' - foreign'
  BY <1>1 DEF Surplus
<1>6. Bag(net)'
  BY <1>1 DEF Books
<1> QED BY <1>1, <1>2, <1>3, <1>4, <1>5, <1>6 DEF Books, Surplus

(* Everything else moves nothing. *)
LEMMA NothingMoves ==
    ASSUME Books, TypeOK', UNCHANGED <<wallet, net, stranded, foreign>>,
           master'.totalSupply = master.totalSupply
    PROVE  Books' /\ Surplus' = Surplus
BY DEF Books, Surplus

-----------------------------------------------------------------------------

LEMMA InitConservation == Init => ConservationInv
<1> SUFFICES ASSUME Init PROVE Books /\ Surplus = 0
  BY SurplusIsZero
<1>1. wallet = [a \in Address |-> StateInit] /\ DOMAIN net = {}
  BY DEF Init, EmptyBag, SetToBag
<1>2. TypeOK /\ Bag(net)
  BY <1>1, InitType, FS_EmptySet DEF Bag, TypeOK
<1>3. Balances(wallet) = 0 /\ Claims(wallet) = 0
  BY <1>1, AddressFinite, SumZero DEF Balances, Claims, StateInit
<1>4. Amount(net) = 0
  BY <1>1, SumEmpty DEF Amount
<1> QED BY <1>2, <1>3, <1>4 DEF Books, Surplus, Init

LEMMA NextConservation == ConservationInv /\ [Next]_vars => ConservationInv'
<1> SUFFICES ASSUME ConservationInv, [Next]_vars
             PROVE  Books' /\ Surplus' = Surplus
  <2>1. (Books /\ Surplus = 0)' => ConservationInv'
    BY SurplusIsZero, PTL
  <2> QED BY <2>1, SurplusIsZero
<1>0. 0 .. MaxAmount \subseteq Nat /\ 1 .. MaxAmount \subseteq Nat
      /\ 1 .. MaxMint \subseteq Nat /\ 1 .. MaxMasterEpoch \subseteq Nat
      /\ 1 .. MaxForeign \subseteq Nat
  BY Bounds
<1>1. Books
  BY SurplusIsZero
<1>2. TypeOK'
  BY NextType DEF ConservationInv
<1>3. CASE BackendStep \/ Tick \/ UNCHANGED vars
  <2>1. UNCHANGED <<wallet, net, stranded, foreign, master>>
    BY <1>3 DEF BackendStep, Earn, AdvanceEpoch, Restart, Tick, chainVars, historyVars, vars
  <2> QED BY <1>1, <1>2, <2>1, NothingMoves
<1>4. ASSUME NEW a \in Address, NEW to \in Owners, NEW amount \in 0 .. MaxAmount,
             OwnerTransfer(a, amount, to)
      PROVE  Books' /\ Surplus' = Surplus
  BY <1>0, <1>1, <1>4, TransferMoves
<1>5. ASSUME NEW a \in Address, NEW amount \in 1 .. MaxAmount, OwnerBurn(a, amount)
      PROVE  Books' /\ Surplus' = Surplus
  BY <1>0, <1>1, <1>5, BurnMoves
<1>9. ASSUME NEW a \in Address, NEW amount \in 1 .. MaxForeign, ForeignTransfer(a, amount)
      PROVE  Books' /\ Surplus' = Surplus
  BY <1>0, <1>1, <1>9, ForeignMoves
<1>6. ASSUME NEW m \in BagToSet(net),
             Deliver(m) \/ DropBouncedBurn(m) \/ MasterBurn(m) \/ DropBouncedMint(m)
      PROVE  Books' /\ Surplus' = Surplus
  BY <1>1, <1>6, DeliveryMoves
<1>7. ASSUME NEW to \in Owners, NEW amount \in 1 .. MaxMint, AdminMint(to, amount)
      PROVE  Books' /\ Surplus' = Surplus
  BY <1>0, <1>1, <1>7, MintMoves
<1>8. CASE (\E v \in issued : \E e \in 1 .. MaxMasterEpoch : CommitRoot(v, e)) \/ AdminOp
  <2>1. /\ UNCHANGED <<wallet, net, stranded, foreign>>
        /\ master'.totalSupply = master.totalSupply
    BY <1>1, <1>8 DEF CommitRoot, UpdateMerkleRoot, AdminOp, UpdateSigner, SetPaused,
                      ChangeAdmin, ChangeContent, historyVars, Books, TypeOK, MasterStorage
  <2> QED BY <1>1, <1>2, <2>1, NothingMoves
<1> QED BY <1>3, <1>4, <1>5, <1>6, <1>7, <1>8, <1>9 DEF Next, BackendStep

(***************************************************************************)
(* Jettons are conserved: through transfers with and without claims,       *)
(* bounces, burn notifications the master takes or rejects, mints, and     *)
(* credits by messages of other accounts, in any order, balances, messages *)
(* and stranded jettons add up to total_supply, what was claimed and what  *)
(* came from elsewhere.                                                    *)
(***************************************************************************)
THEOREM JettonsConserved == Spec => []Conservation
<1>1. ConservationInv => Conservation
  BY DEF ConservationInv
<1> QED BY <1>1, InitConservation, NextConservation, PTL DEF Spec

-----------------------------------------------------------------------------
(* What can be credited and can circulate at most *)

\* What the wallets of owner o were credited under served roots, and under vouchers
\* as OwnerCreditedOnce sums it.
ServedCreditOf(o) == [s \in Signers |-> ServedCredit(WalletAddress(o, s))]
VouchedCreditOf(o) == [s \in Signers |-> VouchedCredit(WalletAddress(o, s))]

LEMMA CreditTypes ==
    ASSUME ReplayInv, NEW a \in Address
    PROVE  /\ ServedCredit(a) \in Nat /\ VouchedCredit(a) \in Nat
           /\ VouchedCredit(a) <= ServedCredit(a)
           /\ ServedCredit(a) <= Cumulative(a[1])
           /\ a[1] \in Owners /\ Cumulative(a[1]) \in Nat
<1>1. /\ wallet[a].alreadyClaimed \in Nat /\ unserved[a] \in Nat /\ unsigned[a] \in Nat
      /\ a[1] \in Owners
  BY DEF ReplayInv, CacheInv, TypeOK, WalletStorage, Address
<1>2. unserved[a] <= unsigned[a] /\ unsigned[a] <= wallet[a].alreadyClaimed
  BY DEF ReplayInv, HistoryWithinClaims
<1>3. ServedCredit(a) <= Cumulative(a[1])
  BY DEF ReplayInv, NoClaimBeyondEarnings
<1>4. Cumulative(a[1]) \in Nat
  BY <1>1, CumulativeType DEF ReplayInv, CacheInv
<1> QED BY <1>1, <1>2, <1>3, <1>4 DEF ServedCredit, VouchedCredit

LEMMA OwnerAddress ==
    ASSUME NEW o \in Owners, NEW s \in Signers
    PROVE  /\ WalletAddress(o, s) \in Address
           /\ WalletAddress(o, s)[1] = o /\ WalletAddress(o, s)[2] = s
BY DEF WalletAddress, Address

(***************************************************************************)
(* Under the roots the backend has served, an owner is credited the        *)
(* earnings at most once for each key, in the owner's wallets of all keys  *)
(* together: the exact measure of what docs/OPERATIONS.md excludes and     *)
(* update_signer brings about.                                             *)
(***************************************************************************)
THEOREM CreditedOncePerKey ==
    Spec => [](\A o \in Owners :
                  Total(ServedCreditOf(o)) <= Cardinality(Signers) * Cumulative(o))
<1>1. ASSUME ReplayInv, NEW o \in Owners
      PROVE  Total(ServedCreditOf(o)) <= Cardinality(Signers) * Cumulative(o)
  <2> DEFINE most == [s \in Signers |-> Cumulative(o)]
  <2>1. Cumulative(o) \in Nat
    BY <1>1, CumulativeType DEF ReplayInv, CacheInv
  <2>2. ASSUME NEW s \in Signers
        PROVE  ServedCreditOf(o)[s] \in Nat /\ ServedCreditOf(o)[s] <= most[s]
    <3> DEFINE a == WalletAddress(o, s)
    <3>1. a \in Address /\ a[1] = o /\ ServedCreditOf(o)[s] = ServedCredit(a)
      BY OwnerAddress DEF ServedCreditOf
    <3> HIDE DEF a
    <3>2. ServedCredit(a) \in Nat /\ ServedCredit(a) <= Cumulative(o)
      BY <1>1, <3>1, CreditTypes
    <3> QED BY <3>1, <3>2
  <2>3. SumOver(ServedCreditOf(o), Signers) <= SumOver(most, Signers)
    BY <2>1, <2>2, SumBelow, FinitelyManyAddresses
  <2>4. SumOver(most, Signers) = Cardinality(Signers) * Cumulative(o)
    BY <2>1, SumConstant, FinitelyManyAddresses
  <2>5. Total(ServedCreditOf(o)) = SumOver(ServedCreditOf(o), Signers)
    BY DEF Total, SumOver, ServedCreditOf
  <2> HIDE DEF most
  <2> QED BY <2>3, <2>4, <2>5
<1>2. ReplayInv => \A o \in Owners :
                      Total(ServedCreditOf(o)) <= Cardinality(Signers) * Cumulative(o)
  BY <1>1
<1> QED BY <1>2, InitReplay, NextReplay, PTL DEF Spec

\* Every wallet's share of the earnings: its owner's, once for each key.
Claimable == Total([a \in Address |-> Cumulative(a[1])])

(***************************************************************************)
(* What there can be at most: whatever is minted, claimed, transferred,    *)
(* bounced and burnt in whatever order, the jettons in wallets, in flight  *)
(* and stranded never exceed total_supply, the earnings, and the two       *)
(* inputs no modelled contract bounds: credit under roots the backend      *)
(* never served, and messages of other accounts.                           *)
(***************************************************************************)
THEOREM SupplyBounded ==
    Spec => [](Circulating + InFlight + stranded
                 <= master.totalSupply + Claimable + Total(unserved) + foreign)
<1> DEFINE Bounded == Circulating + InFlight + stranded
                        <= master.totalSupply + Claimable + Total(unserved) + foreign
<1>1. ASSUME ReplayInv, ConservationInv
      PROVE  Bounded
  <2> DEFINE credit == [a \in Address |-> wallet[a].alreadyClaimed]
             most == [a \in Address |-> Cumulative(a[1])]
             bound == [a \in Address |-> Cumulative(a[1]) + unserved[a]]
  <2>0. TypeOK
    BY <1>1 DEF ReplayInv, CacheInv
  <2>1. ASSUME NEW a \in Address
        PROVE  /\ credit[a] \in Nat /\ most[a] \in Nat /\ unserved[a] \in Nat
               /\ bound[a] \in Nat /\ credit[a] <= bound[a]
               /\ bound[a] = most[a] + unserved[a]
    <3>1. wallet[a].alreadyClaimed \in Nat /\ unserved[a] \in Nat
      BY <2>0 DEF TypeOK, WalletStorage
    <3>2. /\ ServedCredit(a) <= Cumulative(a[1]) /\ Cumulative(a[1]) \in Nat
          /\ ServedCredit(a) = wallet[a].alreadyClaimed - unserved[a]
      BY <1>1, CreditTypes DEF ServedCredit
    <3> QED BY <3>1, <3>2
  <2>2. SumOver(credit, Address) <= SumOver(bound, Address)
    BY <2>1, SumBelow, AddressFinite
  <2>3. SumOver(bound, Address) = SumOver(most, Address) + SumOver(unserved, Address)
    BY <2>1, SumPlus, AddressFinite
  <2>4. /\ SumOver(credit, Address) \in Nat /\ SumOver(most, Address) \in Nat
        /\ SumOver(unserved, Address) \in Nat
    BY <2>1, SumNatural, AddressFinite
  <2>5. Claimed = SumOver(credit, Address) /\ Claimable = SumOver(most, Address)
        /\ Total(unserved) = SumOver(unserved, Address)
    BY <2>0 DEF Claimed, Claimable, Total, SumOver, TypeOK
  <2>6. Circulating + InFlight + stranded = master.totalSupply + Claimed + foreign
    BY <1>1 DEF ConservationInv, Conservation
  <2>7. master.totalSupply \in Nat /\ foreign \in Nat
    BY <2>0 DEF TypeOK, MasterStorage
  <2> HIDE DEF credit, most, bound
  <2> QED BY <2>2, <2>3, <2>4, <2>5, <2>6, <2>7
<1>2. ReplayInv /\ ConservationInv => Bounded
  BY <1>1
<1> HIDE DEF Bounded
<1>3. Spec => []Bounded
  BY <1>2, InitReplay, NextReplay, InitConservation, NextConservation, PTL DEF Spec
<1> QED BY <1>3 DEF Bounded

\* As long as the key stays: all vouchers are of the first key, and a wallet of
\* another key was credited nothing under vouchers.
OneKeyInv ==
    /\ ReplayInv
    /\ master.signer = Signer0 /\ key = Signer0
    /\ \A v \in issued : v.signer = Signer0
    /\ \A a \in Address : a[2] # Signer0 => VouchedCredit(a) = 0

(* No step but update_signer changes the master's key. *)
LEMMA SignerStays ==
    ASSUME TypeOK, [Next]_vars, "update_signer" \notin AdminOps
    PROVE  master'.signer = master.signer
<1>0. master \in MasterStorage
  BY DEF TypeOK
<1>1. ASSUME NEW to \in Owners, NEW amount, AdminMint(to, amount)
      PROVE  master'.signer = master.signer
  BY <1>0, <1>1 DEF AdminMint, Mint, MasterStorage
<1>2. ASSUME NEW m, MasterBurn(m)
      PROVE  master'.signer = master.signer
  BY <1>0, <1>2 DEF MasterBurn, BurnNotification, BurnNotificationRejected, MasterStorage
<1>3. ASSUME NEW v \in issued, NEW e, CommitRoot(v, e)
      PROVE  master'.signer = master.signer
  BY <1>0, <1>3 DEF CommitRoot, UpdateMerkleRoot, MasterStorage
<1>4. CASE AdminOp
  BY <1>0, <1>4 DEF AdminOp, SetPaused, ChangeAdmin, ChangeContent, MasterStorage
<1>5. CASE master' = master
  BY <1>5
<1> QED BY <1>1, <1>2, <1>3, <1>4, <1>5 DEF Next, Earn, AdvanceEpoch, Restart, Tick, chainVars,
           OwnerTransfer, OwnerBurn, ForeignTransfer, Deliver, DropBouncedBurn,
           DropBouncedMint, IgnoreBounced, vars

(* A backend that has the first key serves vouchers of the first key. *)
LEMMA KeyStays ==
    ASSUME BackendStep, master.signer = Signer0, key = Signer0
    PROVE  /\ key' = Signer0
           /\ \A v \in issued' : v \in issued \/ v.signer = Signer0
<1>1. key' = Signer0
  BY DEF BackendStep, Earn, AdvanceEpoch, Restart
<1> QED BY <1>1 DEF BackendStep, Earn, AdvanceEpoch, Restart, Serve

LEMMA InitOneKey == Init => OneKeyInv
<1> SUFFICES ASSUME Init PROVE OneKeyInv
  OBVIOUS
<1>1. \A a \in Address : VouchedCredit(a) = 0
  BY DEF Init, StateInit, VouchedCredit
<1>2. master.signer = Signer0 /\ key = Signer0
  BY DEF Init
<1>3. \A v \in issued : v.signer = Signer0
  BY DEF Init
<1> QED BY <1>1, <1>2, <1>3, InitReplay DEF OneKeyInv

LEMMA NextOneKey ==
    ASSUME "update_signer" \notin AdminOps
    PROVE  OneKeyInv /\ [Next]_vars => OneKeyInv'
<1> SUFFICES ASSUME OneKeyInv, [Next]_vars PROVE OneKeyInv'
  OBVIOUS
<1>0. TypeOK /\ CacheInv /\ ReplayInv'
  BY NextReplay DEF OneKeyInv, ReplayInv, CacheInv
<1>1. master'.signer = Signer0
  BY <1>0, SignerStays DEF OneKeyInv
<1>2. CASE ClaimsSame /\ UNCHANGED backendVars
  <2>1. \A a \in Address : VouchedCredit(a)' = VouchedCredit(a)
    BY <1>2 DEF ClaimsSame, creditVars, VouchedCredit
  <2> QED BY <1>0, <1>1, <1>2, <2>1 DEF OneKeyInv, backendVars
<1>3. ASSUME NEW a \in Address, NEW w \in WalletStorage, ClaimStep(a, w), UNCHANGED backendVars
      PROVE  OneKeyInv'
  <2>1. \A b \in Address \ {a} : VouchedCredit(b)' = VouchedCredit(b)
    BY <1>0, <1>3, ClaimEffect DEF VouchedCredit
  <2>2. ASSUME a[2] # Signer0
        PROVE  VouchedCredit(a)' = 0
    <3>1. ~FromVoucher(a, w)
      BY <2>2 DEF FromVoucher, OneKeyInv
    <3>2. PICK delta \in Nat : /\ wallet'[a].alreadyClaimed = wallet[a].alreadyClaimed + delta
                               /\ unsigned'[a] = unsigned[a] + delta
      <4> DEFINE d == w.alreadyClaimed - wallet[a].alreadyClaimed
      <4>1. /\ d \in Nat /\ wallet'[a].alreadyClaimed = wallet[a].alreadyClaimed + d
            /\ \/ unsigned'[a] = unsigned[a] + d
               \/ unsigned'[a] = unsigned[a]
            /\ unsigned'[a] # unsigned[a] + d => d = 0 \/ FromVoucher(a, w)
        BY <1>0, <1>3, ClaimEffect
      <4>2. unsigned[a] \in Nat
        BY <1>0 DEF TypeOK
      <4> HIDE DEF d
      <4> QED BY <3>1, <4>1, <4>2
    <3>3. wallet[a].alreadyClaimed \in Nat /\ unsigned[a] \in Nat
      BY <1>0 DEF TypeOK, WalletStorage
    <3>4. wallet[a].alreadyClaimed - unsigned[a] = 0
      BY <2>2 DEF OneKeyInv, VouchedCredit
    <3> QED BY <3>2, <3>3, <3>4 DEF VouchedCredit
  <2>3. \A b \in Address : b[2] # Signer0 => VouchedCredit(b)' = 0
    BY <2>1, <2>2 DEF OneKeyInv
  <2> QED BY <1>0, <1>1, <1>3, <2>3 DEF OneKeyInv, backendVars
<1>4. CASE BackendStep
  <2>1. \A a \in Address : VouchedCredit(a)' = VouchedCredit(a)
    BY <1>4 DEF BackendStep, Earn, AdvanceEpoch, Restart, chainVars, historyVars, creditVars,
                VouchedCredit
  <2> QED BY <1>0, <1>1, <1>4, <2>1, KeyStays DEF OneKeyInv
<1> QED BY <1>0, <1>2, <1>3, <1>4, StepKinds DEF StepKind

(***************************************************************************)
(* What docs/OPERATIONS.md says of the cumulative claim holds of vouchers  *)
(* as long as the key is never rotated: whatever an owner submits, in      *)
(* whatever order and with whatever claims by proof alone in between,      *)
(* vouchers credit the earnings once.                                      *)
(***************************************************************************)
THEOREM CreditedOnceWithOneKey ==
    ASSUME "update_signer" \notin AdminOps
    PROVE  Spec => []OwnerCreditedOnce
<1>1. ASSUME OneKeyInv, NEW o \in Owners
      PROVE  Total(VouchedCreditOf(o)) <= Cumulative(o)
  <2>0. Signer0 \in Signers /\ ReplayInv
    BY <1>1, RollingJettonAssumption DEF OneKeyInv
  <2>1. ASSUME NEW s \in Signers
        PROVE  /\ VouchedCreditOf(o)[s] \in Nat
               /\ VouchedCreditOf(o)[s] <= Cumulative(o)
               /\ s # Signer0 => VouchedCreditOf(o)[s] = 0
    <3> DEFINE a == WalletAddress(o, s)
    <3>1. a \in Address /\ a[1] = o /\ a[2] = s /\ VouchedCreditOf(o)[s] = VouchedCredit(a)
      BY OwnerAddress DEF VouchedCreditOf
    <3> HIDE DEF a
    <3>2. /\ VouchedCredit(a) \in Nat /\ ServedCredit(a) \in Nat /\ Cumulative(o) \in Nat
          /\ VouchedCredit(a) <= ServedCredit(a) /\ ServedCredit(a) <= Cumulative(o)
      BY <2>0, <3>1, CreditTypes
    <3>3. s # Signer0 => VouchedCredit(a) = 0
      BY <1>1, <3>1 DEF OneKeyInv
    <3> QED BY <3>1, <3>2, <3>3
  <2>2. SumOver(VouchedCreditOf(o), Signers)
          = VouchedCreditOf(o)[Signer0] + SumOver(VouchedCreditOf(o), Signers \ {Signer0})
    BY <2>0, <2>1, SumTakeOut, FinitelyManyAddresses
  <2>4. SumOver(VouchedCreditOf(o), Signers \ {Signer0}) = 0
    BY <2>1, SumZero, FS_Subset, FinitelyManyAddresses
  <2>5. VouchedCreditOf(o)[Signer0] <= Cumulative(o) /\ VouchedCreditOf(o)[Signer0] \in Nat
    BY <2>0, <2>1
  <2>6. Total(VouchedCreditOf(o)) = SumOver(VouchedCreditOf(o), Signers)
    BY DEF Total, SumOver, VouchedCreditOf
  <2> QED BY <2>2, <2>4, <2>5, <2>6
<1>2. OneKeyInv => OwnerCreditedOnce
  BY <1>1 DEF OwnerCreditedOnce, VouchedCreditOf
<1> QED BY <1>2, InitOneKey, NextOneKey, PTL DEF Spec
=============================================================================
