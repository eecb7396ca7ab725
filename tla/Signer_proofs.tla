----------------------------- MODULE Signer_proofs -----------------------------
(***************************************************************************)
(* With a host that follows the protocol and an SDK that does not fail, the *)
(* SIGN command implements the abstract signer: every step of its is one of *)
(* Signer's or a stutter.                                                   *)
(***************************************************************************)
EXTENDS SignTransaction_proofs

(* The fields that are signed and that the user validates.                  *)
OrderFields == {"recipient", "amount", "fee"}

(* The fields of a spend lie one behind the other.                          *)
LEMMA FieldOrder ==
  ASSUME NEW t \in Transactions, Layout[t].kind = "spend"
  PROVE  /\ \A f \in OrderFields :
              /\ Layout[t].items[f].end \in Nat
              /\ Layout[t].items[f].end <= Layout[t].items["fee"].end
         /\ \A f \in Fields :
              /\ Layout[t].items[f].body \in Nat
              /\ Layout[t].items[f].body <= Layout[t].len
         /\ Layout[t].items["fee"].end <= Layout[t].len
         /\ Layout[t].len \in Nat
<1> DEFINE items == Layout[t].items
<1>1. /\ Fields = {"sender", "recipient", "amount", "fee", "ttl", "nonce", "payload"}
      /\ Position["sender"] = 1 /\ Position["recipient"] = 2
      /\ Position["amount"] = 3 /\ Position["fee"] = 4 /\ Position["ttl"] = 5
      /\ Position["nonce"] = 6 /\ Position["payload"] = 7
  BY DEF Fields, Position
<1>2. /\ \A f \in Fields : items[f] \in Item
      /\ Layout[t].len \in Nat
  BY LayoutAssumption DEF LayoutType
<1>3. /\ \A f \in Fields : /\ items[f].head \in Nat /\ items[f].body \in Nat
                           /\ items[f].end \in Nat
  BY <1>2 DEF Item
<1>4. /\ items["payload"].end = Layout[t].len
      /\ \A f \in Fields : items[f].head < items[f].body /\ items[f].body <= items[f].end
      /\ \A f, g \in Fields : Before(f, g) => items[f].end <= items[g].head
  BY LayoutAssumption
<1>5. \A f \in Fields \ {"payload"} : Before(f, "payload")
  BY <1>1 DEF Before
<1>6. Before("recipient", "fee") /\ Before("amount", "fee")
  BY <1>1 DEF Before
<1> HIDE DEF items
<1>7. \A f \in Fields : items[f].end <= Layout[t].len
  <2>1. SUFFICES ASSUME NEW f \in Fields, f # "payload"
                 PROVE  items[f].end <= Layout[t].len
    BY <1>2, <1>4
  <2>2. items[f].end <= items["payload"].head
    BY <1>1, <1>4, <1>5, <2>1
  <2> QED BY <1>1, <1>2, <1>3, <1>4, <2>2
<1>8. \A f \in OrderFields : items[f].end <= items["fee"].end
  <2>1. /\ items["recipient"].end <= items["fee"].head
        /\ items["amount"].end <= items["fee"].head
        /\ items["fee"].head < items["fee"].body
        /\ items["fee"].body <= items["fee"].end
    BY <1>1, <1>4, <1>6
  <2> QED BY <1>1, <1>3, <2>1 DEF OrderFields
<1>9. \A f \in Fields : items[f].body <= Layout[t].len
  BY <1>2, <1>3, <1>4, <1>7
<1> QED BY <1>1, <1>2, <1>3, <1>7, <1>8, <1>9 DEF items, OrderFields

(* No field is refused when parsing gets to the end.                        *)
LEMMA NothingRefused ==
  ASSUME NEW t \in Transactions, NEW n \in BlockSizes,
         NEW declared, NEW stray \in Strays(t, n),
         Layout[t].kind = "spend", ParseOk(t, n, declared, stray),
         NEW f \in Fields
  PROVE  ~Refused(t, n, f, stray)
<1>1. Reached[t][n][stray] = Fields
  BY DEF ParseOk
<1>2. stray \in {0} \cup {Position[g] : g \in Fields}
  BY DEF Strays
<1>3. Reached[t][n][stray] =
        {g \in Fields : \A h \in {k \in Fields : Refused(t, n, k, stray)} : Before(g, h)}
  BY <1>2 DEF Reached
<1>4. SUFFICES ASSUME Refused(t, n, f, stray) PROVE Before(f, f)
  BY DEF Before, Fields, Position
<1> QED BY <1>1, <1>3, <1>4

(* So an accepted first block of a host that follows the protocol holds the *)
(* fields of the order in full.                                             *)
LEMMA AcceptedHoldsOrder ==
  ASSUME HostFollowsProtocol, NEW t \in Transactions, NEW n \in BlockSizes,
         NEW declared, NEW stray \in Strays(t, n),
         Layout[t].kind = "spend", ParseOk(t, n, declared, stray),
         n = Smaller(FirstSize, Layout[t].len),
         NEW f \in OrderFields
  PROVE  Intact(t, n, f)
<1>1. f # "payload"
  BY DEF OrderFields
<1>2. FirstSize \in Nat /\ n \in Nat
  BY SignAssumption, SizesAssumption
<1>3. CASE Layout[t].items["fee"].end <= FirstSize
  <2>1. Layout[t].items["fee"].end <= n
    BY <1>2, <1>3, FieldOrder DEF Smaller
  <2>2. Layout[t].items[f].end <= n
    <3>1. /\ Layout[t].items[f].end \in Nat
          /\ Layout[t].items[f].end <= Layout[t].items["fee"].end
          /\ Layout[t].items["fee"].end \in Nat
      BY FieldOrder DEF OrderFields
    <3> QED BY <1>2, <2>1, <3>1
  <2> QED BY <1>1, <2>2 DEF Intact
<1>4. CASE /\ Layout[t].bad # "none"
           /\ Layout[t].items[Layout[t].bad].body <= FirstSize
  <2> DEFINE bad == Layout[t].bad
  <2>1. bad \in Fields
    BY <1>4, LayoutAssumption DEF LayoutType, Fields, Position
  <2>2. Layout[t].items[bad].body <= n
    BY <1>2, <1>4, <2>1, FieldOrder DEF Smaller
  <2>3. Refused(t, n, bad, stray)
    BY <2>2 DEF Refused, HeadInside
  <2> QED BY <2>1, <2>3, NothingRefused
<1> QED BY <1>3, <1>4, FirstBlockAssumption

-----------------------------------------------------------------------------
(* An accepted transaction keeps its type, and its order was displayed.     *)
OrderKept ==
  session.accepted =>
    /\ transactionType = Layout[session.tx].kind
    /\ Layout[session.tx].kind = "spend" =>
         \A f \in OrderFields : Intact(session.tx, session.first, f)

(* The invariant under which the steps correspond.                          *)
RefInv == HostInv /\ OrderKept /\ (Reviewed => answer = NoData)

(* The order of the transaction under review.                               *)
Order == [recipient |-> session.tx, amount |-> session.tx, fee |-> session.tx,
          account |-> session.account, network |-> session.network]
Orders == {[recipient |-> t, amount |-> t, fee |-> t,
            account |-> a, network |-> i] :
             t \in Transactions, a \in Accounts, i \in NetworkIds}

(* First blocks establish it, further ones leave type and texts alone.      *)
LEMMA HandleSign_OrderKept ==
  ASSUME HostFollowsProtocol, Streaming, OrderKept, HandleSign
  PROVE  OrderKept'
<1>1. ASSUME NEW tx \in Transactions, NEW account \in Accounts,
             NEW network \in NetworkIds, NEW declared \in Declarations,
             NEW n \in BlockSizes, NEW stray \in Strays(tx, n),
             FirstBlockRefused(tx, account, network, declared, n, stray)
      PROVE  OrderKept'
  BY <1>1 DEF FirstBlockRefused, Streamed, OrderKept
<1>2. ASSUME NEW tx \in Transactions, NEW account \in Accounts,
             NEW network \in NetworkIds, NEW declared \in Declarations,
             NEW n \in BlockSizes, NEW stray \in Strays(tx, n),
             FirstBlockAccepted(tx, account, network, declared, n, stray)
      PROVE  OrderKept'
  <2>1. session'.tx = tx /\ session'.first = n
    BY <1>2 DEF FirstBlockAccepted, Streamed
  <2>2. ParseOk(tx, n, declared, stray) /\ n = Smaller(FirstSize, Layout[tx].len)
    BY <1>2 DEF FirstBlockAccepted, FirstBlock, FirstAsPromised
  <2>3. transactionType' = Layout[tx].kind
    BY <1>2, <2>2 DEF FirstBlockAccepted, ReadType, ParseOk
  <2>4. Layout[tx].kind = "spend" => \A f \in OrderFields : Intact(tx, n, f)
    BY <2>2, AcceptedHoldsOrder
  <2> QED BY <2>1, <2>3, <2>4 DEF OrderKept
<1>3. ASSUME NEW n \in BlockSizes, NEW own \in BOOLEAN, MoreBlock(n, own)
      PROVE  OrderKept'
  <2>1. /\ session'.accepted = session.accepted /\ session'.tx = session.tx
        /\ session'.first = session.first
        /\ transactionType' = transactionType
    BY <1>3 DEF MoreBlock, Streaming, StreamTypeOK, Session
  <2> QED BY <2>1 DEF OrderKept
<1>4. ~MoreBlockThrows /\ ~OtherP1
  BY DEF MoreBlockThrows, OtherP1
<1>5. ASSUME NEW account, NEW declared PROVE ~NetworkIdTooLong(account, declared)
  BY DEF NetworkIdTooLong
<1> QED BY <1>1, <1>2, <1>3, <1>4, <1>5 DEF HandleSign

(* The steps other than the command, by what they do to screen and digest.  *)
LEMMA OtherSteps ==
  ASSUME HostInv, ~Faults, [Next]_vars
  PROVE  \/ HandleSign
         \/ SingAndSend
         \/ /\ ~pending' /\ answer' = NoData
            /\ CloseDigest \/ UNCHANGED signVars \/ ~session'.accepted
         \/ /\ ux'.flow = ux.flow /\ UNCHANGED <<answer, pending, signVars>>
<1>1. ~SingAndSendThrows
  BY DEF SingAndSendThrows, Validates, HostInv, ReviewAwaited, Reviewed
<1>2. CASE SingInterrupted \/ RejectTransaction \/ TransportReset
  BY <1>2 DEF SingInterrupted, RejectTransaction, SendResponse, TransportReset,
              ResetScreen
<1>3. CASE LookAround
  <2>1. ux'.flow = ux.flow
    BY <1>3, MoveScreen, SignInvParts DEF LookAround, HostInv
  <2> QED BY <1>3, <2>1 DEF LookAround, MoveLeft, MoveRight, ShowStep
<1>4. CASE Relaunch
  BY <1>4 DEF Relaunch, ResetScreen, NoSession
<1>5. CASE UNCHANGED vars
  BY <1>5 DEF vars, globals
<1> QED BY <1>1, <1>2, <1>3, <1>4, <1>5 DEF Next, SignScreens

(* The invariant is one.                                                    *)
LEMMA Next_RefInv ==
  ASSUME HostFollowsProtocol, ~Faults, RefInv, [Next]_vars PROVE RefInv'
<1>1. HostInv' /\ HostInv /\ Streaming
  BY Next_HostInv, SignInvParts DEF RefInv, HostInv
<1>2. CASE HandleSign
  <2>1. OrderKept'
    BY <1>1, <1>2, HandleSign_OrderKept DEF RefInv
  <2>2. answer' = NoData
    BY <1>2, HandleSignEnds DEF Confirm, Throw
  <2> QED BY <1>1, <2>1, <2>2 DEF RefInv
<1>3. ASSUME CloseDigest \/ UNCHANGED signVars \/ ~session'.accepted
      PROVE  OrderKept'
  BY <1>3 DEF CloseDigest, signVars, RefInv, OrderKept
<1>4. CASE SingAndSend
  BY <1>1, <1>3, <1>4 DEF SingAndSend, SendResponse, RefInv, Reviewed
<1>5. CASE /\ ~pending' /\ answer' = NoData
           /\ CloseDigest \/ UNCHANGED signVars \/ ~session'.accepted
  BY <1>1, <1>3, <1>5 DEF RefInv, Reviewed
<1>6. CASE ux'.flow = ux.flow /\ UNCHANGED <<answer, pending, signVars>>
  BY <1>1, <1>3, <1>6 DEF RefInv, Reviewed
<1> QED BY <1>1, <1>2, <1>4, <1>5, <1>6, OtherSteps

(* From the start on.                                                       *)
LEMMA Init_RefInv == Init => RefInv
<1> SUFFICES ASSUME Init PROVE RefInv
  OBVIOUS
<1>1. ~session.accepted /\ answer = NoData
  BY DEF Init, SignInit, NoSession, GlobalsInit
<1> QED BY <1>1, Init_HostInv DEF RefInv, OrderKept

(* What the user looks at is the order that a signable digest is of.        *)
LEMMA SignableIsSeen ==
  ASSUME Streaming, OrderKept, Signable, session.accepted
  PROVE  Seen = Order /\ Order \in Orders
<1>1. session.tx \in Transactions /\ session.account \in Accounts
      /\ session.network \in NetworkIds
  BY DEF Signable, Streaming, StreamTypeOK, Session
<1>2. \A f \in OrderFields : Offered(f) = session.tx
  <2>1. OrderFields \subseteq DisplayFields
    BY DEF OrderFields, DisplayFields
  <2>2. CASE Layout[session.tx].kind = "spend"
    BY <2>1, <2>2 DEF Streaming, Stream, OrderKept, Offered, Signable
  <2>3. CASE Layout[session.tx].kind # "spend"
    BY <2>3 DEF OrderKept, Offered, Signable
  <2> QED BY <2>2, <2>3
<1>3. Seen = Order
  BY <1>2 DEF Seen, Order, Signable, OrderFields
<1>4. Order \in Orders
  BY <1>1 DEF Order, Orders
<1> QED BY <1>3, <1>4

(* So under a review.                                                       *)
LEMMA SeenIsOrder ==
  RefInv /\ Reviewed => Signable /\ Seen = Order /\ Order \in Orders
<1> SUFFICES ASSUME RefInv, Reviewed
             PROVE  Signable /\ Seen = Order /\ Order \in Orders
  OBVIOUS
<1>1. HostInv /\ Streaming /\ OrderKept
  BY SignInvParts DEF RefInv, HostInv
<1>2. Signable /\ session.accepted
  BY <1>1, PromisedIsSignable DEF HostInv, SignInv, Countdown
<1> QED BY <1>1, <1>2, SignableIsSeen

(* The same in the next state.                                              *)
LEMMA SeenIsOrderNext ==
  (RefInv /\ Reviewed => Signable /\ Seen = Order /\ Order \in Orders)'
BY SeenIsOrder, PTL

-----------------------------------------------------------------------------
(* The mapping of SignTransaction!Abstract.                                 *)
Offer == IF Reviewed THEN Seen ELSE NoData

(* The actions of the abstract signer through it.                           *)
LEMMA AbstractSteps ==
  /\ Abstract!Init <=> Offer = NoData /\ Verified = NoData
  /\ \A order \in Orders :
       Offer = NoData /\ Offer' = order /\ Verified' = NoData => Abstract!Next
  /\ Offer # NoData /\ Verified' = Offer /\ Offer' = NoData => Abstract!Next
  /\ Offer # NoData /\ Offer' = NoData /\ Verified' = Verified => Abstract!Next
  /\ Verified # NoData /\ Verified' = NoData /\ Offer' = Offer => Abstract!Next
BY DEF Abstract!Init, Abstract!Next, Abstract!Present, Abstract!Approve,
       Abstract!Withdraw, Abstract!Collect, Offer, Orders

(* An answer is collected, or there was none.                               *)
LEMMA NothingOffered ==
  ASSUME Offer = NoData, Offer' = NoData, Verified' = NoData
  PROVE  Abstract!Next \/ UNCHANGED <<Offer, Verified>>
BY AbstractSteps

(* The initial state is an initial state of the abstract signer.            *)
LEMMA Init_Refines == Init => Abstract!Init
<1> SUFFICES ASSUME Init PROVE Abstract!Init
  OBVIOUS
<1>1. ~pending /\ answer = NoData
  BY DEF Init, GlobalsInit
<1> QED BY <1>1, AbstractSteps DEF Offer, Verified, Reviewed

(* Every step is one of the abstract signer or a stutter.                   *)
LEMMA Next_Refines ==
  ASSUME HostFollowsProtocol, ~Faults, RefInv, [Next]_vars
  PROVE  Abstract!Next \/ UNCHANGED <<Offer, Verified>>
<1>1. RefInv' /\ HostInv
  BY Next_RefInv DEF RefInv
<1>2. /\ Reviewed => Offer = Order /\ Order \in Orders /\ Verified = NoData
      /\ ~Reviewed => Offer = NoData
  BY SeenIsOrder DEF Offer, Verified, RefInv
<1>3. /\ Reviewed' => Offer' = Order' /\ Order' \in Orders
      /\ ~Reviewed' => Offer' = NoData
      /\ answer' = NoData => Verified' = NoData
  <2>1. Orders' = Orders
    BY DEF Orders
  <2> QED BY <1>1, <2>1, SeenIsOrderNext DEF Offer, Verified
<1>4. CASE HandleSign
  <2>1. ~Reviewed /\ answer' = NoData
    BY <1>4, HandleSignEnds DEF Reviewed, Confirm, Throw
  <2>2. CASE Reviewed'
    BY <1>2, <1>3, <2>1, <2>2, AbstractSteps
  <2>3. CASE ~Reviewed'
    BY <1>2, <1>3, <2>1, <2>3, NothingOffered
  <2> QED BY <2>2, <2>3
<1>5. CASE SingAndSend
  <2>1. Reviewed /\ ~Reviewed' /\ answer' = SignatureMade
    BY <1>1, <1>5 DEF SingAndSend, Validates, SendResponse, HostInv,
                      ReviewAwaited, Reviewed
  <2>2. /\ SignatureMade.tx = session.tx
        /\ SignatureMade.account = session.account
        /\ SignatureMade.network = session.network
    BY <2>1, SeenIsOrder, SignableIsWhole
  <2>3. Verified' = NoData \/ Verified' = Order
    BY <2>1, <2>2 DEF Verified, Order
  <2> QED BY <1>2, <1>3, <2>1, <2>3, AbstractSteps
<1>6. CASE ~pending' /\ answer' = NoData
  <2>1. ~Reviewed'
    BY <1>6 DEF Reviewed
  <2> QED BY <1>2, <1>3, <1>6, <2>1, AbstractSteps, NothingOffered
<1>7. CASE ux'.flow = ux.flow /\ UNCHANGED <<answer, pending, signVars>>
  <2>1. Reviewed' <=> Reviewed
    BY <1>7 DEF Reviewed
  <2>2. Seen' = Seen
    BY <1>7 DEF Seen, Offered, signVars
  <2> QED BY <1>7, <2>1, <2>2 DEF Offer, Verified
<1> QED BY <1>1, <1>4, <1>5, <1>6, <1>7, OtherSteps

(* The SIGN command offers one order at a time, and signs only the one on   *)
(* offer, once: fields read from a screen and fields verified in a          *)
(* signature are the same, for every layout that a first block can show.    *)
THEOREM CommandRefinesSigner ==
  ASSUME HostFollowsProtocol, ~Faults PROVE Spec => SignsOnlyOffers
<1>1. RefInv /\ [Next]_vars => RefInv'
  BY Next_RefInv
<1>2. RefInv /\ [Next]_vars => [Abstract!Next]_<<Offer, Verified>>
  BY Next_Refines
<1>3. Spec => Abstract!Init /\ [][Abstract!Next]_<<Offer, Verified>>
  BY <1>1, <1>2, Init_RefInv, Init_Refines, PTL DEF Spec
<1> QED BY <1>3 DEF SignsOnlyOffers, Abstract!Spec, Offer
=============================================================================
