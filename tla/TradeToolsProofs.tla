--------------------------- MODULE TradeToolsProofs ---------------------------
(***************************************************************************)
(* Proofs about TradeTools: the tools mean one security by one name, for   *)
(* any codes, any names of markets and any number of orders.               *)
(***************************************************************************)
EXTENDS TradeTools, TLAPS

-----------------------------------------------------------------------------
\* Names and codes

\* A name parses to itself, or to nothing if it is omitted.
LEMMA Parsed ==
    ASSUME NEW names, NEW v
    PROVE  /\ ParseNamed(v, names) \in names \cup {None, Invalid}
           /\ ParseNamed(v, names) # Invalid => ParseNamed(v, names) = v
BY DEF ParseNamed

\* Quote and trade tools take a prefix for the same market.
LEMMA PrefixMarkets ==
    ASSUME NEW prefix
    PROVE  /\ QotMarket(prefix) = SecMarket(prefix)
           /\ SecMarket(prefix) \in TrdSecMarketMap \cup {None, Invalid}
           /\ SecMarket(prefix) = None => prefix = None
<1>1. QotMarket(prefix) = SecMarket(prefix)
    BY DEF QotMarket, SecMarket
<1>2. {"CN_SH", "CN_SZ"} \subseteq TrdSecMarketMap
    BY DEF TrdSecMarketMap
<1>3. None \notin TrdSecMarketMap /\ None # Invalid
    BY NoneAssumption, InvalidAssumption
<1>4. ParseNamed(prefix, TrdSecMarketMap \ {"CN_SH", "CN_SZ"}) \in TrdSecMarketMap \cup {None, Invalid}
    BY Parsed
<1>5. ParseNamed(prefix, TrdSecMarketMap \ {"CN_SH", "CN_SZ"}) = None => prefix = None
    BY <1>3 DEF ParseNamed
<1>6. QED
    BY <1>1, <1>2, <1>3, <1>4, <1>5 DEF SecMarket

\* A code comes apart into its first part and the rest.
LEMMA CodeParts ==
    ASSUME NEW code \in Seq(Parts) \ {<<>>}
    PROVE  /\ Len(code) \in Nat \ {0} /\ Head(code) # None /\ Head(code) \in Parts
           /\ Tail(code) \in Seq(Parts)
<1>1. Len(code) \in Nat \ {0} /\ Head(code) \in Parts
    OBVIOUS
<1>2. Head(code) # None
    BY <1>1, NoneAssumption
<1>3. Tail(code) \in Seq(Parts)
    OBVIOUS
<1>4. QED
    BY <1>1, <1>2, <1>3

\* What SplitTradeCode makes of a code: only a raw code leaves the market open.
LEMMA Split ==
    ASSUME NEW code \in Seq(Parts) \ {<<>>}, SplitTradeCode(code) # Invalid
    PROVE  /\ SplitTradeCode(code) \in [market : TrdSecMarketMap \cup {None}, code : Seq(Parts)]
           /\ SplitTradeCode(code).market = None <=> Len(code) = 1
<1>1. CASE Len(code) = 1
    <2>1. SplitTradeCode(code) = [market |-> None, code |-> code]
        BY <1>1, InvalidAssumption DEF SplitTradeCode, Security
    <2>2. QED
        BY <1>1, <2>1
<1>2. CASE Len(code) # 1
    <2> DEFINE m == SecMarket(Head(code))
    <2>1. SplitTradeCode(code) = [market |-> m, code |-> Tail(code)] /\ m # Invalid
        BY <1>2 DEF SplitTradeCode, Security
    <2>2. m \in TrdSecMarketMap \cup {None} /\ m # None
        BY <2>1, CodeParts, PrefixMarkets
    <2>3. Tail(code) \in Seq(Parts)
        BY <1>2, CodeParts
    <2> HIDE DEF m
    <2>4. QED
        BY <1>2, <2>1, <2>2, <2>3
<1>3. QED
    BY <1>1, <1>2

\* What an order is placed for.
LEMMA NamedSecurity ==
    ASSUME NEW code \in Seq(Parts) \ {<<>>}, NEW sec_market, Named(code, sec_market) # Invalid
    PROVE  /\ SplitTradeCode(code) # Invalid
           /\ Named(code, sec_market).code = SplitTradeCode(code).code
           /\ sec_market = None => Named(code, sec_market) = SplitTradeCode(code)
           /\ Named(code, sec_market) \in [market : TrdSecMarketMap \cup {None}, code : Seq(Parts)]
           /\ Traded(Named(code, sec_market)).code = SplitTradeCode(code).code
           /\ Traded(Named(code, sec_market)) \in Securities
<1> DEFINE split == SplitTradeCode(code)
           market == ParseNamed(sec_market, TrdSecMarketMap)
<1>1. split # Invalid /\ market # Invalid
      /\ Named(code, sec_market) = [split EXCEPT !.market = IF market = None THEN @ ELSE market]
    BY DEF Named
<1>2. split \in [market : TrdSecMarketMap \cup {None}, code : Seq(Parts)]
    BY <1>1, Split
<1>3. market \in TrdSecMarketMap \cup {None} /\ (sec_market = None => market = None)
    BY <1>1, Parsed DEF ParseNamed
<1> HIDE DEF split, market
<1>4. Named(code, sec_market) \in [market : TrdSecMarketMap \cup {None}, code : Seq(Parts)]
      /\ Named(code, sec_market).code = split.code
    BY <1>1, <1>2, <1>3
<1>5. sec_market = None => Named(code, sec_market) = split
    BY <1>1, <1>2, <1>3
<1>6. Traded(Named(code, sec_market)) \in Securities
      /\ Traded(Named(code, sec_market)).code = split.code
    BY <1>4, HomeAssumption DEF Traded, Securities
<1>7. QED
    BY <1>1, <1>4, <1>5, <1>6 DEF split

-----------------------------------------------------------------------------
\* The invariant

\* An order in the book.
OrderRecord ==
    [security : Securities, adjust : Adjust, code : Codes, sec_market : Names \cup {None},
     status : {"live", "filled", "cancelled"}]

\* An order trades what it was placed under.
PlacedRight(o) ==
    /\ Named(o.code, o.sec_market) # Invalid
    /\ o.security = Traded(Named(o.code, o.sec_market))

\* BookInv, order by order, before a step and after it.
LEMMA BookParts ==
    /\ BookInv <=> TypeOK /\ \A n \in DOMAIN book : PlacedRight(book[n])
    /\ BookInv' <=> TypeOK' /\ \A n \in DOMAIN book' : PlacedRight(book'[n])
BY DEF BookInv, PlacedRight

\* The invariant holds at the start.
LEMMA BookInit == Init => BookInv
<1> SUFFICES ASSUME Init PROVE BookInv
    OBVIOUS
<1>1. DOMAIN book = {} /\ Len(book) = 0 /\ book \in Seq(OrderRecord)
    BY DEF Init
<1>2. TypeOK
    BY <1>1 DEF Init, TypeOK, OrderRecord
<1>3. QED
    BY <1>1, <1>2 DEF BookInv

\* A placed order is of what its caller named.
LEMMA PlaceKeeps ==
    ASSUME BookInv, NEW p \in OrderParams, Place(p)
    PROVE  BookInv'
<1>0. /\ book \in Seq(OrderRecord) /\ heard \in 0..Len(book) /\ Len(book) \in Nat
      /\ \A n \in DOMAIN book : PlacedRight(book[n])
    BY BookParts DEF TypeOK, OrderRecord
<1> DEFINE r == PlaceOrder(p)
           o == [security |-> Traded(r.security), adjust |-> r.adjust,
                 code |-> p.code, sec_market |-> p.sec_market, status |-> "live"]
<1>1. r # Invalid /\ book' = Append(book, o) /\ heard' = heard
    BY DEF Place
<1>2. /\ r.security = Named(p.code, p.sec_market) /\ r.adjust = p.adjust
      /\ Named(p.code, p.sec_market) # Invalid
    BY <1>1 DEF PlaceOrder, Order
<1>3. /\ p.code \in Codes /\ p.code \in Seq(Parts) \ {<<>>}
      /\ p.sec_market \in Names \cup {None} /\ p.adjust \in Adjust
    BY CodesAssumption DEF OrderParams
<1>4. Traded(r.security) \in Securities
    BY <1>2, <1>3, NamedSecurity
<1> HIDE DEF r
<1>5. o \in OrderRecord /\ PlacedRight(o)
    BY <1>2, <1>3, <1>4 DEF OrderRecord, PlacedRight
<1> HIDE DEF o
<1>6. /\ book' \in Seq(OrderRecord) /\ Len(book') = Len(book) + 1
      /\ \A n \in DOMAIN book' : book'[n] = IF n \in DOMAIN book THEN book[n] ELSE o
    BY <1>0, <1>1, <1>5
<1>7. TypeOK'
    BY <1>0, <1>1, <1>6 DEF TypeOK, OrderRecord
<1>8. \A n \in DOMAIN book' : PlacedRight(book'[n])
    BY <1>0, <1>5, <1>6
<1>9. QED
    BY <1>7, <1>8, BookParts

\* A modification and a fill leave alone what an order is of.
LEMMA OrdersKeepNames ==
    ASSUME BookInv, UNCHANGED heard,
           DOMAIN book' = DOMAIN book, book' = [n \in DOMAIN book |-> book'[n]],
           \A n \in DOMAIN book :
              /\ book'[n] \in OrderRecord
              /\ book'[n].security = book[n].security
              /\ book'[n].code = book[n].code /\ book'[n].sec_market = book[n].sec_market
    PROVE  BookInv'
<1>0. /\ book \in Seq(OrderRecord) /\ heard \in 0..Len(book) /\ Len(book) \in Nat
      /\ \A n \in DOMAIN book : PlacedRight(book[n])
    BY BookParts DEF TypeOK, OrderRecord
<1>1. DOMAIN book = 1..Len(book)
    BY <1>0
<1>2. book' \in Seq(OrderRecord) /\ Len(book') = Len(book)
    <2> DEFINE f == [n \in 1..Len(book) |-> book'[n]]
    <2>1. book' = f /\ \A n \in 1..Len(book) : book'[n] \in OrderRecord
        BY <1>1
    <2>2. f \in Seq(OrderRecord) /\ Len(f) = Len(book)
        BY <1>0, <2>1
    <2>3. QED
        BY <2>1, <2>2
<1>3. TypeOK'
    BY <1>0, <1>2 DEF TypeOK, OrderRecord
<1>4. \A n \in DOMAIN book' : PlacedRight(book'[n])
    BY <1>0 DEF PlacedRight
<1>5. QED
    BY <1>3, <1>4, BookParts

\* modify_order passes the price adjustment on as it is, and writes no names.
LEMMA ModifyKeeps ==
    ASSUME BookInv, NEW p \in ModifyParams, Modify(p)
    PROVE  BookInv'
<1>0. book \in Seq(OrderRecord)
    BY BookParts DEF TypeOK, OrderRecord
<1> DEFINE r == ModifyOrder(p)
<1>1. PICK ns \in Targets(r) :
        book' = [n \in DOMAIN book |-> IF n \in ns THEN Modified(book[n], r) ELSE book[n]]
    BY DEF Modify
<1>2. r.adjust \in Adjust
    BY DEF Modify, ModifyParams, ModifyOrder, ModifyRequest
<1> HIDE DEF r
<1>3. ASSUME NEW n \in DOMAIN book
      PROVE  /\ book'[n] \in OrderRecord
             /\ book'[n].security = book[n].security
             /\ book'[n].code = book[n].code /\ book'[n].sec_market = book[n].sec_market
    <2>1. book[n] \in OrderRecord
        BY <1>0
    <2>2. book'[n] \in {Modified(book[n], r), book[n]}
        BY <1>1
    <2>3. QED
        BY <1>2, <2>1, <2>2 DEF Modified, OrderRecord
<1>4. UNCHANGED heard
    BY DEF Modify
<1>5. QED
    BY <1>1, <1>3, <1>4, OrdersKeepNames

LEMMA FillKeeps ==
    ASSUME BookInv, NEW n \in DOMAIN book, Fill(n)
    PROVE  BookInv'
<1>0. book \in Seq(OrderRecord)
    BY BookParts DEF TypeOK, OrderRecord
<1>1. ASSUME NEW m \in DOMAIN book
      PROVE  /\ book'[m] \in OrderRecord
             /\ book'[m].security = book[m].security
             /\ book'[m].code = book[m].code /\ book'[m].sec_market = book[m].sec_market
    <2>1. book[m] \in OrderRecord
        BY <1>0
    <2>2. book'[m] \in {[book[m] EXCEPT !.status = "filled"], book[m]}
        BY <1>0 DEF Fill
    <2>3. QED
        BY <2>1, <2>2 DEF OrderRecord
<1>2. DOMAIN book' = DOMAIN book /\ book' = [m \in DOMAIN book |-> book'[m]]
    BY <1>0 DEF Fill
<1>3. QED
    BY <1>1, <1>2, OrdersKeepNames DEF Fill

\* OpenD hears of the orders; the book stays.
LEMMA HearingKeeps ==
    ASSUME BookInv, UNCHANGED book, heard' \in {heard, Len(book)}
    PROVE  BookInv'
<1>1. TypeOK'
    <2>1. Len(book) \in Nat /\ heard \in 0..Len(book)
        BY DEF BookInv, TypeOK
    <2>2. heard' \in 0..Len(book')
        BY <2>1
    <2>3. QED
        BY <2>2 DEF BookInv, TypeOK
<1>2. QED
    BY <1>1 DEF BookInv

\* Every step keeps the invariant.
LEMMA BookStep == BookInv /\ [Next]_vars => BookInv'
<1> SUFFICES ASSUME BookInv, [Next]_vars PROVE BookInv'
    OBVIOUS
<1>1. CASE UNCHANGED vars
    BY <1>1 DEF vars, BookInv, TypeOK
<1>2. CASE \E p \in ListParams : List(p)
    BY <1>2, HearingKeeps DEF List
<1>3. CASE Hear
    BY <1>3, HearingKeeps DEF Hear
<1>4. QED
    BY <1>1, <1>2, <1>3, PlaceKeeps, ModifyKeeps, FillKeeps DEF Next

\* BookInv holds in every reachable state.
THEOREM BookInvariant == Spec => []BookInv
BY BookInit, BookStep, PTL DEF Spec

-----------------------------------------------------------------------------
\* The properties

\* What an order in the book is.
LEMMA Placed ==
    ASSUME BookInv, NEW n \in DOMAIN book
    PROVE  /\ book[n].code \in Codes /\ book[n].code \in Seq(Parts) \ {<<>>}
           /\ book[n].security \in Securities
           /\ Named(book[n].code, book[n].sec_market) # Invalid
           /\ book[n].security = Traded(Named(book[n].code, book[n].sec_market))
<1>1. book \in Seq(OrderRecord)
    BY DEF BookInv, TypeOK, OrderRecord
<1>2. book[n] \in OrderRecord
    BY <1>1
<1>3. QED
    BY <1>2, CodesAssumption DEF BookInv, OrderRecord

\* A quote tool that takes a code asks for the security that the code is an order of.
LEMMA QuoteSecurity ==
    ASSUME NEW p \in QuoteParams, p.code \in Codes, QuoteRequest(p) # Invalid
    PROVE  /\ Len(p.code) # 1
           /\ QuoteRequest(p).security = SplitTradeCode(p.code)
<1> DEFINE s == BuildSecurity(p.code)
<1>0. p.code # None /\ p.tool \in {"quote", "calendar", "static"}
    BY NoneAssumption DEF QuoteParams
<1>1. \E m : QuoteRequest(p) = Ask(p, m, s)
    BY <1>0 DEF QuoteRequest, GetQuotes, GetTradeDates, GetStaticInfo
<1>2. s # Invalid /\ QuoteRequest(p).security = s
    BY <1>1 DEF Ask
<1>3. Len(p.code) # 1 /\ s = Security(QotMarket(Head(p.code)), Tail(p.code))
    BY <1>2 DEF BuildSecurity
<1>4. QED
    BY <1>2, <1>3, PrefixMarkets DEF SplitTradeCode

\* What a caller looks up by a qualified code is what it trades under it, in all
\* three quote tools (build_security and split_trade_code, server.rs:1440-1446, 1733-1742).
THEOREM LookupsAgree == Spec => []QuotedIsTraded
<1>1. ASSUME BookInv, NEW n \in DOMAIN book, NEW p \in QuoteParams,
             p.code = book[n].code, book[n].sec_market = None, QuoteRequest(p) # Invalid
      PROVE  QuoteRequest(p).security = book[n].security
    <2> DEFINE split == SplitTradeCode(p.code)
    <2>1. p.code \in Seq(Parts) \ {<<>>} /\ p.code \in Codes
        BY <1>1, Placed
    <2>2. Len(p.code) # 1 /\ QuoteRequest(p).security = split
        BY <1>1, <2>1, QuoteSecurity
    <2>3. split # Invalid /\ book[n].security = Traded(split)
        BY <1>1, <2>1, Placed, NamedSecurity
    <2>4. split.market # None
        BY <2>1, <2>2, <2>3, Split
    <2>5. QED
        BY <2>2, <2>3, <2>4 DEF Traded
<1>2. BookInv => QuotedIsTraded
    BY <1>1 DEF QuotedIsTraded
<1>3. QED
    BY <1>2, BookInvariant, PTL

\* The quantity that was checked is one of what is traded: get_max_trade_qtys and
\* place_order resolve a code and a sec_market alike (server.rs:572-624, 844-919).
THEOREM ChecksAgree == Spec => []CheckedIsTraded
<1>1. ASSUME BookInv, NEW n \in DOMAIN book, NEW p \in OrderParams,
             p.code = book[n].code, p.sec_market = book[n].sec_market,
             GetMaxTradeQtys(p) # Invalid
      PROVE  Traded(GetMaxTradeQtys(p).security) = book[n].security
    <2>1. GetMaxTradeQtys(p).security = Named(p.code, p.sec_market)
        BY <1>1 DEF GetMaxTradeQtys, Order
    <2>2. QED
        BY <1>1, <2>1, Placed
<1>2. BookInv => CheckedIsTraded
    BY <1>1 DEF CheckedIsTraded
<1>3. QED
    BY <1>2, BookInvariant, PTL

\* The filter of a call that lists one code only.
LEMMA FilterOfCode ==
    ASSUME NEW p \in ListParams, NEW code \in Codes, p.codes = {code}, p.filter_market = None,
           ListRequest(p) # Invalid
    PROVE  LET f == ListRequest(p).filter IN
           /\ f.codes = {SplitTradeCode(code).code} /\ f.market = None
           /\ f.ids \subseteq p.order_ids
<1>1. Filter(p) # Invalid /\ ListRequest(p).filter = Filter(p)
    BY DEF ListRequest
<1>2. p.order_ids = {}
    BY DEF ListParams
<1>3. ASSUME NEW q, q.codes = {code}, q.filter_market = None, BuildFilterConditions(q) # Invalid
      PROVE  /\ BuildFilterConditions(q).codes = {SplitTradeCode(code).code}
             /\ BuildFilterConditions(q).market = None
             /\ BuildFilterConditions(q).ids = q.order_ids
    <2>1. ParseNamed(q.filter_market, TrdMarketMap) = None
        BY <1>3 DEF ParseNamed
    <2>2. {SplitTradeCode(c) : c \in q.codes} = {SplitTradeCode(code)}
        BY <1>3
    <2>3. QED
        BY <1>3, <2>1, <2>2 DEF BuildFilterConditions
<1>4. p.tool # "fees"
    BY <1>1, <1>2 DEF Filter, GetOrderFee, History
<1>5. CASE p.tool = "positions"
    <2> DEFINE q == [p EXCEPT !.order_ids = {}]
    <2>1. q.codes = {code} /\ q.filter_market = None /\ q.order_ids = {}
        BY DEF ListParams
    <2>2. Filter(p) = BuildFilterConditions(q)
        BY <1>5 DEF Filter, GetPositions, History
    <2> HIDE DEF q
    <2>3. QED
        BY <1>1, <1>3, <2>1, <2>2
<1>6. CASE p.tool # "positions"
    <2>1. p.tool \in {"orders", "fills", "order history", "fill history"}
        BY <1>4, <1>6 DEF ListParams, History
    <2>2. Filter(p) \in {BuildFilterConditions(p), Invalid}
        BY <2>1 DEF Filter, History, BuildRequiredFilterConditions
    <2>3. QED
        BY <1>1, <1>3, <2>2
<1>7. QED
    BY <1>5, <1>6

\* An order is listed under the code it was placed under: place_order and the
\* filters take a code apart alike (build_filter_conditions, server.rs:1460-1494).
THEOREM ListsAgree == Spec => []PlacedIsListed
<1>1. ASSUME BookInv, NEW n \in DOMAIN book, NEW p \in ListParams,
             p.codes = {book[n].code}, p.filter_market = None,
             ListRequest(p) # Invalid, Shows(p.tool, book[n].status),
             ListRequest(p).refresh \/ n <= heard
      PROVE  n \in Listed(p)
    <2>0. /\ Len(book) \in Nat /\ DOMAIN book = 1..Len(book) /\ heard \in Nat
          /\ book[n].code \in Codes
        BY <1>1, Placed DEF BookInv, TypeOK
    <2> DEFINE r == ListRequest(p)
    <2>1. /\ r.filter.codes = {SplitTradeCode(book[n].code).code} /\ r.filter.market = None
          /\ r.filter.ids \subseteq p.order_ids
        BY <1>1, <2>0, FilterOfCode
    <2>2. p.order_ids = {}
        BY <1>1 DEF ListParams
    <2>3. book[n].security.code = SplitTradeCode(book[n].code).code
        BY <1>1, Placed, NamedSecurity
    <2>4. Matches(n, r.filter)
        BY <2>1, <2>2, <2>3 DEF Matches
    <2>5. n \in 1..(IF r.refresh THEN Len(book) ELSE heard)
        BY <1>1, <2>0
    <2> HIDE DEF r
    <2>6. QED
        BY <1>1, <2>4, <2>5 DEF Listed, r
<1>2. BookInv => PlacedIsListed
    BY <1>1 DEF PlacedIsListed
<1>3. QED
    BY <1>2, BookInvariant, PTL

=============================================================================
