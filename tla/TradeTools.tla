------------------------------ MODULE TradeTools ------------------------------
(***************************************************************************)
(* The quote and trade tools of src/src/server.rs around an order: how the *)
(* parameters of a call become a request, or an error, and what OpenD then *)
(* does to its orders.  Each tool builds its request by itself, and a      *)
(* caller relies on their agreeing: it looks a symbol up, checks a         *)
(* quantity, places, lists and cancels by the same names.                  *)
(*                                                                         *)
(* Abstracted: a code is the sequence of its parts between dots, trimmed   *)
(* and in capitals; all calls are for one account, so that its header is   *)
(* one of the parameters that are only parsed and passed on, which are     *)
(* together `others`, that parses or does not; connections are             *)
(* MoomooClient's, so that here a request reaches OpenD.                   *)
(***************************************************************************)
EXTENDS Naturals, Sequences, FiniteSets

CONSTANTS
    None,       \* an optional parameter that is omitted
    Invalid,    \* a value that does not parse, and the request it spoils
    Codes,      \* the codes callers use
    Names,      \* the names they use for a market
    Adjust,     \* the price adjustments they ask for: [price, limit]
    Home,       \* the market of the account
    MaxOrders   \* bound on the orders ever placed

ASSUME AdjustAssumption == Adjust \subseteq [price : {None, TRUE, FALSE}, limit : {None, "up"}]
ASSUME OrdersAssumption == MaxOrders \in Nat

\* What stands between the dots of the codes; a code has one part at least.
Parts == UNION {{c[i] : i \in DOMAIN c} : c \in Codes}

ASSUME CodesAssumption == Codes \subseteq Seq(Parts) \ {<<>>}

VARIABLES
    book,       \* the orders at the broker, in the order they were placed
    heard       \* how many of them OpenD has heard of

vars == <<book, heard>>

-----------------------------------------------------------------------------
\* Names and codes

\* Without the markets of funds and futures.
TrdMarketMap == {"UNKNOWN", "HK", "US", "CN", "HKCC", "SG", "AU", "JP", "MY", "CA"}

TrdSecMarketMap == {"HK", "US", "CN_SH", "CN_SZ", "SG", "JP", "AU", "MY", "CA", "FX"}

TradeDateMarketMap == {"HK", "US", "CN", "NT", "ST", "JP_FUTURE", "SG_FUTURE"}

\* What an order may be for.
Securities == [market : TrdSecMarketMap, code : Seq(Parts)]

ASSUME HomeAssumption == Home \in TrdSecMarketMap
ASSUME NoneAssumption == None \notin Codes \cup Parts \cup TrdSecMarketMap
ASSUME InvalidAssumption ==
    Invalid \notin {None} \cup TrdSecMarketMap \cup Securities \cup [market : {None}, code : Seq(Parts)]

ParseNamed(value, names) ==
    IF value = None THEN None ELSE IF value \in names THEN value ELSE Invalid

\* A prefix as a quote market, for build_security.
QotMarket(prefix) ==
    CASE prefix \in {"SH", "CNSH", "CN_SH"} -> "CN_SH"
      [] prefix \in {"SZ", "CNSZ", "CN_SZ"} -> "CN_SZ"
      [] OTHER -> ParseNamed(prefix, TrdSecMarketMap \ {"CN_SH", "CN_SZ"})

\* Mutant: Shenzhen taken for Shanghai.
SecMarketShanghai(prefix) ==
    IF prefix \in {"SH", "CNSH", "CN_SH", "SZ", "CNSZ", "CN_SZ"} THEN "CN_SH"
    ELSE ParseNamed(prefix, TrdSecMarketMap)

\* A prefix as the market of an order, for split_trade_code.
SecMarket(prefix) ==
    CASE prefix \in {"SH", "CNSH", "CN_SH"} -> "CN_SH"
      [] prefix \in {"SZ", "CNSZ", "CN_SZ"} -> "CN_SZ"
      [] OTHER -> ParseNamed(prefix, TrdSecMarketMap \ {"CN_SH", "CN_SZ"})

Security(market, code) ==
    IF market = Invalid THEN Invalid ELSE [market |-> market, code |-> code]

\* Quote tools insist on a prefix.
BuildSecurity(code) ==
    IF Len(code) = 1 THEN Invalid ELSE Security(QotMarket(Head(code)), Tail(code))

\* Trade tools take whatever stands before the first dot for the prefix.
SplitTradeCode(code) ==
    IF Len(code) = 1 THEN Security(None, code)
    ELSE Security(SecMarket(Head(code)), Tail(code))

\* sec_market, where it is given, wins over the prefix.
Named(code, sec_market) ==
    LET split == SplitTradeCode(code)
        market == ParseNamed(sec_market, TrdSecMarketMap) IN
    IF split = Invalid \/ market = Invalid THEN Invalid
    ELSE [split EXCEPT !.market = IF market = None THEN @ ELSE market]

-----------------------------------------------------------------------------
\* What a tool makes of its parameters

\* Quotes, snapshots, candles; the trade calendar; static information.
QuoteParams ==
    [tool : {"quote", "calendar", "static"}, code : Codes \cup {None},
     market : Names \cup {None}, others : BOOLEAN]

ResolveTradeDateMarket(p) ==
    IF p.market # None \/ p.code = None THEN ParseNamed(p.market, TradeDateMarketMap)
    ELSE CASE QotMarket(Head(p.code)) \in {"CN_SH", "CN_SZ"} -> "CN"
           [] Head(p.code) \in {"HK", "US"} -> Head(p.code)
           [] OTHER -> Invalid

Ask(p, market, security) ==
    IF p.others /\ Invalid \notin {market, security}
    THEN [market |-> market, security |-> security] ELSE Invalid

\* get_basic_quote, get_security_snapshot, get_history_kl.
GetQuotes(p) == IF p.code = None THEN Invalid ELSE Ask(p, None, BuildSecurity(p.code))

GetTradeDates(p) ==
    IF p.code = None /\ p.market = None THEN Invalid
    ELSE Ask(p, ResolveTradeDateMarket(p), IF p.code = None THEN None ELSE BuildSecurity(p.code))

\* With codes, the market is ignored.
GetStaticInfo(p) ==
    IF p.code # None THEN Ask(p, None, BuildSecurity(p.code))
    ELSE IF p.market # None THEN Ask(p, QotMarket(p.market), None) ELSE Invalid

QuoteRequest(p) ==
    CASE p.tool = "quote" -> GetQuotes(p)
      [] p.tool = "calendar" -> GetTradeDates(p)
      [] p.tool = "static" -> GetStaticInfo(p)

\* What a caller says of an order when it checks or places it.
OrderParams ==
    [code : Codes, sec_market : Names \cup {None}, adjust : Adjust, others : BOOLEAN]

ValidateAdjustPricePair(adjust) == adjust.price # FALSE \/ adjust.limit = None

ResolveAdjustPriceFlag(adjust) ==
    IF adjust.price = None /\ adjust.limit # None THEN TRUE ELSE adjust.price

Order(p, security, adjust) ==
    IF p.others /\ security # Invalid THEN [security |-> security, adjust |-> adjust] ELSE Invalid

\* `others` includes validate_order_identity.
GetMaxTradeQtys(p) ==
    IF ValidateAdjustPricePair(p.adjust)
    THEN Order(p, Named(p.code, p.sec_market),
               [p.adjust EXCEPT !.price = ResolveAdjustPriceFlag(p.adjust)])
    ELSE Invalid

\* Mutant: the prefix wins over sec_market.
PlaceOrderByPrefix(p) ==
    Order(p, IF Len(p.code) > 1 THEN SplitTradeCode(p.code) ELSE Named(p.code, p.sec_market),
          p.adjust)

PlaceOrder(p) == Order(p, Named(p.code, p.sec_market), p.adjust)

\* order_id and order_id_ex number an order alike here; one id is of no order.
Ids == {None} \cup 1..(MaxOrders + 1)

ModifyParams ==
    [order_id : Ids, order_id_ex : Ids, for_all : {None, TRUE, FALSE},
     op : {"NORMAL", "CANCEL"}, target_market : Names \cup {None}, adjust : Adjust, others : BOOLEAN]

ModifyRequest(p, for_all) ==
    LET target == ParseNamed(p.target_market, TrdMarketMap) IN
    IF p.others /\ target # Invalid
    THEN [order_id |-> IF p.order_id = None THEN 0 ELSE p.order_id, order_id_ex |-> p.order_id_ex,
          for_all |-> for_all, op |-> p.op, target |-> target, adjust |-> p.adjust]
    ELSE Invalid

ModifyOrder(p) ==
    IF p.order_id # None \/ p.order_id_ex # None \/ p.for_all = TRUE
    THEN ModifyRequest(p, p.for_all) ELSE Invalid

\* The tools that list.  Those of the day read what OpenD has cached unless told
\* to refresh it; those of the past ask the broker and need both times.
History == {"order history", "fill history"}

ListParams ==
    {p \in [tool : {"positions", "orders", "fills", "fees"} \cup History,
            codes : {{c} : c \in Codes} \cup {{}}, order_ids : {{n} : n \in 1..MaxOrders} \cup {{}},
            filter_market : Names \cup {None}, times : {"blank", "days"},
            refresh_cache : BOOLEAN, others : BOOLEAN] :
       /\ p.codes = {} \/ p.order_ids = {}
       /\ p.tool \in History \/ p.times = "days"}

\* Mutant: the codes are passed on with their prefix.
FilterKeepsPrefix(p) ==
    LET market == ParseNamed(p.filter_market, TrdMarketMap) IN
    IF market = Invalid THEN Invalid
    ELSE [codes |-> p.codes, ids |-> p.order_ids, market |-> market]

\* build_filter_conditions: the raw codes alone; all parts empty filter nothing.
BuildFilterConditions(p) ==
    LET split == {SplitTradeCode(c) : c \in p.codes}
        market == ParseNamed(p.filter_market, TrdMarketMap) IN
    IF Invalid \in split \/ market = Invalid THEN Invalid
    ELSE [codes |-> {s.code : s \in split}, ids |-> p.order_ids, market |-> market]

BuildRequiredFilterConditions(p) ==
    IF p.times = "days" THEN BuildFilterConditions(p) ELSE Invalid

\* A position has no order ids to filter by; fees are asked for by nothing else.
GetPositions(p) == BuildFilterConditions([p EXCEPT !.order_ids = {}])

GetOrderFee(p) ==
    IF p.order_ids = {} THEN Invalid
    ELSE [codes |-> {}, ids |-> p.order_ids, market |-> None]

Filter(p) ==
    CASE p.tool = "fees" -> GetOrderFee(p)
      [] p.tool = "positions" -> GetPositions(p)
      [] p.tool \in {"orders", "fills"} -> BuildFilterConditions(p)
      [] p.tool \in History -> BuildRequiredFilterConditions(p)

ListRequest(p) ==
    IF p.others /\ Filter(p) # Invalid
    THEN [filter |-> Filter(p), refresh |-> p.refresh_cache \/ p.tool \in History \cup {"fees"}]
    ELSE Invalid

-----------------------------------------------------------------------------
\* OpenD (external)

\* Where an order goes: to the market of the account if it names none.
Traded(security) ==
    IF security.market # None THEN security ELSE [security EXCEPT !.market = Home]

TrdMarketOf(market) == IF market \in {"CN_SH", "CN_SZ"} THEN "CN" ELSE market

Matches(n, filter) ==
    /\ filter.codes = {} \/ book[n].security.code \in filter.codes
    /\ filter.ids = {} \/ n \in filter.ids
    /\ filter.market \in {None, TrdMarketOf(book[n].security.market)}

\* Positions and fills come of filled orders.
Shows(tool, status) == tool \in {"positions", "fills", "fill history"} => status = "filled"

Listed(p) ==
    LET r == ListRequest(p) IN
    {n \in 1..(IF r.refresh THEN Len(book) ELSE heard) :
        Matches(n, r.filter) /\ Shows(p.tool, book[n].status)}

\* The sets of orders OpenD may carry a modification out on: by either id.
Targets(r) ==
    LET live == {n \in DOMAIN book : book[n].status = "live"} IN
    IF r.for_all = TRUE
    THEN {{n \in live : /\ r.op = "CANCEL"
                        /\ r.target \in {None, TrdMarketOf(book[n].security.market)}}}
    ELSE {live \cap {n} : n \in {r.order_id, r.order_id_ex} \ {0, None}}

Modified(order, r) ==
    IF r.op = "CANCEL" THEN [order EXCEPT !.status = "cancelled"]
    ELSE [order EXCEPT !.adjust = r.adjust]

Fill(n) ==
    /\ book[n].status = "live"
    /\ book' = [book EXCEPT ![n].status = "filled"]
    /\ UNCHANGED heard

Hear == heard < Len(book) /\ heard' = Len(book) /\ UNCHANGED book

-----------------------------------------------------------------------------
\* The tools; one that checks or looks up changes nothing

Init == book = <<>> /\ heard = 0

Place(p) ==
    LET r == PlaceOrder(p) IN
    /\ r # Invalid /\ Len(book) < MaxOrders
    /\ book' = Append(book, [security |-> Traded(r.security), adjust |-> r.adjust,
                             code |-> p.code, sec_market |-> p.sec_market, status |-> "live"])
    /\ UNCHANGED heard

Modify(p) ==
    LET r == ModifyOrder(p) IN
    /\ r # Invalid
    /\ \E ns \in Targets(r) :
         book' = [n \in DOMAIN book |-> IF n \in ns THEN Modified(book[n], r) ELSE book[n]]
    /\ UNCHANGED heard

\* A refresh is the one thing that a call that lists leaves behind.
List(p) ==
    LET r == ListRequest(p) IN
    /\ r # Invalid
    /\ heard' = IF r.refresh THEN Len(book) ELSE heard
    /\ UNCHANGED book

Next ==
    \/ \E p \in OrderParams : Place(p)
    \/ \E p \in ModifyParams : Modify(p)
    \/ \E p \in ListParams : List(p)
    \/ \E n \in DOMAIN book : Fill(n)
    \/ Hear

Spec == Init /\ [][Next]_vars

-----------------------------------------------------------------------------
\* Properties

TypeOK ==
    /\ book \in Seq([security : Securities, adjust : Adjust,
                     code : Codes, sec_market : Names \cup {None},
                     status : {"live", "filled", "cancelled"}])
    /\ heard \in 0..Len(book)

\* What the properties below rest on: an order trades the security that the code and the
\* sec_market it was placed under name, and modifications leave it alone.
BookInv ==
    /\ TypeOK
    /\ \A n \in DOMAIN book :
         /\ Named(book[n].code, book[n].sec_market) # Invalid
         /\ book[n].security = Traded(Named(book[n].code, book[n].sec_market))

\* Quote tools and trade tools mean the same security by one qualified code, and
\* OpenD looks at that security in all three quote tools: what a caller looks up
\* is what it trades.
QuotedIsTraded ==
    \A n \in DOMAIN book, p \in QuoteParams :
        p.code = book[n].code /\ book[n].sec_market = None /\ QuoteRequest(p) # Invalid
        => QuoteRequest(p).security = book[n].security

\* get_max_trade_qtys and place_order name the same security for the same code and
\* sec_market, qualified, raw or overridden, so that the quantity that was checked
\* is one of what is traded.
CheckedIsTraded ==
    \A n \in DOMAIN book, p \in OrderParams :
        /\ p.code = book[n].code /\ p.sec_market = book[n].sec_market
        /\ GetMaxTradeQtys(p) # Invalid
        => Traded(GetMaxTradeQtys(p).security) = book[n].security

\* An order, and its fills, are listed under the code the order was placed under,
\* by every tool that lists them and takes the call, once OpenD's data is fresh:
\* place_order and the filters take a code apart in the same way.
PlacedIsListed ==
    \A n \in DOMAIN book, p \in ListParams :
        /\ p.codes = {book[n].code} /\ p.order_ids \subseteq {n} /\ p.filter_market = None
        /\ ListRequest(p) # Invalid /\ Shows(p.tool, book[n].status)
        /\ ListRequest(p).refresh \/ n <= heard
        => n \in Listed(p)

=============================================================================
