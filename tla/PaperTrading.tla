---------------------------- MODULE PaperTrading ----------------------------
(***************************************************************************)
(* Paper trading: trading/paper_broker.py with trading/order_simulator.py, *)
(* trading/trade_manager.py with risk/engine.py, the two kill switches of  *)
(* risk/kill_switch.py, the handlers of api/paper_trading.py and the       *)
(* paper_trade_strategy automation of main.py, over the tables portfolios  *)
(* and paper_orders.                                                       *)
(*                                                                         *)
(* Every operation reads the whole portfolio, waits for quotes, and saves  *)
(* its whole copy back.  Nothing orders two of them, and the process may   *)
(* go down between any two statements.                                     *)
(***************************************************************************)
EXTENDS Integers, FiniteSets

CONSTANTS
    Clients,        \* bound: operations under way at a time
    Ops,            \* the operations that are asked for
    Types,          \* of the orders asked for: market, limit, stop
    Symbols,
    Prices,         \* what a quote may say
    Quantities,     \* what an order may ask for
    Start,          \* RiskRules.starting_cash
    Charge,         \* slippage and fees of a fill, by symbol unit
    MaxOpen,        \* RiskRules.max_open_positions
    MaxBooks,       \* bound: portfolios created
    MaxOrders       \* bound: orders made

Trades == {"direct", "propose", "auto"}

ASSUME PaperAssumption ==
    /\ IsFiniteSet(Symbols) /\ IsFiniteSet(Prices) /\ IsFiniteSet(Quantities)
    /\ Ops \subseteq Trades \cup {"close", "cancel", "pause", "recheck"}
    /\ Types \subseteq {"market", "limit", "stop"}
    /\ Prices # {} /\ Prices \cup Quantities \subseteq Nat \ {0}
    /\ {Start, Charge, MaxOpen, MaxBooks, MaxOrders} \subseteq Nat
    /\ \A p \in Prices : Charge <= p

VARIABLES
    portfolios,     \* the table portfolios
    newest,         \* the portfolio saved last
    orders,         \* the table paper_orders
    made,           \* how many orders there have been, saved or not
    client,         \* the operations: where each is, its copy of the portfolio
    triggered,      \* RiskKillSwitch._active
    fills           \* history: what was ever applied to a copy for an order

vars == <<portfolios, newest, orders, made, client, triggered, fills>>

Books == 1..MaxBooks
Book == [cash : Nat, held : [Symbols -> Nat]]
NoBook == 0

\* A market order asks for no price; `checked` says that it did not pass the risk rules by.
AnyPrice == CHOOSE p \in Prices : TRUE
Order == [book : Books, side : {"buy", "sell"}, symbol : Symbols, quantity : Nat \ {0},
          type : {"market", "limit", "stop"}, price : Prices, checked : BOOLEAN]
Unsaved == "unsaved"
Status == {Unsaved, "pending", "filled", "cancelled", "rejected"}
Row == [order : Order, status : Status]

\* One fill of an order: what it does to the cash and to the holding of its symbol.
Fill == [order : 1..MaxOrders, cash : Int, symbol : Symbols, units : Int]

Points == {"idle", "create", "quote", "save", "list", "sweep"}
Empty == [cash |-> 0, held |-> [s \in Symbols |-> 0]]
Idle == [op |-> "none", at |-> "idle", book |-> NoBook, copy |-> Empty,
         order |-> 0, status |-> Unsaved, todo |-> {}, dirty |-> FALSE]

Init ==
    /\ portfolios = [b \in Books |-> {}]
    /\ newest = NoBook
    /\ orders = <<>>
    /\ made = 0
    /\ client = [c \in Clients |-> Idle]
    /\ triggered = FALSE
    /\ fills = {}

\* Cash and holdings are never negative and every order and copy is of the kind the code
\* means it to be: no copy that is saved late can bring an overdrawn portfolio about
\* (_apply_fill's two rejections).
TypeOK ==
    /\ \A b \in Books : portfolios[b] \subseteq Book /\ Cardinality(portfolios[b]) <= 1
    /\ newest \in Books \cup {NoBook}
    /\ DOMAIN orders = 1..made
    /\ \A o \in 1..made : orders[o] \in Row
    /\ made \in 0..MaxOrders
    /\ \A c \in Clients :
        /\ client[c].at \in Points
        /\ client[c].copy \in Book
        /\ client[c].order \in 0..made
        /\ client[c].todo \subseteq 1..made
    /\ triggered \in BOOLEAN
    /\ fills \subseteq Fill

Held(book) == {s \in Symbols : book.held[s] > 0}
Pending(b) == {o \in 1..made : orders[o].order.book = b /\ orders[o].status = "pending"}

\* portfolio_store.save: the upsert makes this the portfolio that is found from now on.
SavePortfolio(b, copy) ==
    /\ portfolios' = [portfolios EXCEPT ![b] = {copy}]
    /\ newest' = b

------------------------------------------------------------------------------
(* An order.                                                                *)

\* Mutant: the projection counts the symbol that is new as one that is held.
AllowsOneMore(copy, symbol) == Cardinality(Held(copy)) <= MaxOpen

\* RiskEngine.evaluate, as far as the number of positions and the switch go; the limits on
\* exposure may refuse anything else.
Allows(copy, symbol) ==
    /\ ~triggered
    /\ Cardinality(Held(copy)) <= MaxOpen
    /\ Cardinality(Held(copy) \cup {symbol}) <= MaxOpen

\* calculate_position_size: what the risk allows, cut to what the cash could pay at the
\* entry price.  A proposal of nothing raises in place_order.
Sized(copy, price) == {q \in Quantities : q * price <= copy.cash}

NewOrder(c, op, copy, order) ==
    /\ made < MaxOrders
    /\ made' = made + 1
    /\ orders' = [o \in 1..(made + 1) |-> IF o <= made THEN orders[o]
                                          ELSE [order |-> order, status |-> Unsaved]]
    /\ client' = [client EXCEPT ![c] = [@ EXCEPT !.op = op, !.at = "quote", !.book = order.book,
                                                 !.copy = copy, !.order = made + 1]]

\* POST /orders: any order the user asks for, without a look at the risk.
Direct(c, op, b, copy) ==
    \E side \in {"buy", "sell"}, symbol \in Symbols, q \in Quantities, type \in Types, price \in Prices :
        /\ type = "market" => price = AnyPrice
        /\ NewOrder(c, op, copy, [book |-> b, side |-> side, symbol |-> symbol, quantity |-> q,
                                  type |-> type, price |-> price, checked |-> FALSE])

\* propose with approval: a market order of the size and direction of the setup.
Propose(c, op, b, copy) ==
    \E side \in {"buy", "sell"}, symbol \in Symbols, entry \in Prices :
        /\ op = "auto" => side = "buy"
        /\ Allows(copy, symbol)
        /\ \E q \in Sized(copy, entry) :
            NewOrder(c, op, copy, [book |-> b, side |-> side, symbol |-> symbol, quantity |-> q,
                                  type |-> "market", price |-> AnyPrice, checked |-> TRUE])

\* Rejected by the risk, left to be approved, or without a size: nothing is kept.
Declined(c) ==
    /\ client' = [client EXCEPT ![c] = Idle]
    /\ UNCHANGED <<made, orders>>

Decide(c, op, b, copy) ==
    IF op = "direct" THEN Direct(c, op, b, copy)
    ELSE Propose(c, op, b, copy) \/ Declined(c)

------------------------------------------------------------------------------
(* Every operation but a cancellation begins with get_or_create_portfolio, and goes on with  *)
(* what it found without another wait.                                                      *)

Goes(c, op, b, copy) ==
    \/ op \in Trades /\ Decide(c, op, b, copy)
    \/ /\ op \notin Trades
       /\ client' = [client EXCEPT ![c] =
            CASE op = "close"   -> [Idle EXCEPT !.op = op, !.at = "sweep", !.book = b, !.copy = copy]
              [] op = "recheck" -> [Idle EXCEPT !.op = op, !.at = "list", !.book = b, !.copy = copy]
              [] op = "pause"   -> [Idle EXCEPT !.op = op, !.at = "list", !.book = b]]
       /\ UNCHANGED <<made, orders>>

GetPortfolio(c) ==
    /\ client[c].at = "idle"
    /\ \E op \in Ops \ {"cancel"} :
        IF newest = NoBook
        THEN /\ client' = [client EXCEPT ![c] = [Idle EXCEPT !.op = op, !.at = "create"]]
             /\ UNCHANGED <<made, orders>>
        ELSE \E found \in portfolios[newest] : Goes(c, op, newest, found)
    /\ UNCHANGED <<portfolios, newest, triggered, fills>>

\* Two that found none create two.
CreatePortfolio(c) ==
    LET opening == [Empty EXCEPT !.cash = Start] IN
    /\ client[c].at = "create"
    /\ \E b \in Books :
        /\ portfolios[b] = {}
        /\ \A d \in Books : d < b => portfolios[d] # {}
        /\ SavePortfolio(b, opening)
        /\ Goes(c, client[c].op, b, opening)
    /\ UNCHANGED <<triggered, fills>>

\* The automation looks at its quote first: stale data trips the switch and ends its run.
StaleData ==
    /\ "auto" \in Ops
    /\ triggered' = TRUE
    /\ UNCHANGED <<portfolios, newest, orders, made, client, fills>>

------------------------------------------------------------------------------
(* A fill.                                                                  *)

\* OrderSimulator.try_fill.
Fillable(o, quote) ==
    \/ o.type = "market"
    \/ o.type = "limit" /\ IF o.side = "buy" THEN quote <= o.price ELSE quote >= o.price
    \/ o.type = "stop" /\ IF o.side = "buy" THEN quote >= o.price ELSE quote <= o.price

\* _apply_slippage and the fees: a buyer pays them on top, a seller gets less.
Worth(o, quote) == IF o.side = "buy" THEN o.quantity * (quote + Charge)
                   ELSE o.quantity * (quote - Charge)

\* Mutant: the fees are not counted.
CoveredWithoutFees(copy, o, quote) ==
    IF o.side = "buy" THEN copy.cash >= o.quantity * quote ELSE copy.held[o.symbol] >= o.quantity

\* The two rejections of _apply_fill.
Covered(copy, o, quote) ==
    IF o.side = "buy" THEN copy.cash >= Worth(o, quote) ELSE copy.held[o.symbol] >= o.quantity

FillOf(n, o, quote) ==
    [order |-> n, symbol |-> o.symbol,
     cash  |-> IF o.side = "buy" THEN -Worth(o, quote) ELSE Worth(o, quote),
     units |-> IF o.side = "buy" THEN o.quantity ELSE -o.quantity]

Applied(copy, f) ==
    [cash |-> copy.cash + f.cash, held |-> [copy.held EXCEPT ![f.symbol] = @ + f.units]]

\* try_fill and _apply_fill on a copy: the copy, what was applied, and the order's status.
Outcome(copy, n, quote) ==
    LET o == orders[n].order IN
    IF ~Fillable(o, quote) THEN [copy |-> copy, fill |-> {}, status |-> "pending"]
    ELSE IF ~Covered(copy, o, quote) THEN [copy |-> copy, fill |-> {}, status |-> "rejected"]
    ELSE LET f == FillOf(n, o, quote) IN
         [copy |-> Applied(copy, f), fill |-> {f}, status |-> "filled"]

\* place_order: the quote arrives; an order that triggered has the copy saved, be it that it
\* was rejected.
Quote(c) ==
    /\ client[c].at = "quote"
    /\ \E quote \in Prices :
        LET x == Outcome(client[c].copy, client[c].order, quote) IN
        /\ IF x.status = "pending" THEN UNCHANGED <<portfolios, newest>>
           ELSE SavePortfolio(client[c].book, x.copy)
        /\ fills' = fills \cup x.fill
        /\ client' = [client EXCEPT ![c].at = "save", ![c].status = x.status,
                        ![c].copy = IF client[c].op = "close" THEN x.copy ELSE Empty]
    /\ UNCHANGED <<orders, made, triggered>>

\* order_store.save.  An operation on one order ends with it.
SaveOrder(c) ==
    /\ client[c].at = "save"
    /\ orders' = [orders EXCEPT ![client[c].order].status = client[c].status]
    /\ client' = [client EXCEPT ![c] = IF client[c].op \in Trades \cup {"cancel"} THEN Idle
                                       ELSE [@ EXCEPT !.at = "sweep", !.status = Unsaved]]
    /\ UNCHANGED <<portfolios, newest, made, triggered, fills>>

------------------------------------------------------------------------------
(* The operations on many orders.                                           *)

\* close_simulated_positions: a market order for the whole of each position of the copy.
Close(c) ==
    /\ client[c].op = "close"
    /\ \E s \in Held(client[c].copy) :
        NewOrder(c, "close", client[c].copy,
                 [book |-> client[c].book, side |-> "sell", symbol |-> s,
                  quantity |-> client[c].copy.held[s], type |-> "market", price |-> AnyPrice,
                  checked |-> TRUE])
    /\ UNCHANGED <<portfolios, newest, fills>>

\* Mutant: whatever was saved is listed.
ListAll(b) == {o \in 1..made : orders[o].order.book = b /\ orders[o].status # Unsaved}

\* cancel_pending and recheck_pending list the pending orders of the portfolio.
Listed(b) == Pending(b)

List(c) ==
    /\ client[c].at = "list"
    /\ client' = [client EXCEPT ![c].at = "sweep", ![c].todo = Listed(client[c].book)]
    /\ UNCHANGED <<portfolios, newest, orders, made, triggered, fills>>

\* The loops over what was listed, on to the next order.
Passed(c, n) == [client[c] EXCEPT !.todo = @ \ {n}]

\* recheck_pending: a fresh quote for the next order, its fill on the copy; what did not
\* trigger is left.
Recheck(c) ==
    /\ client[c].op = "recheck"
    /\ \E n \in client[c].todo, quote \in Prices :
        LET x == Outcome(client[c].copy, n, quote) IN
        /\ fills' = fills \cup x.fill
        /\ client' = [client EXCEPT ![c] =
                IF x.status = "pending" THEN Passed(c, n)
                ELSE [Passed(c, n) EXCEPT !.at = "save", !.order = n, !.copy = x.copy,
                                          !.status = x.status, !.dirty = TRUE]]
    /\ UNCHANGED <<portfolios, newest, orders, made>>

\* cancel_order reads the order; one that is settled raises, which ends the operation.
Check(c, n) ==
    client' = [client EXCEPT ![c] =
        IF orders[n].status # "pending" THEN Idle
        ELSE [Passed(c, n) EXCEPT !.at = "save", !.order = n, !.status = "cancelled"]]

Pause(c) ==
    /\ client[c].op = "pause"
    /\ \E n \in client[c].todo : Check(c, n)
    /\ UNCHANGED <<portfolios, newest, orders, made, fills>>

\* The end: a recheck that filled something saves its copy.
Finish(c) ==
    /\ client[c].todo = {}
    /\ client[c].op = "close" => Held(client[c].copy) = {}
    /\ IF client[c].dirty THEN SavePortfolio(client[c].book, client[c].copy)
       ELSE UNCHANGED <<portfolios, newest>>
    /\ client' = [client EXCEPT ![c] = Idle]
    /\ UNCHANGED <<orders, made, fills>>

Sweep(c) ==
    /\ client[c].at = "sweep"
    /\ Close(c) \/ Recheck(c) \/ Pause(c) \/ Finish(c)
    /\ UNCHANGED triggered

\* POST /orders/{id}/cancel.
Cancel(c) ==
    /\ "cancel" \in Ops
    /\ client[c].at = "idle"
    /\ \E n \in 1..made :
        /\ orders[n].status = "pending"
        /\ client' = [client EXCEPT ![c] = [Idle EXCEPT !.op = "cancel", !.at = "save",
                                                       !.order = n, !.status = "cancelled"]]
    /\ UNCHANGED <<portfolios, newest, orders, made, triggered, fills>>

Restart ==
    /\ client' = [c \in Clients |-> Idle]
    /\ triggered' = FALSE
    /\ UNCHANGED <<portfolios, newest, orders, made, fills>>

Next ==
    \/ \E c \in Clients :
        \/ GetPortfolio(c) \/ CreatePortfolio(c)
        \/ Quote(c) \/ SaveOrder(c)
        \/ List(c) \/ Sweep(c) \/ Cancel(c)
    \/ StaleData
    \/ Restart

Spec == Init /\ [][Next]_vars

------------------------------------------------------------------------------
(* What paper trading promises.                                             *)

\* What the fills of a set come to, order by order: a portfolio is explained by fills of which no
\* two are of one order.
Sum(amount) == LET sum[n \in 0..MaxOrders] == IF n = 0 THEN 0 ELSE sum[n - 1] + amount[n]
               IN  sum[MaxOrders]
FillIn(S, n) == CHOOSE f \in S : f.order = n
Cash(S) == [n \in 1..MaxOrders |-> IF \E f \in S : f.order = n THEN FillIn(S, n).cash ELSE 0]
Units(S, s) == [n \in 1..MaxOrders |->
    IF (\E f \in S : f.order = n) /\ FillIn(S, n).symbol = s THEN FillIn(S, n).units ELSE 0]

Explains(book, S) ==
    /\ \A f, g \in S : f.order = g.order => f = g
    /\ book.cash = Start + Sum(Cash(S))
    /\ \A s \in Symbols : book.held[s] = Sum(Units(S, s))

\* Every portfolio is what it started with and the fills of some of its orders, each counted
\* once: copies saved late, rechecks side by side, cancellations and restarts may lose a
\* fill, never make money or holdings up, and never count an order twice (place_order,
\* recheck_pending).
SoundBooks ==
    \A b \in Books : \A book \in portfolios[b] :
        \E S \in SUBSET {f \in fills : orders[f.order].order.book = b} : Explains(book, S)

\* No portfolio has more positions than the risk rules allow, unless an order that passes
\* them by was filled: the check is made on the copy that is saved, so that proposals that
\* overlap cannot add up to more (evaluate, propose).
PositionLimit ==
    \A b \in Books : \A book \in portfolios[b] :
        \/ Cardinality(Held(book)) <= MaxOpen
        \/ \E f \in fills : orders[f.order].order.book = b /\ ~orders[f.order].order.checked

\* An order that is filled, cancelled or rejected never comes to be pending again, and rests
\* as it is once nobody is left who read it while it was pending: no sweep takes it up
\* (cancel_order, recheck_pending, cancel_pending).
Settled(n) == orders[n].status \in {"filled", "cancelled", "rejected"}
Knows(c, n) == n \in client[c].todo \/ (client[c].at = "save" /\ client[c].order = n)
SettledRests ==
    [][\A n \in 1..made : Settled(n) =>
        /\ orders'[n].status # "pending"
        /\ (\A c \in Clients : ~Knows(c, n)) =>
              orders'[n] = orders[n] /\ \A c \in Clients : ~Knows(c, n)'
      ]_vars
==============================================================================
