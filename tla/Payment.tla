------------------------------- MODULE Payment -------------------------------
(***************************************************************************)
(* Paying for a top-up on the wallet page (web/src/features/wallet).  The   *)
(* user picks an amount and a method; the server is asked what that costs;  *)
(* the answer opens a dialog that shows what will be paid, and confirming   *)
(* it creates an order.  Answers come back in any order: one counter        *)
(* (createPaymentAmountController) tells the latest calculation, another    *)
(* (createPaymentConfirmationController) the latest selection.  The page    *)
(* below the dialog is modelled as usable: nothing here relies on the       *)
(* dialog being modal.  The dialog's Cancel button is off while an order is *)
(* created, the Escape key is not.                                          *)
(*                                                                          *)
(* Creem products are bought on the same page without an amount: a product  *)
(* opens a dialog of its own, whose hook (useCreemPayment) has a flag that  *)
(* the payment dialog does not look at, nor the other way round.            *)
(***************************************************************************)
EXTENDS Naturals, FiniteSets

CONSTANTS
  Amounts,      \* top-up amounts the user may enter, whole: an order rounds its amount down
  MinTopup,     \* getMinTopupAmount
  Methods,      \* payment methods
  Default,      \* getDefaultPaymentType
  Processors,   \* the hooks of the payment dialog that create orders
  ProcessorOf,  \* dispatchSelectedPayment: which hook serves a method
  Products,     \* Creem products
  Nil,          \* null, or the amount 0
  MaxGen,       \* bound: how far the two counters may count
  MaxOrders     \* bound: orders created

ASSUME PaymentAssumption ==
  /\ Amounts \subseteq Nat /\ MinTopup \in Amounts
  /\ Default \in Methods
  /\ ProcessorOf \in [Methods -> Processors]
  /\ MaxGen \in Nat /\ MaxOrders \in Nat
  /\ Nil \notin Products
  /\ Nil \notin Methods \cup [topup: Nat, method: Methods]
  /\ Nil \notin [topup: Nat, method: Methods, quote: [topup: Nat, method: Methods]]

VARIABLES
  ready,         \* topupAmountInitializedRef
  topup,         \* the amount in the form
  active,        \* activePaymentType
  gen,           \* generation of the confirmation controller
  latest,        \* latestRequestId of the amount controller
  calcs,         \* calculations the server has not answered
  calculating,   \* the form shows that the amount is being calculated
  amount,        \* the calculated amount in the form: what it was asked for
  loading,       \* the method whose button spins; all buttons are off
  confirmation,  \* what the dialog shows
  orders,        \* how many orders were asked for
  paying,        \* orders of the payment dialog the server has not answered
  processing,    \* per hook: its processing flag
  product,       \* selectedCreemProduct
  creemOpen,     \* creemDialogOpen
  creemPaying,   \* Creem orders the server has not answered
  creemProcessing \* the flag of useCreemPayment

formVars == <<ready, topup, active, gen, loading, confirmation>>
calcVars == <<latest, calcs, calculating, amount>>
orderVars == <<orders, paying, processing>>
creemVars == <<product, creemOpen, creemPaying, creemProcessing>>
vars == <<formVars, calcVars, orderVars, creemVars>>

Quote == [topup: Nat, method: Methods]
Confirmation == [topup: Nat, method: Methods, quote: Quote]
Calc == [id: 1..MaxGen, for: Quote, sel: 0..MaxGen]
Order == [id: 1..MaxOrders, of: Confirmation]
CreemOrder == [id: 1..MaxOrders, of: Products]

TypeOK ==
  /\ ready \in BOOLEAN
  /\ topup \in Nat
  /\ active \in Methods \cup {Nil}
  /\ gen \in 0..MaxGen /\ latest \in 0..MaxGen
  /\ calcs \subseteq Calc
  /\ calculating \in BOOLEAN
  /\ amount \in Quote \cup {Nil}
  /\ loading \in Methods \cup {Nil}
  /\ confirmation \in Confirmation \cup {Nil}
  /\ orders \in 0..MaxOrders
  /\ paying \subseteq Order
  /\ processing \in [Processors -> BOOLEAN]
  /\ product \in Products \cup {Nil}
  /\ creemOpen \in BOOLEAN /\ creemProcessing \in BOOLEAN
  /\ creemPaying \subseteq CreemOrder

Init ==
  /\ ready = FALSE
  /\ topup = 0
  /\ active = Nil
  /\ gen = 0 /\ latest = 0
  /\ calcs = {}
  /\ calculating = FALSE
  /\ amount = Nil
  /\ loading = Nil
  /\ confirmation = Nil
  /\ orders = 0
  /\ paying = {}
  /\ processing = [p \in Processors |-> FALSE]
  /\ product = Nil /\ creemOpen = FALSE
  /\ creemPaying = {} /\ creemProcessing = FALSE

-----------------------------------------------------------------------------
For(t, m) == [topup |-> t, method |-> m]

(* calculate: sel is the selection that waits for the amount, 0 if none.    *)
Calculate(t, m, sel) ==
  /\ latest < MaxGen
  /\ latest' = latest + 1
  /\ calcs' = calcs \cup {[id |-> latest + 1, for |-> For(t, m), sel |-> sel]}
  /\ calculating' = TRUE
  /\ UNCHANGED amount

Advance == gen < MaxGen /\ gen' = gen + 1

(* The top-up options are loaded: initializeAmount.                         *)
InitializeAmount ==
  /\ ~ready
  /\ ready' = TRUE
  /\ topup' = MinTopup
  /\ Advance
  /\ active' = Default
  /\ Calculate(MinTopup, Default, 0)
  /\ UNCHANGED <<loading, confirmation, orderVars, creemVars>>

(* Mutant: an open dialog survives a change of the amount.                  *)
AmountChangedUnderDialog(t) ==
  /\ ready
  /\ topup' = t
  /\ Advance
  /\ loading' = Nil
  /\ Calculate(t, active, 0)
  /\ UNCHANGED <<ready, active, confirmation, orderVars, creemVars>>

(* Mutant: the button of a selection that was overtaken goes on spinning.   *)
AmountChangedStillLoading(t) ==
  /\ ready
  /\ topup' = t
  /\ Advance
  /\ confirmation' = Nil
  /\ Calculate(t, active, 0)
  /\ UNCHANGED <<ready, active, loading, orderVars, creemVars>>

(* A preset or a typed amount: amountChanged.                               *)
AmountChanged(t) ==
  /\ ready
  /\ topup' = t
  /\ Advance
  /\ confirmation' = Nil
  /\ loading' = Nil
  /\ Calculate(t, active, 0)
  /\ UNCHANGED <<ready, active, orderVars, creemVars>>

(* A method is clicked: select, up to its await or its early return.        *)
Select(m) ==
  /\ ready /\ loading = Nil
  /\ Advance
  /\ active' = m
  /\ confirmation' = Nil
  /\ IF topup < MinTopup
       THEN UNCHANGED <<loading, calcVars>>
       ELSE loading' = m /\ Calculate(topup, m, gen + 1)
  /\ UNCHANGED <<ready, topup, orderVars, creemVars>>

(* The server answers a calculation, with an amount or with a failure.      *)
(* Only the latest calculation is used, and only the latest selection is    *)
(* continued.                                                               *)
Calculated(c, ok) ==
  /\ calcs' = calcs \ {c}
  /\ IF c.id = latest
       THEN amount' = (IF ok THEN c.for ELSE Nil) /\ calculating' = FALSE
       ELSE UNCHANGED <<amount, calculating>>
  /\ loading' = IF c.sel = gen THEN Nil ELSE loading
  /\ confirmation' = IF c.sel = gen /\ c.id = latest /\ ok
                       THEN [topup |-> c.for.topup, method |-> c.for.method, quote |-> c.for]
                       ELSE confirmation
  /\ UNCHANGED <<ready, topup, active, gen, latest, orderVars, creemVars>>

(* close and invalidate.                                                    *)
Closed ==
  /\ Advance
  /\ latest < MaxGen
  /\ latest' = latest + 1
  /\ calculating' = FALSE
  /\ confirmation' = Nil
  /\ loading' = Nil
  /\ UNCHANGED <<ready, topup, active, calcs, amount>>

(* Escape, or Cancel.                                                       *)
Close ==
  /\ confirmation # Nil
  /\ Closed
  /\ UNCHANGED <<orderVars, creemVars>>

(* Mutant: each method looks at its own hook's flag only.                   *)
OwnHookBusy == confirmation # Nil /\ processing[ProcessorOf[confirmation.method]]

Busy == \E p \in Processors: processing[p]

(* handlePaymentConfirm, up to the answer of the order.                     *)
Confirm ==
  /\ confirmation # Nil /\ ~Busy
  /\ orders < MaxOrders
  /\ orders' = orders + 1
  /\ paying' = paying \cup {[id |-> orders + 1, of |-> confirmation]}
  /\ processing' = [processing EXCEPT ![ProcessorOf[confirmation.method]] = TRUE]
  /\ UNCHANGED <<formVars, calcVars, creemVars>>

(* The order was created and the payment page opened, or it failed.         *)
Ordered(o, ok) ==
  /\ paying' = paying \ {o}
  /\ processing' = [processing EXCEPT ![ProcessorOf[o.of.method]] = FALSE]
  /\ IF ok THEN Closed ELSE UNCHANGED <<formVars, calcVars>>
  /\ UNCHANGED <<orders, creemVars>>

-----------------------------------------------------------------------------
(* A Creem product is clicked: handleCreemProductSelect.                    *)
CreemProductSelect(p) ==
  /\ ready
  /\ product' = p
  /\ creemOpen' = TRUE
  /\ UNCHANGED <<formVars, calcVars, orderVars, creemPaying, creemProcessing>>

(* Escape, or Cancel: the product stays selected.                           *)
CreemClose ==
  /\ creemOpen
  /\ creemOpen' = FALSE
  /\ UNCHANGED <<formVars, calcVars, orderVars, product, creemPaying, creemProcessing>>

(* handleCreemConfirm, up to the answer of the order.                       *)
CreemConfirm ==
  /\ creemOpen /\ product # Nil /\ ~creemProcessing
  /\ orders < MaxOrders
  /\ orders' = orders + 1
  /\ creemPaying' = creemPaying \cup {[id |-> orders + 1, of |-> product]}
  /\ creemProcessing' = TRUE
  /\ UNCHANGED <<formVars, calcVars, paying, processing, product, creemOpen>>

(* The checkout page was opened, or it failed.  A checkout closes the       *)
(* dialog, also one that was opened for another product in the meantime.    *)
CreemOrdered(o, ok) ==
  /\ creemPaying' = creemPaying \ {o}
  /\ creemProcessing' = FALSE
  /\ IF ok THEN creemOpen' = FALSE /\ product' = Nil ELSE UNCHANGED <<creemOpen, product>>
  /\ UNCHANGED <<formVars, calcVars, orderVars>>

Next ==
  \/ InitializeAmount
  \/ \E t \in Amounts: AmountChanged(t)
  \/ \E m \in Methods: Select(m)
  \/ \E c \in calcs, ok \in BOOLEAN: Calculated(c, ok)
  \/ Close
  \/ Confirm
  \/ \E o \in paying, ok \in BOOLEAN: Ordered(o, ok)
  \/ \E p \in Products: CreemProductSelect(p)
  \/ CreemClose
  \/ CreemConfirm
  \/ \E o \in creemPaying, ok \in BOOLEAN: CreemOrdered(o, ok)

(* Every request is answered, or fails.                                     *)
Fairness ==
  WF_vars(\E c \in calcs, ok \in BOOLEAN: Calculated(c, ok))

Spec == Init /\ [][Next]_vars /\ Fairness

-----------------------------------------------------------------------------
(* What the user reviews is what the page holds: the dialog's price was     *)
(* calculated for exactly its amount and method, and these are the ones of  *)
(* the form, however many answers were outstanding or came back late        *)
(* (select, amountChanged, close).                                          *)
ReviewedIsCurrent ==
  confirmation # Nil =>
    /\ confirmation.quote = For(confirmation.topup, confirmation.method)
    /\ confirmation.topup = topup
    /\ confirmation.method = active

(* While a button spins, and all of them are off, the calculation that will *)
(* release it is outstanding and still counts.                              *)
LoadingIsUnderWay ==
  loading # Nil => \E c \in calcs: c.id = latest /\ c.sel = gen /\ c.for.method = loading

(* While the form hides the amount, the calculation that will show it is    *)
(* outstanding and still counts.                                            *)
CalculatingIsUnderWay ==
  calculating => \E c \in calcs: c.id = latest

(* Each dialog creates one order at a time: the payment dialog although     *)
(* every method family has a hook and a flag of its own, both although they *)
(* can be left, and opened again, while an order is created.  The two       *)
(* dialogs do not exclude each other: a Creem order and another one may be  *)
(* under way together.                                                      *)
OneOrderPerDialog ==
  /\ \A o, p \in paying: o = p
  /\ \A o, p \in creemPaying: o = p

(* The buttons become usable again and the amount is shown.                 *)
FormSettles ==
  []<>(loading = Nil /\ ~calculating)
=============================================================================
