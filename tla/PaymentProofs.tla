--------------------------- MODULE PaymentProofs ---------------------------
(***************************************************************************)
(* What the wallet page shows is current, for any amounts, methods and      *)
(* order of answers.  The invariants of Payment are made inductive by what  *)
(* the two counters mean: no calculation is newer than the latest one, no   *)
(* two have the same number, and one that waits for the current selection   *)
(* was asked for what the form holds.                                       *)
(***************************************************************************)
EXTENDS Payment, TLAPS

CalcsAreOlder ==
  \A c \in calcs:
    /\ c.id <= latest /\ c.sel <= gen /\ gen > 0
    /\ c.sel = gen => c.for = For(topup, active)

IdsAreUnique == \A c, d \in calcs: c.id = d.id => c = d

OrdersKeepBusy == \A o \in paying: processing[ProcessorOf[o.of.method]]

CreemKeepsBusy == creemPaying # {} => creemProcessing

ReadyHasMethod == ready <=> active # Nil

PaymentInv ==
  /\ TypeOK /\ CalcsAreOlder /\ IdsAreUnique /\ OrdersKeepBusy /\ CreemKeepsBusy /\ ReadyHasMethod
  /\ ReviewedIsCurrent /\ LoadingIsUnderWay /\ CalculatingIsUnderWay /\ OneOrderPerDialog

-----------------------------------------------------------------------------
(* A new calculation is the newest one and has a number of its own.         *)
LEMMA CalculateKeeps ==
  ASSUME PaymentInv,
         NEW t \in Nat, NEW m \in Methods, NEW sel \in 0..MaxGen,
         gen < MaxGen, gen' = gen + 1, sel \in {0, gen'},
         sel = gen' => t = topup' /\ m = active',
         Calculate(t, m, sel)
  PROVE  /\ latest' \in 0..MaxGen /\ calcs' \subseteq Calc /\ calculating' \in BOOLEAN
         /\ amount' \in Quote \cup {Nil}
         /\ CalcsAreOlder' /\ IdsAreUnique' /\ CalculatingIsUnderWay'
         /\ [id |-> latest', for |-> For(t, m), sel |-> sel] \in calcs'
<1> DEFINE new == [id |-> latest + 1, for |-> For(t, m), sel |-> sel]
<1>1. new \in Calc /\ latest + 1 \in 1..MaxGen
  BY PaymentAssumption DEF PaymentInv, TypeOK, Calculate, Calc, Quote, For
<1>2. latest' = latest + 1 /\ calcs' = calcs \cup {new} /\ calculating' = TRUE /\ amount' = amount
  BY DEF Calculate
<1>3. latest' \in 0..MaxGen /\ calcs' \subseteq Calc /\ calculating' \in BOOLEAN /\ amount' \in Quote \cup {Nil}
  BY <1>1, <1>2 DEF PaymentInv, TypeOK
<1>4. \A c \in calcs: c.id \in Nat /\ c.sel \in Nat /\ c.id <= latest /\ c.sel <= gen
  BY DEF PaymentInv, TypeOK, CalcsAreOlder, Calc
<1>5. gen \in Nat /\ latest \in Nat
  BY PaymentAssumption DEF PaymentInv, TypeOK
<1>6. CalcsAreOlder'
  <2> SUFFICES ASSUME NEW c \in calcs'
               PROVE  c.id <= latest' /\ c.sel <= gen' /\ gen' > 0 /\ (c.sel = gen' => c.for = For(topup', active'))
    BY DEF CalcsAreOlder, For
  <2>1. CASE c \in calcs
    BY <2>1, <1>2, <1>4, <1>5
  <2>2. CASE c = new
    BY <2>2, <1>2, <1>5
  <2> QED  BY <2>1, <2>2, <1>2
<1>7. IdsAreUnique'
  <2> SUFFICES ASSUME NEW c \in calcs', NEW d \in calcs', c.id = d.id
               PROVE  c = d
    BY DEF IdsAreUnique
  <2>1. CASE c \in calcs /\ d \in calcs
    BY <2>1 DEF PaymentInv, IdsAreUnique
  <2>2. \A e \in calcs: e.id # new.id
    BY <1>4, <1>5
  <2> QED  BY <2>1, <2>2, <1>2
<1>8. CalculatingIsUnderWay'
  <2>1. new \in calcs' /\ new.id = latest'
    BY <1>2
  <2> QED  BY <2>1 DEF CalculatingIsUnderWay
<1> QED  BY <1>2, <1>3, <1>6, <1>7, <1>8

LEMMA PaymentInit == Init => PaymentInv
<1> SUFFICES ASSUME Init PROVE PaymentInv
  OBVIOUS
<1>1. TypeOK
  <2>1. topup \in Nat /\ gen \in 0..MaxGen /\ latest \in 0..MaxGen /\ orders \in 0..MaxOrders
    BY PaymentAssumption DEF Init
  <2>2. processing \in [Processors -> BOOLEAN]
    BY DEF Init
  <2>3. ready \in BOOLEAN /\ calculating \in BOOLEAN /\ calcs \subseteq Calc /\ paying \subseteq Order
    BY DEF Init
  <2>4. active = Nil /\ amount = Nil /\ loading = Nil /\ confirmation = Nil
    BY DEF Init
  <2>5. product = Nil /\ creemOpen \in BOOLEAN /\ creemProcessing \in BOOLEAN /\ creemPaying \subseteq CreemOrder
    BY DEF Init
  <2> QED  BY <2>1, <2>2, <2>3, <2>4, <2>5 DEF TypeOK
<1>2. CalcsAreOlder /\ IdsAreUnique /\ OrdersKeepBusy /\ CreemKeepsBusy /\ ReadyHasMethod
  BY DEF Init, CalcsAreOlder, IdsAreUnique, OrdersKeepBusy, CreemKeepsBusy, ReadyHasMethod
<1>3. ReviewedIsCurrent /\ LoadingIsUnderWay /\ CalculatingIsUnderWay /\ OneOrderPerDialog
  BY DEF Init, ReviewedIsCurrent, LoadingIsUnderWay, CalculatingIsUnderWay, OneOrderPerDialog
<1> QED  BY <1>1, <1>2, <1>3 DEF PaymentInv

LEMMA CreemUnchanged ==
  PaymentInv /\ UNCHANGED creemVars
    => /\ product' \in Products \cup {Nil} /\ creemOpen' \in BOOLEAN /\ creemProcessing' \in BOOLEAN
       /\ creemPaying' \subseteq CreemOrder /\ CreemKeepsBusy'
       /\ \A o, p \in creemPaying': o = p
BY DEF PaymentInv, TypeOK, CreemKeepsBusy, OneOrderPerDialog, creemVars

LEMMA PaymentOrdersUnchanged ==
  PaymentInv /\ UNCHANGED <<orderVars, creemVars>>
    => /\ OrdersKeepBusy' /\ OneOrderPerDialog' /\ orders' \in 0..MaxOrders /\ paying' \subseteq Order
       /\ processing' \in [Processors -> BOOLEAN]
       /\ product' \in Products \cup {Nil} /\ creemOpen' \in BOOLEAN /\ creemProcessing' \in BOOLEAN
       /\ creemPaying' \subseteq CreemOrder /\ CreemKeepsBusy'
BY DEF PaymentInv, TypeOK, OrdersKeepBusy, CreemKeepsBusy, OneOrderPerDialog, orderVars, creemVars

(* Before the options are loaded nothing is shown or selected.              *)
LEMMA NothingBeforeReady == PaymentInv /\ ~ready => confirmation = Nil /\ loading = Nil
<1> SUFFICES ASSUME PaymentInv, ~ready PROVE confirmation = Nil /\ loading = Nil
  OBVIOUS
<1>1. active = Nil /\ Nil \notin Methods
  BY PaymentAssumption DEF PaymentInv, ReadyHasMethod
<1>2. confirmation = Nil
  BY <1>1 DEF PaymentInv, TypeOK, Confirmation, ReviewedIsCurrent
<1>3. loading = Nil
  <2> SUFFICES ASSUME loading # Nil PROVE FALSE
    OBVIOUS
  <2>1. PICK c \in calcs: c.sel = gen
    BY DEF PaymentInv, LoadingIsUnderWay
  <2>2. c.for = For(topup, active) /\ c.for \in Quote
    BY <2>1 DEF PaymentInv, CalcsAreOlder, TypeOK, Calc
  <2> QED  BY <1>1, <2>2 DEF For, Quote
<1> QED  BY <1>2, <1>3

LEMMA InitializeAmountKeeps == PaymentInv /\ InitializeAmount => PaymentInv'
<1> SUFFICES ASSUME PaymentInv, InitializeAmount PROVE PaymentInv'
  OBVIOUS
<1> USE DEF InitializeAmount
<1>1. MinTopup \in Nat /\ Default \in Methods /\ 0 \in 0..MaxGen /\ gen \in 0..MaxGen
  BY PaymentAssumption DEF PaymentInv, TypeOK
<1>2. /\ latest' \in 0..MaxGen /\ calcs' \subseteq Calc /\ calculating' \in BOOLEAN /\ amount' \in Quote \cup {Nil}
      /\ CalcsAreOlder' /\ IdsAreUnique' /\ CalculatingIsUnderWay'
  BY <1>1, CalculateKeeps DEF Advance
<1>3. confirmation' = Nil /\ loading' = Nil
  BY NothingBeforeReady
<1>4. TypeOK' /\ ReadyHasMethod' /\ ReviewedIsCurrent' /\ LoadingIsUnderWay'
  BY <1>1, <1>2, <1>3, PaymentOrdersUnchanged, PaymentAssumption
  DEF TypeOK, Advance, ReadyHasMethod, ReviewedIsCurrent, LoadingIsUnderWay
<1> QED  BY <1>2, <1>4, PaymentOrdersUnchanged DEF PaymentInv

LEMMA AmountChangedKeeps ==
  ASSUME PaymentInv, NEW t \in Amounts, AmountChanged(t)
  PROVE  PaymentInv'
<1> USE DEF AmountChanged
<1>1. t \in Nat /\ active \in Methods /\ active # Nil /\ 0 \in 0..MaxGen /\ gen \in 0..MaxGen
  BY PaymentAssumption DEF PaymentInv, TypeOK, ReadyHasMethod
<1>2. /\ latest' \in 0..MaxGen /\ calcs' \subseteq Calc /\ calculating' \in BOOLEAN /\ amount' \in Quote \cup {Nil}
      /\ CalcsAreOlder' /\ IdsAreUnique' /\ CalculatingIsUnderWay'
  BY <1>1, CalculateKeeps DEF Advance
<1>3. TypeOK' /\ ReadyHasMethod' /\ ReviewedIsCurrent' /\ LoadingIsUnderWay'
  BY <1>1, <1>2, PaymentOrdersUnchanged, PaymentAssumption
  DEF TypeOK, Advance, ReadyHasMethod, ReviewedIsCurrent, LoadingIsUnderWay
<1> QED  BY <1>2, <1>3, PaymentOrdersUnchanged DEF PaymentInv

LEMMA SelectKeeps ==
  ASSUME PaymentInv, NEW m \in Methods, Select(m)
  PROVE  PaymentInv'
<1> USE DEF Select
<1>1. topup \in Nat /\ gen + 1 \in 0..MaxGen /\ gen \in 0..MaxGen /\ Nil \notin Methods /\ gen' = gen + 1
  BY PaymentAssumption DEF PaymentInv, TypeOK, Advance
<1>2. CASE topup < MinTopup
  <2>1. UNCHANGED calcVars /\ loading' = Nil
    BY <1>2
  <2>2. TypeOK' /\ ReadyHasMethod' /\ ReviewedIsCurrent' /\ LoadingIsUnderWay' /\ CalculatingIsUnderWay'
    BY <1>1, <2>1, PaymentOrdersUnchanged
    DEF PaymentInv, TypeOK, ReadyHasMethod, ReviewedIsCurrent, LoadingIsUnderWay, CalculatingIsUnderWay, calcVars
  <2>3. CalcsAreOlder' /\ IdsAreUnique'
    BY <1>1, <2>1 DEF PaymentInv, TypeOK, Calc, CalcsAreOlder, IdsAreUnique, calcVars
  <2> QED  BY <2>2, <2>3, PaymentOrdersUnchanged DEF PaymentInv
<1>3. CASE ~(topup < MinTopup)
  <2>0. loading' = m /\ Calculate(topup, m, gen + 1)
    BY <1>3
  <2>1. /\ latest' \in 0..MaxGen /\ calcs' \subseteq Calc /\ calculating' \in BOOLEAN /\ amount' \in Quote \cup {Nil}
        /\ CalcsAreOlder' /\ IdsAreUnique' /\ CalculatingIsUnderWay'
        /\ [id |-> latest', for |-> For(topup, m), sel |-> gen + 1] \in calcs'
    BY <1>1, <2>0, CalculateKeeps DEF Advance
  <2>2. TypeOK' /\ ReadyHasMethod' /\ ReviewedIsCurrent'
    BY <1>1, <2>0, <2>1, PaymentOrdersUnchanged DEF PaymentInv, TypeOK, ReadyHasMethod, ReviewedIsCurrent
  <2>3. LoadingIsUnderWay'
    <3> DEFINE new == [id |-> latest', for |-> For(topup, m), sel |-> gen + 1]
    <3>1. new \in calcs' /\ new.id = latest' /\ new.sel = gen' /\ new.for.method = loading'
      BY <1>1, <2>0, <2>1 DEF For
    <3> QED  BY <3>1 DEF LoadingIsUnderWay
  <2> QED  BY <2>1, <2>2, <2>3, PaymentOrdersUnchanged DEF PaymentInv
<1> QED  BY <1>2, <1>3

LEMMA CalculatedKeeps ==
  ASSUME PaymentInv, NEW c \in calcs, NEW ok \in BOOLEAN, Calculated(c, ok)
  PROVE  PaymentInv'
<1> USE DEF Calculated
<1>1. c \in Calc /\ c.for \in Quote /\ (c.sel = gen => c.for = For(topup, active))
  BY DEF PaymentInv, TypeOK, CalcsAreOlder, Calc
<1>2. c.for.topup \in Nat /\ c.for.method \in Methods /\ c.for = For(c.for.topup, c.for.method)
  BY <1>1 DEF Quote, For
<1>3. TypeOK'
  <2>1. amount' \in Quote \cup {Nil} /\ calculating' \in BOOLEAN /\ loading' \in Methods \cup {Nil}
    BY <1>1 DEF PaymentInv, TypeOK
  <2>2. confirmation' \in Confirmation \cup {Nil}
    BY <1>1, <1>2 DEF PaymentInv, TypeOK, Confirmation
  <2> QED  BY <2>1, <2>2, PaymentOrdersUnchanged DEF PaymentInv, TypeOK
<1>4. CalcsAreOlder' /\ IdsAreUnique' /\ ReadyHasMethod'
  BY DEF PaymentInv, CalcsAreOlder, IdsAreUnique, ReadyHasMethod, For
<1>5. ReviewedIsCurrent'
  <2>1. CASE c.sel = gen /\ c.id = latest /\ ok
    BY <2>1, <1>1, <1>2 DEF ReviewedIsCurrent, For
  <2>2. CASE ~(c.sel = gen /\ c.id = latest /\ ok)
    BY <2>2 DEF PaymentInv, ReviewedIsCurrent, For
  <2> QED  BY <2>1, <2>2
<1>6. LoadingIsUnderWay'
  <2> SUFFICES ASSUME loading' # Nil
               PROVE  \E d \in calcs': d.id = latest' /\ d.sel = gen' /\ d.for.method = loading'
    BY DEF LoadingIsUnderWay
  <2>1. c.sel # gen /\ loading' = loading
    OBVIOUS
  <2>2. PICK d \in calcs: d.id = latest /\ d.sel = gen /\ d.for.method = loading
    BY <2>1 DEF PaymentInv, LoadingIsUnderWay
  <2> QED  BY <2>1, <2>2
<1>7. CalculatingIsUnderWay'
  <2> SUFFICES ASSUME calculating' PROVE \E d \in calcs': d.id = latest'
    BY DEF CalculatingIsUnderWay
  <2>1. c.id # latest /\ calculating
    OBVIOUS
  <2>2. PICK d \in calcs: d.id = latest
    BY <2>1 DEF PaymentInv, CalculatingIsUnderWay
  <2> QED  BY <2>1, <2>2
<1> QED  BY <1>3, <1>4, <1>5, <1>6, <1>7, PaymentOrdersUnchanged DEF PaymentInv

(* close leaves nothing that an earlier answer could still fill.            *)
LEMMA ClosedKeeps ==
  ASSUME PaymentInv, Closed
  PROVE  /\ ready' \in BOOLEAN /\ topup' \in Nat /\ active' \in Methods \cup {Nil}
         /\ gen' \in 0..MaxGen /\ latest' \in 0..MaxGen /\ calcs' \subseteq Calc /\ calculating' \in BOOLEAN
         /\ amount' \in Quote \cup {Nil} /\ loading' \in Methods \cup {Nil} /\ confirmation' \in Confirmation \cup {Nil}
         /\ CalcsAreOlder' /\ IdsAreUnique' /\ ReadyHasMethod'
         /\ ReviewedIsCurrent' /\ LoadingIsUnderWay' /\ CalculatingIsUnderWay'
<1> USE DEF Closed, Advance
<1>1. gen \in Nat /\ latest \in Nat /\ MaxGen \in Nat
  BY PaymentAssumption DEF PaymentInv, TypeOK
<1>2. CalcsAreOlder'
  BY <1>1 DEF PaymentInv, TypeOK, Calc, CalcsAreOlder
<1>3. IdsAreUnique' /\ ReadyHasMethod' /\ ReviewedIsCurrent' /\ LoadingIsUnderWay' /\ CalculatingIsUnderWay'
  BY DEF PaymentInv, IdsAreUnique, ReadyHasMethod, ReviewedIsCurrent, LoadingIsUnderWay, CalculatingIsUnderWay
<1>4. gen' \in 0..MaxGen /\ latest' \in 0..MaxGen
  BY <1>1
<1>5. ready' \in BOOLEAN /\ topup' \in Nat /\ active' \in Methods \cup {Nil} /\ calcs' \subseteq Calc
      /\ amount' \in Quote \cup {Nil}
  BY DEF PaymentInv, TypeOK
<1>6. calculating' \in BOOLEAN /\ loading' \in Methods \cup {Nil} /\ confirmation' \in Confirmation \cup {Nil}
  OBVIOUS
<1> QED  BY <1>2, <1>3, <1>4, <1>5, <1>6

LEMMA CloseKeeps == PaymentInv /\ Close => PaymentInv'
BY ClosedKeeps, PaymentOrdersUnchanged DEF Close, PaymentInv, TypeOK

LEMMA FormUnchanged ==
  PaymentInv /\ UNCHANGED <<formVars, calcVars>>
    => /\ ready' \in BOOLEAN /\ topup' \in Nat /\ active' \in Methods \cup {Nil}
       /\ gen' \in 0..MaxGen /\ latest' \in 0..MaxGen /\ calcs' \subseteq Calc /\ calculating' \in BOOLEAN
       /\ amount' \in Quote \cup {Nil} /\ loading' \in Methods \cup {Nil} /\ confirmation' \in Confirmation \cup {Nil}
       /\ CalcsAreOlder' /\ IdsAreUnique' /\ ReadyHasMethod'
       /\ ReviewedIsCurrent' /\ LoadingIsUnderWay' /\ CalculatingIsUnderWay'
BY DEF PaymentInv, TypeOK, CalcsAreOlder, IdsAreUnique, ReadyHasMethod, ReviewedIsCurrent, LoadingIsUnderWay,
       CalculatingIsUnderWay, formVars, calcVars, For

LEMMA ConfirmKeeps == PaymentInv /\ Confirm => PaymentInv'
<1> SUFFICES ASSUME PaymentInv, Confirm PROVE PaymentInv'
  OBVIOUS
<1> USE DEF Confirm
<1>1. confirmation \in Confirmation /\ confirmation.method \in Methods
      /\ ProcessorOf[confirmation.method] \in Processors
  BY PaymentAssumption DEF PaymentInv, TypeOK, Confirmation
<1>2. paying = {}
  <2> SUFFICES ASSUME NEW o \in paying PROVE FALSE
    OBVIOUS
  <2>1. ProcessorOf[o.of.method] \in Processors
    BY PaymentAssumption DEF PaymentInv, TypeOK, Order, Confirmation
  <2> QED  BY <2>1 DEF PaymentInv, OrdersKeepBusy, Busy
<1> DEFINE o == [id |-> orders + 1, of |-> confirmation]
<1>3. o \in Order /\ orders' \in 0..MaxOrders
  BY <1>1, PaymentAssumption DEF PaymentInv, TypeOK, Order
<1>4. paying' = {o}
  BY <1>2
<1>5. processing' \in [Processors -> BOOLEAN] /\ processing'[ProcessorOf[confirmation.method]] = TRUE
  BY <1>1 DEF PaymentInv, TypeOK
<1>6. OrdersKeepBusy' /\ OneOrderPerDialog'
  BY <1>4, <1>5, CreemUnchanged DEF OrdersKeepBusy, OneOrderPerDialog
<1> QED  BY <1>3, <1>4, <1>5, <1>6, FormUnchanged, CreemUnchanged DEF PaymentInv, TypeOK

LEMMA OrderedKeeps ==
  ASSUME PaymentInv, NEW o \in paying, NEW ok \in BOOLEAN, Ordered(o, ok)
  PROVE  PaymentInv'
<1> USE DEF Ordered
<1>1. paying' = {}
  BY DEF PaymentInv, OneOrderPerDialog
<1>2. OrdersKeepBusy' /\ OneOrderPerDialog' /\ orders' \in 0..MaxOrders /\ paying' \subseteq Order
      /\ processing' \in [Processors -> BOOLEAN]
  BY <1>1, CreemUnchanged DEF PaymentInv, TypeOK, OrdersKeepBusy, OneOrderPerDialog
<1>3. CASE ok
  BY <1>2, <1>3, ClosedKeeps, CreemUnchanged DEF PaymentInv, TypeOK
<1>4. CASE ~ok
  BY <1>2, <1>4, FormUnchanged, CreemUnchanged DEF PaymentInv, TypeOK
<1> QED  BY <1>3, <1>4

(* Selecting a product, leaving its dialog, ordering it and the answer.     *)
LEMMA CreemKeeps ==
  ASSUME PaymentInv,
         \/ \E p \in Products: CreemProductSelect(p)
         \/ CreemClose
         \/ CreemConfirm
         \/ \E o \in creemPaying, ok \in BOOLEAN: CreemOrdered(o, ok)
  PROVE  PaymentInv'
<1>1. UNCHANGED <<formVars, calcVars, paying, processing>>
  BY DEF CreemProductSelect, CreemClose, CreemConfirm, CreemOrdered, orderVars
<1>2. OrdersKeepBusy' /\ paying' \subseteq Order /\ processing' \in [Processors -> BOOLEAN]
      /\ \A o, p \in paying': o = p
  BY <1>1 DEF PaymentInv, TypeOK, OrdersKeepBusy, OneOrderPerDialog
<1>3. /\ orders' \in 0..MaxOrders
      /\ product' \in Products \cup {Nil} /\ creemOpen' \in BOOLEAN /\ creemProcessing' \in BOOLEAN
      /\ creemPaying' \subseteq CreemOrder /\ CreemKeepsBusy'
      /\ \A o, p \in creemPaying': o = p
  <2> USE DEF PaymentInv, TypeOK, CreemKeepsBusy, OneOrderPerDialog
  <2>1. CASE \E p \in Products: CreemProductSelect(p)
    BY <2>1 DEF CreemProductSelect, orderVars
  <2>2. CASE CreemClose
    BY <2>2 DEF CreemClose, orderVars
  <2>3. CASE CreemConfirm
    <3> DEFINE new == [id |-> orders + 1, of |-> product]
    <3>1. new \in CreemOrder /\ orders' \in 0..MaxOrders
      BY <2>3, PaymentAssumption DEF CreemConfirm, CreemOrder
    <3>2. creemPaying' = {new}
      BY <2>3 DEF CreemConfirm
    <3> QED  BY <2>3, <3>1, <3>2 DEF CreemConfirm
  <2>4. CASE \E o \in creemPaying, ok \in BOOLEAN: CreemOrdered(o, ok)
    BY <2>4 DEF CreemOrdered, orderVars
  <2> QED  BY <2>1, <2>2, <2>3, <2>4
<1> QED  BY <1>1, <1>2, <1>3, FormUnchanged DEF PaymentInv, TypeOK, OneOrderPerDialog

-----------------------------------------------------------------------------
(* The inductive invariant holds in every reachable state.                  *)
THEOREM PaymentInvariant == Spec => []PaymentInv
<1>1. PaymentInv /\ [Next]_vars => PaymentInv'
  <2> SUFFICES ASSUME PaymentInv, [Next]_vars PROVE PaymentInv'
    OBVIOUS
  <2>1. CASE InitializeAmount
    BY <2>1, InitializeAmountKeeps
  <2>2. CASE \E t \in Amounts: AmountChanged(t)
    BY <2>2, AmountChangedKeeps
  <2>3. CASE \E m \in Methods: Select(m)
    BY <2>3, SelectKeeps
  <2>4. CASE \E c \in calcs, ok \in BOOLEAN: Calculated(c, ok)
    BY <2>4, CalculatedKeeps
  <2>5. CASE Close
    BY <2>5, CloseKeeps
  <2>6. CASE Confirm
    BY <2>6, ConfirmKeeps
  <2>7. CASE \E o \in paying, ok \in BOOLEAN: Ordered(o, ok)
    BY <2>7, OrderedKeeps
  <2>8. CASE \/ \E p \in Products: CreemProductSelect(p)
             \/ CreemClose
             \/ CreemConfirm
             \/ \E o \in creemPaying, ok \in BOOLEAN: CreemOrdered(o, ok)
    BY <2>8, CreemKeeps
  <2>9. CASE UNCHANGED vars
    BY <2>9, FormUnchanged, PaymentOrdersUnchanged DEF PaymentInv, TypeOK, vars
  <2> QED  BY <2>1, <2>2, <2>3, <2>4, <2>5, <2>6, <2>7, <2>8, <2>9 DEF Next
<1> QED  BY PaymentInit, <1>1, PTL DEF Spec

(* Type correctness of the wallet page's payment state.                     *)
THEOREM PaymentTypes == Spec => []TypeOK
<1>1. PaymentInv => TypeOK
  BY DEF PaymentInv
<1> QED  BY PaymentInvariant, <1>1, PTL

(* The dialog never shows a price that was calculated for another amount or *)
(* method than its own and the form's (select, amountChanged, close).       *)
THEOREM ReviewIsCurrent == Spec => []ReviewedIsCurrent
<1>1. PaymentInv => ReviewedIsCurrent
  BY DEF PaymentInv
<1> QED  BY PaymentInvariant, <1>1, PTL

(* A disabled button or a hidden amount always has an answer to wait for.   *)
THEOREM WaitsAreUnderWay == Spec => []LoadingIsUnderWay /\ []CalculatingIsUnderWay
<1>1. PaymentInv => LoadingIsUnderWay /\ CalculatingIsUnderWay
  BY DEF PaymentInv
<1> QED  BY PaymentInvariant, <1>1, PTL

(* Neither dialog ever has two orders under way: the payment dialog over    *)
(* all of its hooks (handlePaymentConfirm), the Creem dialog with its own   *)
(* (handleCreemConfirm).                                                    *)
THEOREM OrdersOneByOne == Spec => []OneOrderPerDialog
<1>1. PaymentInv => OneOrderPerDialog
  BY DEF PaymentInv
<1> QED  BY PaymentInvariant, <1>1, PTL
=============================================================================
