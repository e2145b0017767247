------------------------ MODULE MultiKeyDialogProofs ------------------------
(***************************************************************************)
(* What the key dialog shows and does belongs to the opening it was started *)
(* in, for any channels and filters and however many openings, loads and    *)
(* actions follow each other.                                               *)
(***************************************************************************)
EXTENDS MultiKeyDialog, TLAPS

(* The current session is the newest one and belongs to the last effect;    *)
(* the current request is the newest one and is made in it.  A closed       *)
(* dialog whose effect has run has no session.                              *)
CoordInv ==
  /\ session # Nil => session.gen = sgen /\ owner = session /\ request # Nil
  /\ request # Nil => request.session = session /\ request.gen = rgen /\ view.req = request
  /\ live = Nil /\ ~effect => session = Nil

(* What is outstanding is no newer than the counters.                       *)
AgeInv ==
  /\ \A l \in loads: l.req.gen <= rgen
  /\ \A a \in acts: a.list.gen <= rgen /\ a.session.gen <= sgen /\ a.id <= actCount

(* A request is loaded once: a list that is shown, or that failed, is not   *)
(* on its way any more.                                                     *)
LoadInv ==
  /\ \A l, m \in loads: l.req = m.req => l = m
  /\ view.status \in {"ready", "error"} => \A l \in loads: l.req # view.req

(* What is outstanding for the current request was asked for under the      *)
(* filter of the dialog.                                                    *)
FilterInv ==
  live # Nil /\ request # Nil =>
    /\ view.filter = filter
    /\ \A l \in loads: l.req = request => l.filter = filter
    /\ \A a \in acts: a.list = request => a.filter = filter

(* The second dialog stands over the list it was opened from.               *)
ConfirmInv ==
  confirm # Nil =>
    /\ view.status = "ready" /\ view.req # Nil
    /\ confirm.list = view.req /\ confirm.session = view.req.session

(* An action of the current session keeps the flag set.                     *)
ActsInv == \A a \in acts: a.session = session => performing = a.session

DialogInv ==
  /\ TypeOK /\ CoordInv /\ AgeInv /\ LoadInv /\ FilterInv /\ ConfirmInv /\ ActsInv
  /\ OneActionPerOpening

-----------------------------------------------------------------------------
LEMMA NilIsNothing == Nil \notin Session /\ Nil \notin Request /\ Nil \notin Entities
<1>1. Session \subseteq [entity: Entities, gen: Nat]
  BY DialogAssumption DEF Session
<1>2. Request \subseteq [session: [entity: Entities, gen: Nat], gen: Nat]
  BY <1>1, DialogAssumption DEF Request
<1> QED BY <1>1, <1>2, DialogAssumption

(* A view that owns its request shows the current one.                      *)
LEMMA OwnsIsCurrent ==
  ASSUME DialogInv, Owns
  PROVE  /\ view.req = request /\ request # Nil /\ view.req.session = session
         /\ session # Nil /\ live = session.entity
BY NilIsNothing DEF DialogInv, CoordInv, Owns, OwnsRequest, OwnerCurrent, IsCurrentRequest, IsCurrentSession,
                    TypeOK, DialogTypeOK, Request

(* A second dialog that exists is visible whenever the dialog below is.     *)
LEMMA NoHiddenConfirm ==
  ASSUME DialogInv, Owns, ~VisibleConfirm
  PROVE  confirm = Nil
BY DEF DialogInv, ConfirmInv, Owns, Ready, VisibleConfirm, OwnsRequest, OwnsSession, IsCurrentRequest

(* A new request takes over: what is outstanding for the ones before does   *)
(* not count any more.                                                      *)
LEMMA ReloadKeeps ==
  ASSUME DialogInv, NEW f \in Filters, session # Nil, StartRequest(session), Loading(request', f),
         filter' = f, UNCHANGED <<live, effect, owner, actCount>>, confirm' = Nil,
         performing' \in Session \cup {Nil}, acts' \subseteq acts,
         \A a \in acts': a.session = session => performing' = a.session
  PROVE  DialogInv'
<1> USE DEF DialogInv
<1> DEFINE r == [session |-> session, gen |-> rgen + 1]
<1>1. /\ rgen' = rgen + 1 /\ request' = r /\ UNCHANGED <<sgen, session>>
      /\ rgen \in 0..MaxGen /\ rgen < MaxGen /\ MaxGen \in Nat
      /\ loads' = loads \cup {[req |-> r, filter |-> f]}
      /\ view' = [status |-> "loading", req |-> r, filter |-> f]
  BY DialogAssumption DEF StartRequest, NewRequest, Loading, TypeOK, DialogTypeOK
<1>2. session \in Session /\ r \in Request /\ rgen + 1 \in 1..MaxGen /\ r # Nil
  BY <1>1, NilIsNothing DEF TypeOK, DialogTypeOK, Request
<1>3. /\ \A l \in loads: l.req.gen <= rgen /\ l.req \in Request /\ l.req.gen \in Nat /\ l.req # r
      /\ \A a \in acts: a.list.gen <= rgen /\ a.list \in Request /\ a.list.gen \in Nat /\ a.list # r
  BY <1>1 DEF AgeInv, TypeOK, Request
<1>4. TypeOK' BY <1>1, <1>2 DEF TypeOK, DialogTypeOK
<1>5. CoordInv' BY <1>1, <1>2 DEF CoordInv
<1>6. AgeInv' BY <1>1, <1>3 DEF AgeInv
<1>7. LoadInv' BY <1>1, <1>3 DEF LoadInv
<1>8. FilterInv' BY <1>1, <1>3 DEF FilterInv
<1>9. ConfirmInv' BY DEF ConfirmInv
<1>10. ActsInv' BY <1>1 DEF ActsInv
<1>11. OneActionPerOpening' BY DEF OneActionPerOpening
<1> QED BY <1>4, <1>5, <1>6, <1>7, <1>8, <1>9, <1>10, <1>11

(* The handlers that reload the list.                                       *)
LEMMA LoadKeyStatusKeeps ==
  ASSUME DialogInv, NEW f \in Filters, Owns, ~VisibleConfirm, LoadKeyStatus(f), filter' = f,
         UNCHANGED <<live, effect, owner, confirm, performing, acts, actCount>>
  PROVE  DialogInv'
<1>1. view.req.session = session /\ session # Nil BY OwnsIsCurrent
<1>2. confirm' = Nil BY NoHiddenConfirm
<1>3. StartRequest(session) /\ Loading(request', f) BY <1>1 DEF LoadKeyStatus
<1>4. performing' \in Session \cup {Nil} /\ \A a \in acts': a.session = session => performing' = a.session
  BY DEF DialogInv, TypeOK, ActsInv
<1> QED BY <1>1, <1>2, <1>3, <1>4, ReloadKeeps

(* The effect closes the session before and may open one that has a number  *)
(* of its own.                                                              *)
LEMMA RunEffectKeeps ==
  ASSUME DialogInv, RunEffect
  PROVE  DialogInv'
<1> USE DEF DialogInv
<1>0. /\ sgen \in 0..MaxGen /\ rgen \in 0..MaxGen /\ MaxGen \in Nat /\ All \in Filters
      /\ \A a \in acts: a.session \in Session /\ a.session.gen \in Nat /\ a.session.gen <= sgen
                        /\ a.list \in Request /\ a.list.gen \in Nat /\ a.list.gen <= rgen
      /\ \A l \in loads: l.req \in Request /\ l.req.gen \in Nat /\ l.req.gen <= rgen
  BY DialogAssumption, MultiKeyAssumption DEF TypeOK, DialogTypeOK, AgeInv, Session, Request
<1>1. CASE live = Nil
  <2>1. session' = Nil /\ request' = Nil /\ rgen' = rgen /\ sgen' \in {sgen, sgen + 1} /\ sgen' \in 0..MaxGen
    <3>1. CASE session = Nil
      <4>1. request = Nil BY <3>1, NilIsNothing DEF CoordInv, TypeOK, DialogTypeOK, Request
      <4> QED BY <1>0, <1>1, <3>1, <4>1 DEF RunEffect, CloseSession, IsCurrentSession, coordVars
    <3>2. CASE session # Nil
      BY <1>0, <1>1, <3>2 DEF RunEffect, CloseSession, IsCurrentSession, CoordInv
    <3> QED BY <3>1, <3>2
  <2>2. /\ effect' = FALSE /\ owner' = Nil /\ view' = NoView /\ filter' = All /\ confirm' = Nil
        /\ performing' = Nil /\ UNCHANGED <<live, acts, actCount, loads>>
    BY <1>1 DEF RunEffect
  <2>3. TypeOK' BY <1>0, <2>1, <2>2 DEF TypeOK, DialogTypeOK, NoView
  <2>4. CoordInv' BY <2>1 DEF CoordInv
  <2>5. AgeInv' BY <1>0, <2>1, <2>2 DEF AgeInv
  <2>6. LoadInv' BY <2>2 DEF LoadInv, NoView
  <2>7. FilterInv' BY <2>1 DEF FilterInv
  <2>8. ConfirmInv' BY <2>2 DEF ConfirmInv
  <2>9. ActsInv' BY <1>0, <2>1, <2>2, NilIsNothing DEF ActsInv
  <2>10. OneActionPerOpening' BY <2>2 DEF OneActionPerOpening
  <2> QED BY <2>3, <2>4, <2>5, <2>6, <2>7, <2>8, <2>9, <2>10
<1>2. CASE live # Nil
  <2> DEFINE used == IF owner # Nil /\ IsCurrentSession(owner) THEN sgen + 1 ELSE sgen
             s == [entity |-> live, gen |-> used + 1]
             r == [session |-> s, gen |-> rgen + 1]
  <2>1. /\ used < MaxGen /\ rgen < MaxGen
        /\ sgen' = used + 1 /\ rgen' = rgen + 1 /\ session' = s /\ request' = r
        /\ owner' = s /\ effect' = FALSE
        /\ loads' = loads \cup {[req |-> r, filter |-> All]}
        /\ view' = [status |-> "loading", req |-> r, filter |-> All]
        /\ filter' = All /\ confirm' = Nil /\ performing' = Nil /\ UNCHANGED <<live, acts, actCount>>
    BY <1>2 DEF RunEffect, OpenAndRequest, NewRequest, Loading
  <2>2. used \in {sgen, sgen + 1} OBVIOUS
  <2> HIDE DEF used
  <2>3. used + 1 \in 1..MaxGen /\ rgen + 1 \in 1..MaxGen BY <1>0, <2>1, <2>2
  <2>4. s \in Session /\ r \in Request /\ s # Nil /\ r # Nil
    BY <1>2, <2>3, NilIsNothing DEF Session, Request, TypeOK, DialogTypeOK
  <2>5. /\ \A a \in acts: a.session # s /\ a.list # r /\ a.session.gen <= used + 1
        /\ \A l \in loads: l.req # r
    BY <1>0, <2>2
  <2>6. TypeOK'
    <3> HIDE DEF s, r
    <3>1. sgen' \in 0..MaxGen /\ rgen' \in 0..MaxGen BY <1>0, <2>1, <2>3
    <3>2. loads' \subseteq [req: Request, filter: Filters] BY <1>0, <2>1, <2>4 DEF TypeOK
    <3>3. view' \in [status: {"idle", "loading", "ready", "error"}, req: Request \cup {Nil}, filter: Filters]
      BY <1>0, <2>1, <2>4
    <3>4. DialogTypeOK' BY <2>1, <2>4, <3>1 DEF TypeOK, DialogTypeOK
    <3> QED BY <1>0, <2>1, <3>2, <3>3, <3>4 DEF TypeOK
  <2>7. CoordInv' BY <1>2, <2>1, <2>4 DEF CoordInv
  <2>8. AgeInv' BY <1>0, <2>1, <2>5 DEF AgeInv
  <2>9. LoadInv' BY <2>1, <2>5 DEF LoadInv
  <2>10. FilterInv' BY <2>1, <2>5 DEF FilterInv
  <2>11. ConfirmInv' BY <2>1 DEF ConfirmInv
  <2>12. ActsInv' BY <2>1, <2>5 DEF ActsInv
  <2>13. OneActionPerOpening' BY <2>1 DEF OneActionPerOpening
  <2> QED BY <2>6, <2>7, <2>8, <2>9, <2>10, <2>11, <2>12, <2>13
<1> QED BY <1>1, <1>2

(* handleClose closes the session itself, the effect that follows finds it  *)
(* closed.                                                                  *)
LEMMA HandleCloseKeeps ==
  ASSUME DialogInv, HandleClose
  PROVE  DialogInv'
<1> USE DEF DialogInv
<1>0. /\ sgen \in 0..MaxGen /\ rgen \in 0..MaxGen /\ MaxGen \in Nat /\ All \in Filters
      /\ \A a \in acts: a.session \in Session /\ a.session.gen \in Nat /\ a.session.gen <= sgen
  BY DialogAssumption, MultiKeyAssumption DEF TypeOK, DialogTypeOK, AgeInv, Session
<1>1. session' = Nil /\ request' = Nil /\ rgen' = rgen /\ sgen' \in {sgen, sgen + 1} /\ sgen' \in 0..MaxGen
  <2>1. CASE session = Nil
    <3>1. request = Nil BY <2>1, NilIsNothing DEF CoordInv, TypeOK, DialogTypeOK, Request
    <3>2. view.req # Nil => view.req.session # Nil BY NilIsNothing DEF TypeOK, Request
    <3> QED BY <1>0, <2>1, <3>1, <3>2 DEF HandleClose, CloseSession, IsCurrentSession, coordVars
  <2>2. CASE session # Nil
    <3>1. view.req # Nil /\ view.req.session = session /\ session.gen = sgen BY <2>2 DEF CoordInv
    <3> QED BY <1>0, <2>2, <3>1 DEF HandleClose, CloseSession, IsCurrentSession
  <2> QED BY <2>1, <2>2
<1>2. /\ effect' = TRUE /\ live' = Nil /\ view' = NoView /\ filter' = All /\ confirm' = Nil
      /\ performing' = Nil /\ UNCHANGED <<owner, acts, actCount, loads>>
  BY DEF HandleClose
<1>3. TypeOK' BY <1>0, <1>1, <1>2 DEF TypeOK, DialogTypeOK, NoView
<1>4. CoordInv' BY <1>1 DEF CoordInv
<1>5. AgeInv' BY <1>0, <1>1, <1>2 DEF AgeInv
<1>6. LoadInv' BY <1>2 DEF LoadInv, NoView
<1>7. FilterInv' BY <1>1 DEF FilterInv
<1>8. ConfirmInv' BY <1>2 DEF ConfirmInv
<1>9. ActsInv' BY <1>0, <1>1, <1>2, NilIsNothing DEF ActsInv
<1>10. OneActionPerOpening' BY <1>2 DEF OneActionPerOpening
<1> QED BY <1>3, <1>4, <1>5, <1>6, <1>7, <1>8, <1>9, <1>10

(* An answered load counts when its request is the current one, which is    *)
(* the one the view waits for.                                              *)
LEMMA LoadAnsweredKeeps ==
  ASSUME DialogInv, NEW l \in loads, NEW ok \in BOOLEAN, LoadAnswered(l, ok)
  PROVE  DialogInv'
<1> USE DEF DialogInv
<1>0. /\ UNCHANGED <<live, effect, owner, sgen, rgen, session, request, filter, confirm, performing, acts, actCount>>
      /\ loads' = loads \ {l}
  BY DEF LoadAnswered, dialogVars, coordVars
<1>1. CASE OwnsRequest(l.req)
  <2> DEFINE st == IF ok THEN "ready" ELSE "error"
  <2>1. view' = [status |-> st, req |-> l.req, filter |-> l.filter] BY <1>1 DEF LoadAnswered
  <2>2. st \in {"ready", "error"} OBVIOUS
  <2> HIDE DEF st
  <2>3. l.req = request /\ request # Nil /\ view.req = request
    BY <1>1 DEF OwnsRequest, IsCurrentRequest, CoordInv
  <2>4. l.req \in Request /\ l.filter \in Filters BY DEF TypeOK
  <2>5. live # Nil /\ l.filter = filter
    <3>1. live # Nil
      BY <1>1, <2>4, NilIsNothing DEF OwnsRequest, OwnerCurrent, Request, Session
    <3> QED BY <2>3, <3>1 DEF FilterInv
  <2>6. confirm = Nil BY <2>3 DEF LoadInv, ConfirmInv
  <2>7. TypeOK' BY <1>0, <2>1, <2>2, <2>4 DEF TypeOK, DialogTypeOK
  <2>8. CoordInv' BY <1>0, <2>1, <2>3 DEF CoordInv
  <2>9. LoadInv' BY <1>0, <2>1 DEF LoadInv
  <2>10. FilterInv' BY <1>0, <2>1, <2>5 DEF FilterInv
  <2>11. ConfirmInv' BY <1>0, <2>6 DEF ConfirmInv
  <2>12. AgeInv' /\ ActsInv' /\ OneActionPerOpening' BY <1>0 DEF AgeInv, ActsInv, OneActionPerOpening
  <2> QED BY <2>7, <2>8, <2>9, <2>10, <2>11, <2>12
<1>2. CASE ~OwnsRequest(l.req)
  <2>1. view' = view BY <1>2 DEF LoadAnswered
  <2> QED BY <1>0, <2>1 DEF TypeOK, DialogTypeOK, CoordInv, AgeInv, LoadInv, FilterInv, ConfirmInv, ActsInv,
                            OneActionPerOpening
<1> QED BY <1>1, <1>2

(* The first request for an action sets the flag that stops a second one.   *)
LEMMA PerformActionKeeps ==
  ASSUME DialogInv, PerformAction
  PROVE  DialogInv'
<1> USE DEF DialogInv
<1> DEFINE a == [id |-> actCount + 1, session |-> confirm.session, list |-> view.req, filter |-> filter]
<1>0. /\ UNCHANGED <<live, effect, owner, sgen, rgen, session, request, loads, view, filter, confirm>>
      /\ actCount' = actCount + 1 /\ actCount < MaxActs /\ performing' = confirm.session /\ acts' = acts \cup {a}
  BY DEF PerformAction, dialogVars, coordVars
<1>1. /\ view.req = request /\ request # Nil /\ view.req.session = session /\ session # Nil
      /\ confirm # Nil /\ confirm.session = session /\ performing # session
  BY OwnsIsCurrent DEF PerformAction, VisibleConfirm, IsPerforming, Ready
<1>2. /\ actCount \in 0..MaxActs /\ MaxActs \in Nat /\ request \in Request /\ session \in Session
      /\ request.gen = rgen /\ session.gen = sgen /\ rgen \in Nat /\ sgen \in Nat
  BY <1>1, MultiKeyAssumption, DialogAssumption DEF TypeOK, DialogTypeOK, CoordInv
<1>3. a \in [id: 1..MaxActs, session: Session, list: Request, filter: Filters]
  BY <1>0, <1>1, <1>2 DEF TypeOK
<1>4. \A b \in acts: b.session # session /\ b.id \in Nat /\ b.id <= actCount
  BY <1>1, <1>2 DEF ActsInv, AgeInv, TypeOK
<1>5. TypeOK' BY <1>0, <1>1, <1>2, <1>3 DEF TypeOK, DialogTypeOK
<1>6. CoordInv' BY <1>0 DEF CoordInv
<1>7. AgeInv' BY <1>0, <1>1, <1>2, <1>4 DEF AgeInv
<1>8. LoadInv' BY <1>0 DEF LoadInv
<1>9. FilterInv' BY <1>0 DEF FilterInv
<1>10. ConfirmInv' BY <1>0 DEF ConfirmInv
<1>11. ActsInv' BY <1>0, <1>1, <1>4 DEF ActsInv
<1>12. OneActionPerOpening' BY <1>0, <1>1, <1>4 DEF OneActionPerOpening
<1> QED BY <1>5, <1>6, <1>7, <1>8, <1>9, <1>10, <1>11, <1>12

(* An answered action releases the flag of its own session only.            *)
LEMMA ActionAnsweredKeeps ==
  ASSUME DialogInv, NEW a \in acts, NEW ok \in BOOLEAN, ActionAnswered(a, ok)
  PROVE  DialogInv'
<1> USE DEF DialogInv
<1>0. acts' = acts \ {a} /\ UNCHANGED <<live, effect, owner, filter, actCount>>
  BY DEF ActionAnswered
<1>1. a.session \in Session /\ a.list \in Request /\ a.filter \in Filters BY DEF TypeOK
<1>2. CASE OwnsSession(a.session) /\ OwnsRequest(a.list)
  <2>1. /\ performing' = IF performing = a.session THEN Nil ELSE performing
        /\ confirm' = IF confirm # Nil /\ confirm.session = a.session THEN Nil ELSE confirm
    BY <1>2 DEF ActionAnswered
  <2>2. a.session = session /\ a.list = request /\ request # Nil /\ session # Nil /\ view.req = request
    BY <1>1, <1>2, NilIsNothing DEF OwnsSession, OwnsRequest, IsCurrentSession, IsCurrentRequest, CoordInv
  <2>3. live # Nil
    BY <1>1, <1>2, NilIsNothing DEF OwnsSession, OwnerCurrent, Session
  <2>4. a.filter = filter BY <2>2, <2>3 DEF FilterInv
  <2>5. confirm' = Nil BY <2>1, <2>2 DEF ConfirmInv, CoordInv
  <2>6. performing' \in Session \cup {Nil} BY <2>1 DEF TypeOK
  <2>7. \A b \in acts': b.session # session BY <1>0, <2>2 DEF OneActionPerOpening
  <2>8. CASE ok
    <3>1. StartRequest(session) /\ Loading(request', a.filter) BY <1>2, <2>2, <2>8 DEF ActionAnswered
    <3> QED BY <1>0, <1>1, <2>2, <2>4, <2>5, <2>6, <2>7, <3>1, ReloadKeeps
  <2>9. CASE ~ok
    <3>1. UNCHANGED <<sgen, rgen, session, request, loads, view>> BY <1>2, <2>9 DEF ActionAnswered, coordVars
    <3>2. TypeOK' BY <1>0, <2>5, <2>6, <3>1 DEF TypeOK, DialogTypeOK
    <3>3. CoordInv' /\ AgeInv' /\ LoadInv' /\ FilterInv' /\ OneActionPerOpening'
      BY <1>0, <3>1 DEF CoordInv, AgeInv, LoadInv, FilterInv, OneActionPerOpening
    <3>4. ConfirmInv' BY <2>5 DEF ConfirmInv
    <3>5. ActsInv' BY <2>7, <3>1 DEF ActsInv
    <3> QED BY <3>2, <3>3, <3>4, <3>5
  <2> QED BY <2>8, <2>9
<1>3. CASE ~(OwnsSession(a.session) /\ OwnsRequest(a.list))
  <2>1. UNCHANGED <<sgen, rgen, session, request, loads, view, performing, confirm>>
    BY <1>3 DEF ActionAnswered, coordVars
  <2> QED BY <1>0, <2>1 DEF TypeOK, DialogTypeOK, CoordInv, AgeInv, LoadInv, FilterInv, ConfirmInv, ActsInv,
                            OneActionPerOpening
<1> QED BY <1>2, <1>3

-----------------------------------------------------------------------------
LEMMA DialogStarts == Init => DialogInv
<1> SUFFICES ASSUME Init PROVE DialogInv OBVIOUS
<1>1. TypeOK
  <2>1. 0 \in 0..MaxGen /\ 0 \in 0..MaxActs BY DialogAssumption, MultiKeyAssumption
  <2>2. DialogTypeOK BY <2>1 DEF Init, DialogInit, DialogTypeOK
  <2>3. view \in [status: {"idle", "loading", "ready", "error"}, req: Request \cup {Nil}, filter: Filters]
    BY MultiKeyAssumption DEF Init, NoView
  <2> QED BY <2>1, <2>2, <2>3, MultiKeyAssumption DEF Init, TypeOK
<1> QED BY <1>1 DEF Init, DialogInit, NoView, DialogInv, CoordInv, AgeInv, LoadInv, FilterInv, ConfirmInv, ActsInv,
                    OneActionPerOpening

LEMMA DialogStep == DialogInv /\ [Next]_vars => DialogInv'
<1> SUFFICES ASSUME DialogInv, [Next]_vars PROVE DialogInv' OBVIOUS
<1> USE DEF DialogInv
<1>1. ASSUME NEW e \in Entities \cup {Nil}, Target(e), UNCHANGED <<loads, viewVars, acts, actCount>>
      PROVE  DialogInv'
  <2>0. /\ UNCHANGED <<owner, sgen, rgen, session, request, loads, view, filter, confirm, performing, acts, actCount>>
        /\ live' = e /\ effect' = TRUE /\ ~effect
    BY <1>1 DEF Target, coordVars, viewVars
  <2>1. TypeOK' BY <2>0 DEF TypeOK, DialogTypeOK
  <2>2. CoordInv' BY <2>0 DEF CoordInv
  <2>3. FilterInv'
    <3>1. live = Nil => request = Nil
      BY <2>0, NilIsNothing DEF CoordInv, TypeOK, DialogTypeOK, Request
    <3> QED BY <2>0, <3>1 DEF FilterInv
  <2>4. AgeInv' /\ LoadInv' /\ ConfirmInv' /\ ActsInv' /\ OneActionPerOpening'
    BY <2>0 DEF AgeInv, LoadInv, ConfirmInv, ActsInv, OneActionPerOpening
  <2> QED BY <2>1, <2>2, <2>3, <2>4
<1>2. CASE RunEffect BY <1>2, RunEffectKeeps
<1>3. CASE Refresh \/ PageChange
  <2>1. filter \in Filters /\ filter' = filter BY <1>3 DEF TypeOK, Refresh, PageChange
  <2> QED BY <1>3, <2>1, LoadKeyStatusKeeps DEF Refresh, PageChange, Ready
<1>4. ASSUME NEW f \in Filters, StatusFilterChange(f) PROVE DialogInv'
  BY <1>4, LoadKeyStatusKeeps DEF StatusFilterChange
<1>5. CASE ConfirmAction
  <2>0. /\ UNCHANGED <<live, effect, owner, sgen, rgen, session, request, loads, view, filter, performing, acts, actCount>>
        /\ confirm' = [session |-> view.req.session, list |-> view.req]
        /\ view.status = "ready" /\ view.req # Nil
    BY <1>5 DEF ConfirmAction, Ready, Owns, dialogVars, coordVars
  <2>1. view.req \in Request /\ view.req.session \in Session BY <2>0 DEF TypeOK, Request
  <2>2. TypeOK' BY <2>0, <2>1 DEF TypeOK, DialogTypeOK
  <2>3. ConfirmInv' BY <2>0 DEF ConfirmInv
  <2>4. CoordInv' /\ AgeInv' /\ LoadInv' /\ FilterInv' /\ ActsInv' /\ OneActionPerOpening'
    BY <2>0 DEF CoordInv, AgeInv, LoadInv, FilterInv, ActsInv, OneActionPerOpening
  <2> QED BY <2>2, <2>3, <2>4
<1>6. CASE CancelConfirm \/ ActionRefused
  <2>0. /\ UNCHANGED <<live, effect, owner, sgen, rgen, session, request, loads, view, filter, performing, acts, actCount>>
        /\ confirm' = Nil
    BY <1>6 DEF CancelConfirm, ActionRefused, dialogVars, coordVars
  <2> QED BY <2>0 DEF TypeOK, DialogTypeOK, CoordInv, AgeInv, LoadInv, FilterInv, ConfirmInv, ActsInv,
                      OneActionPerOpening
<1>7. CASE PerformAction BY <1>7, PerformActionKeeps
<1>8. CASE HandleClose BY <1>8, HandleCloseKeeps
<1>9. CASE \E l \in loads, ok \in BOOLEAN: LoadAnswered(l, ok) BY <1>9, LoadAnsweredKeeps
<1>10. CASE \E a \in acts, ok \in BOOLEAN: ActionAnswered(a, ok) BY <1>10, ActionAnsweredKeeps
<1>11. CASE UNCHANGED vars
  BY <1>11 DEF vars, dialogVars, coordVars, viewVars, TypeOK, DialogTypeOK, CoordInv, AgeInv, LoadInv, FilterInv,
               ConfirmInv, ActsInv, OneActionPerOpening
<1> QED BY <1>1, <1>2, <1>3, <1>4, <1>5, <1>6, <1>7, <1>8, <1>9, <1>10, <1>11 DEF Next

LEMMA DialogInvariant == Spec => []DialogInv
BY DialogStarts, DialogStep, PTL DEF Spec

-----------------------------------------------------------------------------
(* The visible list was loaded for the channel the dialog is open for and   *)
(* under the filter it shows, for any number of loads answered in any order *)
(* (multi-key-manage-dialog.tsx, loadKeyStatus).                            *)
THEOREM ShownListIsOpen == Spec => []ListIsTheOpenOne
<1>1. DialogInv => ListIsTheOpenOne
  <2> SUFFICES ASSUME DialogInv, Ready PROVE view.req.session.entity = live /\ view.filter = filter
    BY DEF ListIsTheOpenOne
  <2>1. view.req = request /\ request # Nil /\ live = view.req.session.entity /\ live # Nil
    BY OwnsIsCurrent DEF Ready, Owns
  <2> QED BY <2>1 DEF DialogInv, FilterInv
<1> QED BY <1>1, DialogInvariant, PTL

(* A confirmed action names a key by its place in the list on the screen,   *)
(* although loads, refusals and other openings come in between              *)
(* (handleConfirmAction).                                                   *)
THEOREM ConfirmsShownList == Spec => []ConfirmIsForShownList
<1>1. DialogInv => ConfirmIsForShownList BY DEF DialogInv, ConfirmInv, ConfirmIsForShownList, VisibleConfirm
<1> QED BY <1>1, DialogInvariant, PTL

(* No second action starts in an opening while one is under way, although   *)
(* the second dialog may be left and opened again (performAction).          *)
THEOREM ActionsOneByOne == Spec => []OneActionPerOpening
<1>1. DialogInv => OneActionPerOpening BY DEF DialogInv
<1> QED BY <1>1, DialogInvariant, PTL
=============================================================================
