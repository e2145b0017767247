---------------------------- MODULE EntityDialog ----------------------------
(***************************************************************************)
(* The session coordinator of dialogs that show one entity at a time        *)
(* (web/src/lib/entity-dialog-session.ts).  A session is one opening of a   *)
(* dialog for an entity, a request is one read within it; both are numbered *)
(* and only the latest of each counts.  Starting a request aborts the       *)
(* previous one, so a request is aborted exactly when it is not the current *)
(* one.                                                                     *)
(***************************************************************************)
EXTENDS Naturals, FiniteSets

CONSTANTS
  Entities,   \* what a dialog may be opened for
  Nil,        \* null
  MaxGen      \* bound: how far the two generations may count

ASSUME DialogAssumption ==
  /\ MaxGen \in Nat
  /\ Nil \notin Entities
  /\ Nil \notin [entity: Entities, gen: Nat]
  /\ Nil \notin [session: [entity: Entities, gen: Nat], gen: Nat]

VARIABLES
  live,      \* liveOwnerRef: the entity the rendered dialog is for, Nil when it is closed
  effect,    \* the effect of the last render has not run yet
  owner,     \* the session that the last effect opened and its cleanup closes
  sgen,      \* sessionGeneration
  rgen,      \* requestGeneration
  session,   \* currentSession
  request    \* currentRequest

coordVars == <<sgen, rgen, session, request>>
dialogVars == <<live, effect, owner, coordVars>>

Session == [entity: Entities, gen: 1..MaxGen]
Request == [session: Session, gen: 1..MaxGen]

DialogTypeOK ==
  /\ live \in Entities \cup {Nil}
  /\ effect \in BOOLEAN
  /\ owner \in Session \cup {Nil}
  /\ sgen \in 0..MaxGen /\ rgen \in 0..MaxGen
  /\ session \in Session \cup {Nil}
  /\ request \in Request \cup {Nil}

DialogInit ==
  /\ live = Nil
  /\ effect = FALSE
  /\ owner = Nil
  /\ sgen = 0 /\ rgen = 0
  /\ session = Nil
  /\ request = Nil

IsCurrentSession(s) == session = s /\ s.gen = sgen

(* Mutant: only the session of a request is looked at.                      *)
AnyRequestOfSession(r) == r # Nil /\ IsCurrentSession(r.session)

IsCurrentRequest(r) == request = r /\ r # Nil /\ r.gen = rgen /\ IsCurrentSession(r.session)

(* isEntityDialogOwnerCurrent.                                              *)
OwnerCurrent(e) == live = e

(* What every handler asks before it goes on after a wait.                  *)
OwnsSession(s) == OwnerCurrent(s.entity) /\ IsCurrentSession(s)
OwnsRequest(r) == OwnerCurrent(r.session.entity) /\ IsCurrentRequest(r)

NewRequest(s) == [session |-> s, gen |-> rgen + 1]

(* close, for the session s: nothing if it is not the current one.          *)
CloseSession(s) ==
  IF s # Nil /\ IsCurrentSession(s)
    THEN sgen < MaxGen /\ sgen' = sgen + 1 /\ session' = Nil /\ request' = Nil /\ UNCHANGED rgen
    ELSE UNCHANGED coordVars

(* open and startRequest, as an effect calls them.  The cleanup of the      *)
(* effect before it has closed that one's session, which uses a number.     *)
OpenAndRequest(e) ==
  LET used == IF owner # Nil /\ IsCurrentSession(owner) THEN sgen + 1 ELSE sgen
  IN /\ used < MaxGen /\ rgen < MaxGen
     /\ sgen' = used + 1 /\ rgen' = rgen + 1
     /\ session' = [entity |-> e, gen |-> used + 1]
     /\ request' = NewRequest(session')

(* startRequest in the current session.                                     *)
StartRequest(s) ==
  /\ rgen < MaxGen
  /\ rgen' = rgen + 1
  /\ request' = NewRequest(s)
  /\ UNCHANGED <<sgen, session>>

(* The page opens the dialog for e, or for another entity, and renders it.  *)
(* The effect of a render runs before the next render.                      *)
Target(e) ==
  /\ ~effect /\ live # e
  /\ sgen + 1 < MaxGen /\ rgen < MaxGen
  /\ live' = e
  /\ effect' = TRUE
  /\ UNCHANGED <<owner, coordVars>>
=============================================================================
