--------------------------- MODULE MultiKeyDialog ---------------------------
(***************************************************************************)
(* The dialog that manages the keys of a channel with several keys          *)
(* (web/src/features/channels/components/dialogs/multi-key-manage-dialog).  *)
(* It shows a page of the keys under a status filter; an action on a key    *)
(* names it by its place in the list, is confirmed in a second dialog and   *)
(* is followed by a reload.  Loads and actions are answered late, in any    *)
(* order, while the user goes on; the second dialog is modal, but Escape    *)
(* leaves it while its action is still being carried out.                   *)
(***************************************************************************)
EXTENDS EntityDialog

CONSTANTS
  Filters,   \* status filters
  All,       \* no filter
  MaxActs    \* bound: actions carried out

ASSUME MultiKeyAssumption == All \in Filters /\ MaxActs \in Nat

VARIABLES
  loads,       \* loads that were not answered: the request and its filter
  view,        \* viewState: status, request, and the filter its data was asked for
  filter,      \* statusFilter
  confirm,     \* confirmAction: its session, and the request whose list it was picked from
  performing,  \* performingSession
  acts,        \* actions that were not answered
  actCount     \* how many actions were carried out

viewVars == <<view, filter, confirm, performing>>
vars == <<dialogVars, loads, viewVars, acts, actCount>>

NoView == [status |-> "idle", req |-> Nil, filter |-> All]

TypeOK ==
  /\ DialogTypeOK
  /\ loads \subseteq [req: Request, filter: Filters]
  /\ view \in [status: {"idle", "loading", "ready", "error"}, req: Request \cup {Nil}, filter: Filters]
  /\ filter \in Filters
  /\ confirm = Nil \/ confirm \in [session: Session, list: Request]
  /\ performing \in Session \cup {Nil}
  /\ acts \subseteq [id: 1..MaxActs, session: Session, list: Request, filter: Filters]
  /\ actCount \in 0..MaxActs

Init ==
  /\ DialogInit
  /\ loads = {}
  /\ view = NoView
  /\ filter = All
  /\ confirm = Nil
  /\ performing = Nil
  /\ acts = {}
  /\ actCount = 0

-----------------------------------------------------------------------------
(* What the dialog derives from its state.                                  *)
Owns == live # Nil /\ view.req # Nil /\ OwnsRequest(view.req)
Ready == Owns /\ view.status = "ready"
IsLoading == live # Nil /\ (Owns => view.status = "loading")
VisibleConfirm == confirm # Nil /\ Ready /\ confirm.session = view.req.session /\ OwnsSession(confirm.session)
IsPerforming == VisibleConfirm /\ performing = confirm.session

Loading(r, f) ==
  /\ loads' = loads \cup {[req |-> r, filter |-> f]}
  /\ view' = [status |-> "loading", req |-> r, filter |-> f]

(* The effect of a render: the session before is closed, and a dialog that  *)
(* is open starts over.                                                     *)
RunEffect ==
  /\ effect
  /\ effect' = FALSE
  /\ IF live = Nil
       THEN /\ CloseSession(owner)
            /\ owner' = Nil
            /\ view' = NoView
            /\ UNCHANGED loads
       ELSE /\ OpenAndRequest(live)
            /\ owner' = session'
            /\ Loading(request', All)
  /\ filter' = All /\ confirm' = Nil /\ performing' = Nil
  /\ UNCHANGED <<live, acts, actCount>>

(* loadKeyStatus in the session of the view.                                *)
LoadKeyStatus(f) ==
  /\ StartRequest(view.req.session)
  /\ Loading(request', f)

(* Mutant: a reload forgets the action that is being carried out.           *)
RefreshForgetsAction ==
  /\ Owns /\ ~IsLoading /\ ~VisibleConfirm
  /\ LoadKeyStatus(filter)
  /\ performing' = Nil
  /\ UNCHANGED <<live, effect, owner, filter, confirm, acts, actCount>>

(* handleRefresh: also after a failure.                                     *)
Refresh ==
  /\ Owns /\ ~IsLoading /\ ~VisibleConfirm
  /\ LoadKeyStatus(filter)
  /\ UNCHANGED <<live, effect, owner, filter, confirm, performing, acts, actCount>>

(* handlePageChange: only from a list that is shown.                        *)
PageChange ==
  /\ Ready /\ ~VisibleConfirm
  /\ LoadKeyStatus(filter)
  /\ UNCHANGED <<live, effect, owner, filter, confirm, performing, acts, actCount>>

(* handleStatusFilterChange.                                                *)
StatusFilterChange(f) ==
  /\ Owns /\ ~VisibleConfirm
  /\ filter' = f
  /\ LoadKeyStatus(f)
  /\ UNCHANGED <<live, effect, owner, confirm, performing, acts, actCount>>

(* Mutant: a load that fails leaves the dialog as it is.                    *)
FailureIgnored(l, ok) ==
  /\ loads' = loads \ {l}
  /\ view' = IF ok /\ OwnsRequest(l.req) THEN [status |-> "ready", req |-> l.req, filter |-> l.filter] ELSE view
  /\ UNCHANGED <<dialogVars, filter, confirm, performing, acts, actCount>>

(* A load is answered, with a valid page or not.                            *)
LoadAnswered(l, ok) ==
  /\ loads' = loads \ {l}
  /\ view' = IF OwnsRequest(l.req)
               THEN [status |-> IF ok THEN "ready" ELSE "error", req |-> l.req, filter |-> l.filter]
               ELSE view
  /\ UNCHANGED <<dialogVars, filter, confirm, performing, acts, actCount>>

(* handleConfirmAction.                                                     *)
ConfirmAction ==
  /\ Ready /\ ~VisibleConfirm
  /\ confirm' = [session |-> view.req.session, list |-> view.req]
  /\ UNCHANGED <<dialogVars, loads, view, filter, performing, acts, actCount>>

(* handleConfirmOpenChange: Escape, or Cancel.                              *)
CancelConfirm ==
  /\ VisibleConfirm
  /\ confirm' = Nil
  /\ UNCHANGED <<dialogVars, loads, view, filter, performing, acts, actCount>>

(* performAction, up to the answer.                                         *)
PerformAction ==
  /\ VisibleConfirm /\ ~IsPerforming
  /\ actCount < MaxActs
  /\ actCount' = actCount + 1
  /\ performing' = confirm.session
  /\ acts' = acts \cup {[id |-> actCount + 1, session |-> confirm.session, list |-> view.req, filter |-> filter]}
  /\ UNCHANGED <<dialogVars, loads, view, filter, confirm>>

(* performAction refused: the user may not delete keys.                     *)
ActionRefused ==
  /\ VisibleConfirm /\ ~IsPerforming
  /\ confirm' = Nil
  /\ UNCHANGED <<dialogVars, loads, view, filter, performing, acts, actCount>>

(* Mutant: the second dialog is left open over the reloaded list.           *)
ConfirmStaysOpen(a, ok) ==
  /\ acts' = acts \ {a}
  /\ IF OwnsRequest(a.list)
       THEN /\ performing' = Nil
            /\ IF ok THEN StartRequest(a.session) /\ Loading(request', a.filter)
                     ELSE UNCHANGED <<coordVars, loads, view>>
       ELSE UNCHANGED <<performing, coordVars, loads, view>>
  /\ UNCHANGED <<live, effect, owner, filter, confirm, actCount>>

(* An action is answered: unless the list was loaded again meanwhile, the   *)
(* flag and the second dialog are cleared, and the list is reloaded after a *)
(* success.                                                                 *)
ActionAnswered(a, ok) ==
  /\ acts' = acts \ {a}
  /\ IF OwnsSession(a.session) /\ OwnsRequest(a.list)
       THEN /\ performing' = IF performing = a.session THEN Nil ELSE performing
            /\ confirm' = IF confirm # Nil /\ confirm.session = a.session THEN Nil ELSE confirm
            /\ IF ok THEN StartRequest(a.session) /\ Loading(request', a.filter)
                     ELSE UNCHANGED <<coordVars, loads, view>>
       ELSE UNCHANGED <<performing, confirm, coordVars, loads, view>>
  /\ UNCHANGED <<live, effect, owner, filter, actCount>>

(* handleClose.                                                             *)
HandleClose ==
  /\ live # Nil /\ ~effect /\ ~VisibleConfirm
  /\ CloseSession(IF view.req = Nil THEN Nil ELSE view.req.session)
  /\ view' = NoView
  /\ filter' = All /\ confirm' = Nil /\ performing' = Nil
  /\ live' = Nil /\ effect' = TRUE
  /\ UNCHANGED <<owner, loads, acts, actCount>>

Next ==
  \/ \E e \in Entities \cup {Nil}: Target(e) /\ UNCHANGED <<loads, viewVars, acts, actCount>>
  \/ RunEffect \/ Refresh \/ PageChange \/ ConfirmAction \/ CancelConfirm \/ PerformAction \/ ActionRefused \/ HandleClose
  \/ \E f \in Filters: StatusFilterChange(f)
  \/ \E l \in loads, ok \in BOOLEAN: LoadAnswered(l, ok)
  \/ \E a \in acts, ok \in BOOLEAN: ActionAnswered(a, ok)

(* React runs effects; every load is answered, or fails.                    *)
Fairness ==
  /\ WF_vars(RunEffect)
  /\ WF_vars(\E l \in loads, ok \in BOOLEAN: LoadAnswered(l, ok))

Spec == Init /\ [][Next]_vars /\ Fairness

-----------------------------------------------------------------------------
(* The list that is visible belongs to the channel the dialog is open for,  *)
(* and was loaded under the filter the dialog shows.                        *)
ListIsTheOpenOne ==
  Ready => view.req.session.entity = live /\ view.filter = filter

(* A confirmation names a key by its place in the list that is visible      *)
(* behind it, not in an earlier one.                                        *)
ConfirmIsForShownList ==
  VisibleConfirm => confirm.list = view.req

(* Within one opening of the dialog there is one action at a time, so that  *)
(* the place of a key does not move between the list and the action.        *)
OneActionPerOpening ==
  \A a, b \in acts: a.session = b.session => a = b

(* The dialog does not show its spinner forever.                            *)
LoadingEnds ==
  []<>(~IsLoading)
=============================================================================
