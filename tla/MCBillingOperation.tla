-------------------------- MODULE MCBillingOperation --------------------------
(***************************************************************************)
(* Small instances of BillingOperation, and the scenes of its run.         *)
(***************************************************************************)
EXTENDS BillingOperation

CONSTANTS u1, t1, r1, r2, k1, k2, k3

MCTokenOwner == [t \in {t1} |-> u1]
MCSubOwner == [s \in {1, 2} |-> u1]
UpAndDown == {-1, 1}

LimitedToken == [remain |-> 1, used |-> 0, unlimited |-> FALSE, expired |-> FALSE,
                 status |-> "enabled", row |-> "live"]
GoneToken == [LimitedToken EXCEPT !.expired = TRUE, !.row = "gone"]
MCTokens == {LimitedToken, GoneToken}

CappedSub == [total |-> 2, used |-> 0, active |-> TRUE, due |-> FALSE, row |-> "live"]
UncappedSub == [CappedSub EXCEPT !.total = 0]
GoneSub == [CappedSub EXCEPT !.active = FALSE, !.row = "gone"]
MCSubs == {CappedSub, UncappedSub, GoneSub}

\* A legacy task that charged one unit to the wallet.
LegacyWallet == [status |-> "submitted", op |-> Unset, quota |-> 1, user |-> u1,
                 token |-> Unset, sub |-> Unset, beforeCutoff |-> FALSE]
LegacyTaskRows == {LegacyWallet,
                   [LegacyWallet EXCEPT !.beforeCutoff = TRUE],
                   [LegacyWallet EXCEPT !.status = "failure"]}

-----------------------------------------------------------------------------
(* One run checks five scenes, so that each concern gets an instance that is *)
(* large enough for it: two requests on one limited token, a token that its  *)
(* owner edits, two requests on a subscription, the choice between two       *)
(* subscriptions, and tasks.  A row that takes no part is a purged one.      *)
VARIABLE scene

Scene(requests, quota, token, subRows, withTasks, moves) ==
    [requests |-> requests, quota |-> quota, token |-> token, subs |-> subRows,
     tasks |-> withTasks, moves |-> moves]
NoSubs == {<<GoneSub, GoneSub>>}

\* moves: what is moved outside operations.
Scenes ==
    {Scene({r1, r2}, 2, LimitedToken, NoSubs, FALSE, {}),
     Scene({r1}, 2, LimitedToken, NoSubs, FALSE, {"top-up", "charge", "edit"}),
     Scene({r1, r2}, 0, GoneToken, {<<CappedSub, GoneSub>>}, FALSE, {}),
     Scene({r1}, 0, GoneToken, [{1, 2} -> {CappedSub, UncappedSub}], FALSE, {}),
     Scene({r1}, 1, GoneToken, NoSubs, TRUE, {"top-up"})}

MCInit ==
    /\ scene \in Scenes
    /\ Init
    /\ \A u \in Users : users[u].quota = scene.quota
    /\ \A t \in Tokens : tokens[t] = scene.token
    /\ subs \in scene.subs
    /\ ~scene.tasks => \A k \in LegacyTasks : tasks[k] = LegacyWallet

\* A step that belongs to the scene: no other request, and outside operations
\* only the moves of the scene, as far as -1..1.
InScene ==
    /\ \A r \in Requests \ scene.requests : ops'[r] = ops[r]
    /\ ops' = ops =>
        /\ \A u \in Users :
            /\ funded'[u] > funded[u] => "top-up" \in scene.moves
            /\ funded'[u] < funded[u] => "charge" \in scene.moves
        /\ \A t \in Tokens :
            LET edited == <<tokens'[t].remain, tokens'[t].unlimited>> # <<tokens[t].remain, tokens[t].unlimited>>
            IN  /\ edited => "edit" \in scene.moves
                /\ outside'[t] # outside[t] => outside'[t] \in -1..1 /\ tokens'[t].remain \in -1..1

MCNext ==
    /\ \/ scene.tasks /\ TaskNext
       \/ RequestNext \/ UserNext \/ TokenNext \/ SubscriptionNext
    /\ InScene
    /\ UNCHANGED scene

MCSpec == MCInit /\ [][MCNext]_<<vars, scene>>
=============================================================================
