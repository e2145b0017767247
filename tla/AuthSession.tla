---------------------------- MODULE AuthSession ----------------------------
(***************************************************************************)
(* The login session of the web interface, as the tabs of one browser and  *)
(* the server share it.  A tab keeps its session in memory only            *)
(* (stores/auth-store.ts) and gets it back from a refresh, which presents   *)
(* the HttpOnly refresh cookie; the server rotates the secret of the        *)
(* cookie at each refresh (model/user_session.go).  A tab runs one refresh  *)
(* at a time, the tabs take turns under the browser's lock                  *)
(* (lib/auth-session.ts), and they tell each other of logins and sign-outs  *)
(* over a BroadcastChannel (lib/auth-session-sync.ts, routes/__root.tsx).   *)
(* The secrets of a session form a chain: a secret is its place in it.      *)
(***************************************************************************)
EXTENDS Naturals, Sequences, FiniteSets

CONSTANTS
  Tabs,         \* the open tabs
  Sids,         \* the identifiers of the sessions that can be created
  Nil,          \* no session, no cookie, nobody
  RaceRetries,  \* the length of refreshRaceDelays
  Worlds        \* the surroundings considered: does the browser have navigator.locks, and how often
                \* may each outside event happen

(* What users, the network and other devices do on their own.               *)
Outside == {"login", "logout", "refresh", "change", "remove", "leave", "fault"}

ASSUME AuthAssumption ==
  /\ Nil \notin Tabs \cup Sids
  /\ RaceRetries \in Nat
  /\ Worlds \subseteq [locks: BOOLEAN, left: [Outside -> Nat]]

VARIABLES
  sessions,  \* the rows of user_sessions: status (or why it was revoked), place of the current secret,
             \* grace window open, behind the auth_version of its user
  cookie,    \* the refresh cookie of the browser, shared by the tabs
  lock,      \* who holds the lock new-api:auth-refresh
  store,     \* per tab: the session in memory
  boot,      \* per tab: bootstrapState
  refresh,   \* per tab: the running refresh (refreshPromise), or Idle
  api,       \* per tab: an API call that was answered 401
  logout,    \* per tab: the running executeLogout
  pending,   \* per tab: the answer of a login or of a security change on its way
  inbox,     \* per tab: the session events not yet delivered
  orphans,   \* refresh requests given up by their page that the server may still see
  world,     \* the surroundings: locks, and how often each outside event may still happen
  ended,     \* history: per page, the sessions it saw end
  lost       \* history: sessions that lost the answer of a refresh

tabVars == <<store, boot, api, logout, pending, ended>>
vars == <<sessions, cookie, lock, store, boot, refresh, api, logout, pending, inbox, orphans, world, ended, lost>>

Cookies == [sid: Sids, gen: Nat]
Statuses == {"unused", "active", "logout", "reuse", "changed", "removed"}
Kinds == {"none", "ok", "kept", "race", "mismatch", "unauthorized", "error", "other"}

Answer(k, c) == [kind |-> k, cookie |-> c]
NoAnswer == Answer("none", Nil)

(* refreshPromise = null.                                                   *)
Idle == [pc |-> "none", current |-> TRUE, race |-> 0, mismatch |-> TRUE, sent |-> Nil, expect |-> Nil,
         answer |-> NoAnswer]

NoLogout == [pc |-> "none", sent |-> Nil, expect |-> Nil, recovery |-> TRUE, answer |-> NoAnswer]

TypeOK ==
  /\ sessions \in [Sids -> [status: Statuses, gen: Nat, grace: BOOLEAN, outdated: BOOLEAN]]
  /\ cookie \in Cookies \cup {Nil}
  /\ lock \in Tabs \cup {Nil}
  /\ store \in [Tabs -> Sids \cup {Nil}]
  /\ boot \in [Tabs -> {"idle", "checking", "complete"}]
  /\ refresh \in [Tabs -> [pc: {"none", "lock", "sent", "recovering", "answered", "delay"}, current: BOOLEAN,
                           race: 0..RaceRetries, mismatch: BOOLEAN, sent: Cookies \cup {Nil},
                           expect: Sids \cup {Nil}, answer: [kind: Kinds, cookie: Cookies \cup {Nil}]]]
  /\ api \in [Tabs -> {"none", "refreshing", "retried", "redirect"}]
  /\ logout \in [Tabs -> [pc: {"none", "sent", "answered", "refreshing"}, sent: Cookies \cup {Nil},
                          expect: Sids \cup {Nil}, recovery: BOOLEAN,
                          answer: [kind: Kinds, cookie: Cookies \cup {Nil}]]]
  /\ pending \in [Tabs -> [kind: {"none", "login", "changing", "rotation", "failed"}, sid: Sids \cup {Nil}]]
  /\ inbox \in [Tabs -> Seq([kind: {"authenticated", "signed_out"}, sid: Sids])]
  /\ orphans \subseteq [sent: Cookies \cup {Nil}, expect: Sids \cup {Nil}]
  /\ world \in [locks: BOOLEAN, left: [Outside -> Nat]]
  /\ ended \in [Tabs -> SUBSET Sids]
  /\ lost \subseteq Sids

NothingPending == [kind |-> "none", sid |-> Nil]

(* A browser started with the cookie of an earlier visit, or with none, and *)
(* its tabs just loaded.                                                    *)
Init ==
  /\ cookie \in [sid: Sids, gen: {0}] \cup {Nil}
  /\ sessions = [s \in Sids |->
       [status |-> IF cookie # Nil /\ cookie.sid = s THEN "active" ELSE "unused", gen |-> 0, grace |-> FALSE,
        outdated |-> FALSE]]
  /\ lock = Nil
  /\ store = [t \in Tabs |-> Nil]
  /\ boot = [t \in Tabs |-> "idle"]
  /\ refresh = [t \in Tabs |-> Idle]
  /\ api = [t \in Tabs |-> "none"]
  /\ logout = [t \in Tabs |-> NoLogout]
  /\ pending = [t \in Tabs |-> NothingPending]
  /\ inbox = [t \in Tabs |-> <<>>]
  /\ orphans = {}
  /\ world \in Worlds
  /\ ended = [t \in Tabs |-> {}]
  /\ lost = {}

Spend(k) ==
  /\ world.left[k] > 0
  /\ world' = [world EXCEPT !.left[k] = @ - 1]

-----------------------------------------------------------------------------
(* The server.                                                              *)

Revoked(ss, s, why) ==
  IF ss[s].status = "active" THEN [ss EXCEPT ![s].status = why] ELSE ss

(* Mutant: the X-Auth-Session header is not compared with the cookie.       *)
AnySession(c, e) ==
  CASE c = Nil -> "invalid"
    [] c # Nil /\ sessions[c.sid].status # "active" -> "revoked"
    [] OTHER -> CASE c.gen = sessions[c.sid].gen -> "rotate"
                  [] c.gen + 1 = sessions[c.sid].gen /\ sessions[c.sid].grace -> "race"
                  [] OTHER -> "invalid"

(* What refreshLoginSessionAt and RotateUserSessionRefresh make of a        *)
(* presented cookie c and the sid e of the X-Auth-Session header.           *)
Verdict(c, e) ==
  CASE c = Nil -> "invalid"
    [] c # Nil /\ e # Nil /\ e # c.sid -> "mismatch"
    [] c # Nil /\ e \in {Nil, c.sid} /\ sessions[c.sid].status # "active" -> "revoked"
    [] c # Nil /\ e \in {Nil, c.sid} /\ sessions[c.sid].status = "active" /\ sessions[c.sid].outdated -> "changed"
    [] OTHER -> CASE c.gen = sessions[c.sid].gen -> "rotate"
                  [] c.gen + 1 = sessions[c.sid].gen /\ sessions[c.sid].grace -> "race"
                  [] c.gen + 1 = sessions[c.sid].gen /\ ~sessions[c.sid].grace -> "reuse"
                  [] OTHER -> "invalid"

(* The successor of a secret is derived from it.                            *)
NextSecret(c) == [c EXCEPT !.gen = @ + 1]

(* The rows after a verdict: a rotation keeps the presented secret valid    *)
(* for the grace window; the replay of the previous secret after it revokes *)
(* the session, and so does a session behind its user.                      *)
Rotated(c, v) ==
  CASE v = "rotate" -> [sessions EXCEPT ![c.sid].gen = @ + 1, ![c.sid].grace = TRUE]
    [] v \in {"reuse", "changed"} -> Revoked(sessions, c.sid, v)
    [] OTHER -> sessions

AnswerFor(c, v) ==
  CASE v = "rotate" -> Answer("ok", NextSecret(c))
    [] v = "mismatch" -> Answer("mismatch", Nil)
    [] OTHER -> Answer("unauthorized", Nil)

(* RefreshAuth on a request of tab t.  The previous secret inside the grace *)
(* window is confirmed in a transaction of its own.                         *)
RefreshAuth(t) ==
  /\ refresh[t].pc = "sent"
  /\ LET c == refresh[t].sent
         v == Verdict(c, refresh[t].expect)
     IN /\ sessions' = Rotated(c, v)
        /\ refresh' = [refresh EXCEPT ![t].pc = IF v = "race" THEN "recovering" ELSE "answered",
                                      ![t].answer = IF v = "race" THEN @ ELSE AnswerFor(c, v)]
  /\ UNCHANGED <<cookie, lock, tabVars, inbox, orphans, world, lost>>

(* RecoverUserSessionRefresh: the deterministic successor, unless the       *)
(* session moved on or the window closed since.                             *)
RecoverUserSessionRefresh(t) ==
  /\ refresh[t].pc = "recovering"
  /\ LET c == refresh[t].sent
         row == sessions[c.sid]
     IN refresh' = [refresh EXCEPT ![t].pc = "answered",
          ![t].answer = CASE row.status # "active" \/ row.outdated -> Answer("unauthorized", Nil)
                          [] row.status = "active" /\ ~row.outdated /\ row.gen = c.gen + 1 /\ row.grace ->
                               Answer("ok", NextSecret(c))
                          [] OTHER -> Answer("race", Nil)]
  /\ UNCHANGED <<sessions, cookie, lock, tabVars, inbox, orphans, world, lost>>

Fails(t, k) ==
  refresh' = [refresh EXCEPT ![t].pc = "answered", ![t].answer = Answer(k, Nil)]

(* The request is turned away: a rate limit or a 500 ("error"), or an       *)
(* answer the client does not know, such as the 403 of the origin guard.    *)
RefreshRejected(t) ==
  /\ refresh[t].pc \in {"sent", "recovering"}
  /\ Spend("fault")
  /\ \E k \in {"error", "other"}: Fails(t, k)
  /\ UNCHANGED <<sessions, cookie, lock, tabVars, inbox, orphans, lost>>

(* A 500 after the rotation was stored.                                     *)
RefreshNotIssued(t) ==
  /\ refresh[t].pc = "sent"
  /\ Verdict(refresh[t].sent, refresh[t].expect) = "rotate"
  /\ Spend("fault")
  /\ sessions' = Rotated(refresh[t].sent, "rotate")
  /\ lost' = lost \cup {refresh[t].sent.sid}
  /\ Fails(t, "error")
  /\ UNCHANGED <<cookie, lock, tabVars, inbox, orphans>>

(* The session cannot be looked up: refreshLoginSessionAt answers any error *)
(* of GetUserSessionCachedAt like an invalid cookie.                        *)
SessionLookupFails(t) ==
  /\ refresh[t].pc = "sent"
  /\ refresh[t].sent # Nil
  /\ refresh[t].expect \in {Nil, refresh[t].sent.sid}
  /\ Spend("fault")
  /\ Fails(t, "unauthorized")
  /\ UNCHANGED <<sessions, cookie, lock, tabVars, inbox, orphans, lost>>

(* A request whose page no longer waits for it still reaches the server.    *)
RefreshAuthUnheard(o) ==
  /\ sessions' = Rotated(o.sent, Verdict(o.sent, o.expect))
  /\ orphans' = orphans \ {o}
  /\ UNCHANGED <<cookie, lock, tabVars, refresh, inbox, world, lost>>

(* previous_valid_until passes.                                             *)
GraceEnds(s) ==
  /\ sessions[s].grace
  /\ sessions' = [sessions EXCEPT ![s].grace = FALSE]
  /\ UNCHANGED <<cookie, lock, tabVars, refresh, inbox, orphans, world, lost>>

(* RevokeUserSession from another device or by an administrator.            *)
RevokedElsewhere(s) ==
  /\ sessions[s].status = "active"
  /\ Spend("remove")
  /\ sessions' = Revoked(sessions, s, "removed")
  /\ UNCHANGED <<cookie, lock, tabVars, refresh, inbox, orphans, lost>>

-----------------------------------------------------------------------------
(* A tab: lib/auth-session.ts.                                              *)

Others(t, kind, s) ==
  [u \in Tabs |-> IF u = t THEN inbox[u] ELSE Append(inbox[u], [kind |-> kind, sid |-> s])]

(* applyAuthBundle, apart from the epoch it increments.                     *)
ApplyAuthBundle(t, s, synchronizeTabs) ==
  /\ store' = [store EXCEPT ![t] = s]
  /\ boot' = [boot EXCEPT ![t] = "complete"]
  /\ inbox' = IF synchronizeTabs /\ store[t] # s THEN Others(t, "authenticated", s) ELSE inbox

(* clearAuthentication, apart from the epoch it increments.                 *)
ClearAuthentication(t, synchronizeTabs) ==
  /\ store' = [store EXCEPT ![t] = Nil]
  /\ boot' = [boot EXCEPT ![t] = "complete"]
  /\ inbox' = IF synchronizeTabs /\ store[t] # Nil THEN Others(t, "signed_out", store[t]) ELSE inbox

(* History: the page drops a session that is revoked.                       *)
SawEnd(t) ==
  ended' = [ended EXCEPT ![t] = @ \cup {s \in Sids: s = store[t] /\ sessions[s].status # "active"}]

(* authEpoch += 1: a running refresh is not current any more.               *)
NextEpoch(t) == refresh' = [refresh EXCEPT ![t].current = (refresh[t].pc = "none")]

(* The start of run() in createRefreshRunner: the request takes the cookie  *)
(* and the session of the moment.                                           *)
Sent(r, s) == [r EXCEPT !.pc = "sent", !.sent = cookie, !.expect = s, !.answer = NoAnswer]

(* refreshAuthentication: a running refresh is joined.                      *)
RefreshAuthentication(t) ==
  refresh' = IF refresh[t].pc # "none" THEN refresh
             ELSE [refresh EXCEPT ![t] = IF world.locks THEN [Idle EXCEPT !.pc = "lock"] ELSE Sent(Idle, store[t])]

(* What an API call and a sign-out that waited for the refresh do with its  *)
(* outcome (http-client.ts, executeLogout).  An anonymous outcome is a      *)
(* successful sign-out, which finds nothing left to clear.                  *)
Resumed(t, outcome, c, s) ==
  /\ api' = [api EXCEPT ![t] =
       IF @ # "refreshing" THEN @
       ELSE CASE outcome = "authenticated" -> "retried"
              [] outcome \in {"anonymous", "out_of_sync"} -> "redirect"
              [] OTHER -> "none"]
  /\ logout' = [logout EXCEPT ![t] =
       IF @.pc # "refreshing" THEN @
       ELSE CASE outcome = "authenticated" ->
                   [NoLogout EXCEPT !.pc = "sent", !.sent = c, !.expect = s, !.recovery = FALSE]
              [] OTHER -> NoLogout]

(* The promise of the refresh settles: the lock is released and             *)
(* refreshPromise is null again.                                            *)
Settled(t, outcome, c, s) ==
  /\ refresh' = [refresh EXCEPT ![t] = Idle]
  /\ lock' = IF lock = t THEN Nil ELSE lock
  /\ Resumed(t, outcome, c, s)

(* The Set-Cookie header of an answer.                                      *)
CookieAfter(a) ==
  CASE a.kind = "ok" -> a.cookie
    [] a.kind = "unauthorized" -> Nil
    [] OTHER -> cookie

(* Mutant: the lock is requested in shared mode.                            *)
SharedLock(t) ==
  /\ refresh[t].pc = "lock"
  /\ refresh[t].current
  /\ lock' = t
  /\ refresh' = [refresh EXCEPT ![t] = Sent(@, store[t])]
  /\ UNCHANGED <<sessions, cookie, tabVars, inbox, orphans, world, lost>>

(* The browser grants the lock and run() starts, unless the epoch moved.    *)
LockGranted(t) ==
  /\ refresh[t].pc = "lock"
  /\ lock = Nil
  /\ \/ /\ refresh[t].current
        /\ lock' = t
        /\ refresh' = [refresh EXCEPT ![t] = Sent(@, store[t])]
        /\ UNCHANGED <<api, logout>>
     \/ /\ ~refresh[t].current
        /\ Settled(t, "transient_error", cookie, store[t])
  /\ UNCHANGED <<sessions, cookie, store, boot, pending, inbox, orphans, world, ended, lost>>

(* Mutant: the epoch is not compared.                                       *)
AnyEpoch(t) == t = t

IsCurrent(t) == refresh[t].current

(* refreshRaceDelays has a delay for this attempt.                          *)
RaceLeft(t) == refresh[t].race < RaceRetries

(* The answer arrives: the browser stores its cookie, then run() goes on.   *)
RefreshAnswered(t) ==
  /\ refresh[t].pc = "answered"
  /\ cookie' = CookieAfter(refresh[t].answer)
  /\ LET kind == refresh[t].answer.kind
         s == refresh[t].answer.cookie.sid
         r == refresh[t]
     IN \/ /\ ~IsCurrent(t)
           /\ Settled(t, "transient_error", cookie', store[t])
           /\ UNCHANGED <<store, boot, inbox, ended>>
        \/ /\ IsCurrent(t) /\ kind = "ok"
           /\ ApplyAuthBundle(t, s, FALSE)
           /\ Settled(t, "authenticated", cookie', s)
           /\ UNCHANGED ended
        \/ /\ IsCurrent(t) /\ kind = "race" /\ RaceLeft(t)
           /\ refresh' = [refresh EXCEPT ![t].pc = "delay", ![t].race = @ + 1]
           /\ UNCHANGED <<lock, store, boot, inbox, api, logout, ended>>
        \/ /\ IsCurrent(t) /\ kind = "mismatch" /\ r.mismatch
           /\ store' = [store EXCEPT ![t] = Nil]
           /\ boot' = [boot EXCEPT ![t] = "idle"]
           /\ refresh' = [refresh EXCEPT ![t] = Sent([Idle EXCEPT !.mismatch = FALSE], Nil)]
           /\ UNCHANGED <<lock, inbox, api, logout, ended>>
        \/ /\ IsCurrent(t) /\ kind = "unauthorized"
           /\ ClearAuthentication(t, TRUE)
           /\ SawEnd(t)
           /\ Settled(t, "anonymous", cookie', Nil)
        \/ /\ IsCurrent(t) /\ kind = "error"
           /\ boot' = [boot EXCEPT ![t] = "idle"]
           /\ Settled(t, "transient_error", cookie', store[t])
           /\ UNCHANGED <<store, inbox, ended>>
        \/ /\ IsCurrent(t)
           /\ \/ kind = "other"
              \/ kind = "race" /\ ~RaceLeft(t)
              \/ kind = "mismatch" /\ ~r.mismatch
           /\ ClearAuthentication(t, FALSE)
           /\ Settled(t, "out_of_sync", cookie', Nil)
           /\ UNCHANGED ended
  /\ UNCHANGED <<sessions, pending, orphans, world, lost>>

(* A delay of waitForRefreshRace is over and run() starts again.            *)
RaceDelayOver(t) ==
  /\ refresh[t].pc = "delay"
  /\ \/ /\ IsCurrent(t)
        /\ refresh' = [refresh EXCEPT ![t] = Sent(@, store[t])]
        /\ UNCHANGED <<lock, api, logout>>
     \/ /\ ~IsCurrent(t)
        /\ Settled(t, "transient_error", cookie, store[t])
  /\ UNCHANGED <<sessions, cookie, store, boot, pending, inbox, orphans, world, ended, lost>>

(* A request given up: the server may not have seen it yet, and its answer  *)
(* is lost together with the cookie it carries.                             *)
Abandoned(t) ==
  LET r == refresh[t]
  IN /\ orphans' = IF r.pc = "sent" THEN orphans \cup {[sent |-> r.sent, expect |-> r.expect]} ELSE orphans
     /\ lost' = IF r.pc \in {"sent", "recovering", "answered"} /\ r.sent # Nil THEN lost \cup {r.sent.sid} ELSE lost

(* Mutant: the abort signal is not passed to the lock request.              *)
NoDeadlineForLock(t) ==
  /\ refresh[t].pc \notin {"none", "lock"}
  /\ Abandoned(t)
  /\ boot' = [boot EXCEPT ![t] = "idle"]
  /\ Settled(t, "transient_error", cookie, store[t])
  /\ UNCHANGED <<sessions, cookie, store, pending, inbox, world, ended>>

(* Mutant: the catch of performRefreshWithBrowserLock leaves the state.     *)
DeadlineWithoutMark(t) ==
  /\ refresh[t].pc # "none"
  /\ Abandoned(t)
  /\ Settled(t, "transient_error", cookie, store[t])
  /\ UNCHANGED <<sessions, cookie, store, boot, pending, inbox, world, ended>>

(* authRefreshDeadlineMs passes: the wait for the lock, the request or the  *)
(* delay is aborted.  run() and performRefreshWithBrowserLock both mark the *)
(* refresh transient, but run() looks at the epoch first.  An answer that   *)
(* was arriving may have left its cookie.                                   *)
Deadline(t) ==
  /\ refresh[t].pc # "none"
  /\ Abandoned(t)
  /\ boot' = IF IsCurrent(t) \/ refresh[t].pc \in {"lock", "delay"} THEN [boot EXCEPT ![t] = "idle"] ELSE boot
  /\ cookie' \in {cookie, CookieAfter(refresh[t].answer)}
  /\ Settled(t, "transient_error", cookie', store[t])
  /\ UNCHANGED <<sessions, store, pending, inbox, world, ended>>

(* An access token may be expired or about to, but not so soon after the    *)
(* login that superseded the running refresh: it lives 15 minutes, the      *)
(* refresh 10 seconds.                                                      *)
Stale(t) ==
  /\ store[t] # Nil
  /\ refresh[t].current

(* bootstrapAuthentication on a page load or a navigation, when no valid    *)
(* session is in memory and the page is not known to be anonymous.          *)
BootstrapAuthentication(t) ==
  /\ (boot[t] = "idle" /\ store[t] = Nil) \/ Stale(t)
  /\ Spend("refresh")
  /\ boot' = [boot EXCEPT ![t] = "checking"]
  /\ RefreshAuthentication(t)
  /\ UNCHANGED <<sessions, cookie, lock, store, api, logout, pending, inbox, orphans, ended, lost>>

(* getFreshAuthHeaders finds the token about to expire.                     *)
GetFreshAuthHeaders(t) ==
  /\ Stale(t)
  /\ Spend("refresh")
  /\ RefreshAuthentication(t)
  /\ UNCHANGED <<sessions, cookie, lock, tabVars, inbox, orphans, lost>>

(* An API call is answered 401, since the access token expired or the       *)
(* session ended.                                                           *)
Unauthorized(t) ==
  /\ store[t] # Nil
  /\ api[t] = "none"
  /\ Spend("refresh")
  /\ api' = [api EXCEPT ![t] = "refreshing"]
  /\ RefreshAuthentication(t)
  /\ UNCHANGED <<sessions, cookie, lock, store, boot, logout, pending, inbox, orphans, ended, lost>>

(* The call is sent again with the new token and succeeds.                  *)
RetrySucceeds(t) ==
  /\ api[t] = "retried"
  /\ api' = [api EXCEPT ![t] = "none"]
  /\ UNCHANGED <<sessions, cookie, lock, store, boot, refresh, logout, pending, inbox, orphans, world, ended, lost>>

(* The second 401 of a call (authRetry).                                    *)
RetryUnauthorized(t) ==
  /\ api[t] = "retried"
  /\ store[t] # Nil => sessions[store[t]].status # "active" \/ sessions[store[t]].outdated
  /\ api' = [api EXCEPT ![t] = "redirect"]
  /\ ClearAuthentication(t, FALSE)
  /\ NextEpoch(t)
  /\ UNCHANGED <<sessions, cookie, lock, logout, pending, orphans, world, ended, lost>>

(* A page goes away and its tab loads a new one: memory is lost, requests   *)
(* are cut, the lock is released.                                           *)
PageLoad(t) ==
  /\ store' = [store EXCEPT ![t] = Nil]
  /\ boot' = [boot EXCEPT ![t] = "idle"]
  /\ refresh' = [refresh EXCEPT ![t] = Idle]
  /\ lock' = IF lock = t THEN Nil ELSE lock
  /\ api' = [api EXCEPT ![t] = "none"]
  /\ logout' = [logout EXCEPT ![t] = NoLogout]
  /\ pending' = [pending EXCEPT ![t] = NothingPending]
  /\ inbox' = [inbox EXCEPT ![t] = <<>>]
  /\ ended' = [ended EXCEPT ![t] = {}]
  /\ Abandoned(t)

(* redirectToSignIn replaces the page, unless it is the sign-in page.       *)
RedirectToSignIn(t) ==
  /\ api[t] = "redirect"
  /\ \/ PageLoad(t)
     \/ /\ api' = [api EXCEPT ![t] = "none"]
        /\ UNCHANGED <<store, boot, refresh, lock, logout, pending, inbox, ended, orphans, lost>>
  /\ UNCHANGED <<sessions, cookie, world>>

(* The user reloads the page.                                               *)
Leave(t) ==
  /\ Spend("leave")
  /\ PageLoad(t)
  /\ UNCHANGED <<sessions, cookie>>

(* The listener of routes/__root.tsx on the oldest event.  The tab that     *)
(* learns of another session reloads.                                       *)
SessionEvent(t) ==
  /\ inbox[t] # <<>>
  /\ LET e == Head(inbox[t])
         rest == [inbox EXCEPT ![t] = Tail(@)]
     IN \/ /\ e.kind = "authenticated" /\ e.sid # store[t]
           /\ PageLoad(t)
        \/ /\ e.kind = "signed_out" /\ e.sid = store[t]
           /\ store' = [store EXCEPT ![t] = Nil]
           /\ boot' = [boot EXCEPT ![t] = "complete"]
           /\ SawEnd(t)
           /\ NextEpoch(t)
           /\ inbox' = rest
           /\ UNCHANGED <<lock, api, logout, pending, orphans, lost>>
        \/ /\ (e.kind = "authenticated") = (e.sid = store[t])
           /\ inbox' = rest
           /\ UNCHANGED <<lock, refresh, orphans, lost, tabVars>>
  /\ UNCHANGED <<sessions, cookie, world>>

(* An event older than a minute is dropped (a tab that was frozen).         *)
EventTooOld(t) ==
  /\ inbox[t] # <<>>
  /\ Spend("fault")
  /\ inbox' = [inbox EXCEPT ![t] = Tail(@)]
  /\ UNCHANGED <<sessions, cookie, lock, refresh, tabVars, orphans, lost>>
-----------------------------------------------------------------------------
(* Logins, security changes and sign-outs.                                  *)

(* The server accepts a login of the sign-in page and creates a session.    *)
Login(t) ==
  /\ store[t] = Nil
  /\ pending[t].kind = "none"
  /\ Spend("login")
  /\ \E s \in Sids:
       /\ sessions[s].status = "unused"
       /\ sessions' = [sessions EXCEPT ![s].status = "active"]
       /\ pending' = [pending EXCEPT ![t] = [kind |-> "login", sid |-> s]]
  /\ UNCHANGED <<cookie, lock, store, boot, refresh, api, logout, inbox, orphans, ended, lost>>

(* Its answer: the cookie, and handleLoginSuccess.                          *)
LoginAnswered(t) ==
  /\ pending[t].kind = "login"
  /\ cookie' = [sid |-> pending[t].sid, gen |-> 0]
  /\ ApplyAuthBundle(t, pending[t].sid, TRUE)
  /\ NextEpoch(t)
  /\ pending' = [pending EXCEPT ![t] = NothingPending]
  /\ UNCHANGED <<sessions, lock, api, logout, orphans, world, ended, lost>>

(* A password, passkey or two-factor change commits and moves the           *)
(* auth_version of the user: every session of the user is behind.           *)
SecurityChange(t) ==
  /\ store[t] # Nil
  /\ sessions[store[t]].status = "active"
  /\ ~sessions[store[t]].outdated
  /\ pending[t].kind = "none"
  /\ Spend("change")
  /\ sessions' = [s \in Sids |-> [sessions[s] EXCEPT !.outdated = @ \/ sessions[s].status = "active"]]
  /\ pending' = [pending EXCEPT ![t] = [kind |-> "changing", sid |-> store[t]]]
  /\ UNCHANGED <<cookie, lock, store, boot, refresh, api, logout, inbox, orphans, ended, lost>>

(* advanceCurrentSessionToVersionAt, in a transaction of its own: the       *)
(* session catches up and the other ones are revoked, unless it was revoked *)
(* in between.                                                              *)
AdvanceCurrentSession(t) ==
  /\ pending[t].kind = "changing"
  /\ LET s == pending[t].sid
         advanced == sessions[s].status = "active"
     IN /\ sessions' = IF ~advanced THEN sessions
                       ELSE [u \in Sids |-> IF u = s THEN [sessions[u] EXCEPT !.outdated = FALSE]
                                            ELSE IF sessions[u].status = "active"
                                              THEN [sessions[u] EXCEPT !.status = "removed"] ELSE sessions[u]]
        /\ pending' = [pending EXCEPT ![t].kind = IF advanced THEN "rotation" ELSE "failed"]
  /\ UNCHANGED <<cookie, lock, store, boot, refresh, api, logout, inbox, orphans, world, ended, lost>>

(* applyAuthRotation: only for the session in memory.  A change that could  *)
(* not keep the session asks for a new login or fails; both leave the       *)
(* session unusable.                                                        *)
RotationAnswered(t) ==
  /\ pending[t].kind \in {"rotation", "failed"}
  /\ pending' = [pending EXCEPT ![t] = NothingPending]
  /\ \/ /\ pending[t].kind = "rotation" /\ pending[t].sid = store[t]
        /\ ApplyAuthBundle(t, pending[t].sid, FALSE)
        /\ NextEpoch(t)
        /\ UNCHANGED <<cookie, ended>>
     \/ /\ pending[t].kind = "failed"
        /\ cookie' = Nil
        /\ ClearAuthentication(t, TRUE)
        /\ SawEnd(t)
        /\ NextEpoch(t)
     \/ /\ pending[t].kind = "failed" \/ pending[t].sid # store[t]
        /\ UNCHANGED <<cookie, store, boot, refresh, inbox, ended>>
  /\ UNCHANGED <<sessions, lock, api, logout, orphans, world, lost>>

(* logout() of the sign-out dialog, or before an OAuth login: the request   *)
(* carries the session in memory, if any.                                   *)
Logout(t) ==
  /\ logout[t].pc = "none"
  /\ pending[t].kind # "login"
  /\ Spend("logout")
  /\ logout' = [logout EXCEPT ![t] = [NoLogout EXCEPT !.pc = "sent", !.sent = cookie, !.expect = store[t]]]
  /\ UNCHANGED <<sessions, cookie, lock, store, boot, refresh, api, pending, inbox, orphans, ended, lost>>

(* RevokeUserSessionByRefreshHash accepts the current secret, and the       *)
(* previous one inside the grace window.                                    *)
Accepted(c) ==
  \/ c.gen = sessions[c.sid].gen
  \/ c.gen + 1 = sessions[c.sid].gen /\ sessions[c.sid].grace

(* AuthLogout, with a valid access token or with the cookie only.  "kept"   *)
(* is success without touching the cookie.                                  *)
AuthLogout(t) ==
  /\ logout[t].pc = "sent"
  /\ LET c == logout[t].sent
         e == logout[t].expect
         mismatch == c # Nil /\ e # Nil /\ c.sid # e
         Answered(k) == logout' = [logout EXCEPT ![t].pc = "answered", ![t].answer = Answer(k, Nil)]
     IN \/ /\ mismatch
           /\ Answered("mismatch")
           /\ UNCHANGED sessions
        \/ /\ ~mismatch /\ e # Nil
           /\ sessions' = Revoked(sessions, e, "logout")
           /\ Answered(IF c = Nil THEN "kept" ELSE "ok")
        \/ /\ ~mismatch
           /\ sessions' = IF c # Nil /\ Accepted(c) THEN Revoked(sessions, c.sid, "logout") ELSE sessions
           /\ Answered("ok")
  /\ UNCHANGED <<cookie, lock, store, boot, refresh, api, pending, inbox, orphans, world, ended, lost>>

(* executeLogout: a mismatch is cured by a refresh and one more try.  After *)
(* a success handleSignOut clears the session.                              *)
LogoutAnswered(t) ==
  /\ logout[t].pc = "answered"
  /\ LET kind == logout[t].answer.kind
     IN \/ /\ kind \in {"ok", "kept"}
           /\ cookie' = IF kind = "ok" THEN Nil ELSE cookie
           /\ logout' = [logout EXCEPT ![t] = NoLogout]
           /\ ClearAuthentication(t, TRUE)
           /\ SawEnd(t)
           /\ NextEpoch(t)
        \/ /\ kind = "mismatch" /\ logout[t].recovery
           /\ logout' = [logout EXCEPT ![t].pc = "refreshing"]
           /\ RefreshAuthentication(t)
           /\ UNCHANGED <<cookie, store, boot, inbox, ended>>
        \/ /\ kind = "mismatch" /\ ~logout[t].recovery
           /\ logout' = [logout EXCEPT ![t] = NoLogout]
           /\ UNCHANGED <<cookie, refresh, store, boot, inbox, ended>>
  /\ UNCHANGED <<sessions, lock, api, pending, orphans, world, lost>>
-----------------------------------------------------------------------------
TabStep(t) ==
  \/ RefreshAuth(t) \/ RecoverUserSessionRefresh(t)
  \/ RefreshRejected(t) \/ RefreshNotIssued(t) \/ SessionLookupFails(t)
  \/ LockGranted(t) \/ RefreshAnswered(t) \/ RaceDelayOver(t) \/ Deadline(t)
  \/ BootstrapAuthentication(t) \/ GetFreshAuthHeaders(t)
  \/ Unauthorized(t) \/ RetrySucceeds(t) \/ RetryUnauthorized(t) \/ RedirectToSignIn(t)
  \/ Leave(t) \/ SessionEvent(t) \/ EventTooOld(t)
  \/ Login(t) \/ LoginAnswered(t)
  \/ SecurityChange(t) \/ AdvanceCurrentSession(t) \/ RotationAnswered(t)
  \/ Logout(t) \/ AuthLogout(t) \/ LogoutAnswered(t)

Next ==
  \/ \E t \in Tabs: TabStep(t)
  \/ \E s \in Sids: GraceEnds(s) \/ RevokedElsewhere(s)
  \/ \E o \in orphans: RefreshAuthUnheard(o)

(* The deadline is a timer of the page: it always fires.                    *)
Spec == Init /\ [][Next]_vars /\ \A t \in Tabs: WF_vars(Deadline(t))
-----------------------------------------------------------------------------
(* A page that dropped a revoked session (a sign-out, the sign-out of       *)
(* another tab, a refresh answered 401) never shows that session again: an  *)
(* answer that was under way is superseded (isCurrent, authEpoch).          *)
SignedOutStaysOut ==
  [][\A t \in Tabs: \A s \in ended[t]: store'[t] # s]_vars

(* A page changes from one session to another only through a login on that  *)
(* page: a refresh never replaces the session in memory by another one, the *)
(* old one is cleared first (X-Auth-Session, AUTH_SESSION_MISMATCH).        *)
NoSilentSwitch ==
  [][\A t \in Tabs: store[t] # Nil /\ store'[t] \notin {store[t], Nil} => pending[t].kind = "login"]_vars

(* Under the browser lock the tabs never present an outdated secret to one  *)
(* another's cost: the server takes a replay for theft and revokes the      *)
(* session only after an answer of a refresh was lost.                      *)
ReuseNeedsALostAnswer ==
  world.locks => \A s \in Sids: sessions[s].status = "reuse" => s \in lost

(* A page that shows the check of its session has a refresh under way that  *)
(* will end it.                                                             *)
CheckingIsUnderWay ==
  \A t \in Tabs: boot[t] = "checking" => refresh[t].pc # "none" /\ refresh[t].current

(* Whatever the lock, the network and the other tabs do, nothing waits for  *)
(* a refresh for ever: not the start of a page, not an API call, not a      *)
(* sign-out.                                                                *)
NobodyWaitsForever ==
  \A t \in Tabs:
    (boot[t] = "checking" \/ api[t] = "refreshing" \/ logout[t].pc = "refreshing")
      ~> ~(boot[t] = "checking" \/ api[t] = "refreshing" \/ logout[t].pc = "refreshing")

(* The comment of AdvanceCurrentSessionSecurity: a security change          *)
(* preserves the session it is made from.                                   *)
SecurityChangeKeepsTheSession ==
  \A t \in Tabs: pending[t].kind = "changing" => sessions[pending[t].sid].status # "changed"
=============================================================================
