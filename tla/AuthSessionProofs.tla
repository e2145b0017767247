------------------------- MODULE AuthSessionProofs -------------------------
(***************************************************************************)
(* The login session of any number of tabs, for any number of logins,       *)
(* refreshes, security changes, faults and retries.                         *)
(***************************************************************************)
EXTENDS AuthSession, TLAPS

(* A refresh that a page waits for with its start belongs to the current    *)
(* epoch.                                                                   *)
EpochInv ==
  \A t \in Tabs:
    /\ boot[t] # "complete" => refresh[t].current
    /\ boot[t] = "checking" => refresh[t].pc # "none"

InFlight(r) == r.pc \in {"sent", "recovering", "answered"}

(* An answer with a session is about the session that was asked for, if one *)
(* was; and as long as its epoch lasts a request asks for the session in    *)
(* memory.                                                                  *)
AnswerInv ==
  \A t \in Tabs:
    LET r == refresh[t]
    IN /\ r.answer.kind = "ok" => r.pc = "answered" /\ r.answer.cookie = NextSecret(r.sent)
       /\ r.answer.kind = "ok" \/ r.pc = "recovering" => r.sent # Nil /\ r.expect \in {Nil, r.sent.sid}
       /\ InFlight(r) /\ r.current => r.expect = store[t]

(* A session that a page saw end is over; the page does not show it and no  *)
(* refresh of the current epoch brings it back.                             *)
EndInv ==
  \A t \in Tabs: \A s \in ended[t]:
    LET r == refresh[t]
    IN /\ sessions[s].status \notin {"unused", "active"}
       /\ store[t] # s
       /\ r.current /\ (r.answer.kind = "ok" \/ r.pc = "recovering") => r.sent.sid # s

(* A session that was not created, or whose login was not answered.         *)
Fresh(s) == sessions[s].status = "unused" \/ \E t \in Tabs: pending[t].kind = "login" /\ pending[t].sid = s

Touches(c, s) == c # Nil /\ c.sid = s

(* Nothing in the browser knows a fresh session.                            *)
FreshInv ==
  /\ \A t \in Tabs: pending[t].kind = "login" => pending[t].sid \in Sids /\ sessions[pending[t].sid].status # "unused"
  /\ \A t, u \in Tabs: pending[t].kind = "login" /\ pending[u] = pending[t] => t = u
  /\ \A s \in Sids: Fresh(s) =>
       /\ sessions[s].gen = 0
       /\ ~Touches(cookie, s)
       /\ \A t \in Tabs: store[t] # s /\ s \notin ended[t] /\ ~Touches(refresh[t].sent, s)
       /\ \A o \in orphans: ~Touches(o.sent, s)

HasLock == {"sent", "recovering", "answered", "delay"}

(* Under the lock, as long as no answer about session s was lost: whoever   *)
(* presents a secret of s presents the current one, and the cookie is the   *)
(* current one unless its successor is on the way.                          *)
SecretInv(s) ==
  /\ \A t \in Tabs:
       LET r == refresh[t]
       IN Touches(r.sent, s) =>
            /\ r.pc = "sent" => r.sent.gen = sessions[s].gen
            /\ r.pc # "recovering"
            /\ r.answer.kind = "ok" => r.sent.gen + 1 = sessions[s].gen
  /\ Touches(cookie, s) =>
       cookie.gen = sessions[s].gen \/ \E t \in Tabs: refresh[t].answer.kind = "ok" /\ Touches(refresh[t].sent, s)
  /\ \A o \in orphans: ~Touches(o.sent, s)
  /\ sessions[s].status # "reuse"

LockInv ==
  world.locks =>
    /\ \A t \in Tabs: refresh[t].pc \in HasLock => lock = t
    /\ \A s \in Sids \ lost: SecretInv(s)

AuthInv == TypeOK /\ EpochInv /\ AnswerInv /\ EndInv /\ FreshInv /\ LockInv

-----------------------------------------------------------------------------
(* Types.                                                                   *)

SidOrNil == Sids \cup {Nil}
CookieOrNil == Cookies \cup {Nil}
AnswerRow == [kind: Kinds, cookie: CookieOrNil]
SessionRow == [status: Statuses, gen: Nat, grace: BOOLEAN, outdated: BOOLEAN]
RefreshRow ==
  [pc: {"none", "lock", "sent", "recovering", "answered", "delay"}, current: BOOLEAN, race: 0..RaceRetries,
   mismatch: BOOLEAN, sent: CookieOrNil, expect: SidOrNil, answer: AnswerRow]
LogoutRow ==
  [pc: {"none", "sent", "answered", "refreshing"}, sent: CookieOrNil, expect: SidOrNil, recovery: BOOLEAN,
   answer: AnswerRow]
PendingRow == [kind: {"none", "login", "changing", "rotation", "failed"}, sid: SidOrNil]
Event == [kind: {"authenticated", "signed_out"}, sid: Sids]
BootStates == {"idle", "checking", "complete"}
ApiStates == {"none", "refreshing", "retried", "redirect"}

(* The type of the state as seen by a tab, and of what the tabs share.      *)
TabTypes ==
  /\ store \in [Tabs -> SidOrNil] /\ boot \in [Tabs -> BootStates] /\ refresh \in [Tabs -> RefreshRow]
  /\ api \in [Tabs -> ApiStates] /\ logout \in [Tabs -> LogoutRow] /\ pending \in [Tabs -> PendingRow]
  /\ ended \in [Tabs -> SUBSET Sids]
SharedTypes ==
  /\ sessions \in [Sids -> SessionRow] /\ cookie \in CookieOrNil /\ lock \in Tabs \cup {Nil}
  /\ inbox \in [Tabs -> Seq(Event)] /\ orphans \subseteq [sent: CookieOrNil, expect: SidOrNil]
  /\ world \in [locks: BOOLEAN, left: [Outside -> Nat]] /\ lost \subseteq Sids

LEMMA Types == TypeOK <=> TabTypes /\ SharedTypes
BY DEF TypeOK, TabTypes, SharedTypes, SidOrNil, CookieOrNil, AnswerRow, SessionRow, RefreshRow, LogoutRow, PendingRow,
       Event, BootStates, ApiStates

LEMMA TypesNext == TypeOK' <=> TabTypes' /\ SharedTypes'
BY DEF TypeOK, TabTypes, SharedTypes, SidOrNil, CookieOrNil, AnswerRow, SessionRow, RefreshRow, LogoutRow, PendingRow,
       Event, BootStates, ApiStates

LEMMA AnswerType == \A k \in Kinds, c \in CookieOrNil: Answer(k, c) \in AnswerRow /\ Answer(k, c).kind = k
BY DEF Answer, AnswerRow

LEMMA NothingTypes ==
  /\ NoAnswer \in AnswerRow /\ NoAnswer.kind = "none"
  /\ Idle \in RefreshRow /\ NoLogout \in LogoutRow /\ NothingPending \in PendingRow
  /\ Idle.pc = "none" /\ Idle.current /\ Idle.sent = Nil /\ Idle.expect = Nil /\ Idle.answer = NoAnswer
<1>1. NoAnswer \in AnswerRow /\ NoAnswer.kind = "none" BY DEF NoAnswer, Answer, AnswerRow, Kinds, CookieOrNil
<1>2. 0 \in 0..RaceRetries BY AuthAssumption
<1>3. Idle \in RefreshRow
  BY <1>1, <1>2 DEF Idle, RefreshRow, CookieOrNil, SidOrNil
<1>4. NoLogout \in LogoutRow BY <1>1 DEF NoLogout, LogoutRow, CookieOrNil, SidOrNil
<1>5. NothingPending \in PendingRow BY DEF NothingPending, PendingRow, SidOrNil
<1> QED BY <1>1, <1>3, <1>4, <1>5 DEF Idle

(* A request as it is sent.                                                 *)
LEMMA SentType ==
  ASSUME NEW r \in RefreshRow, NEW s \in SidOrNil, cookie \in CookieOrNil
  PROVE  /\ Sent(r, s) \in RefreshRow /\ Sent(r, s).pc = "sent" /\ Sent(r, s).sent = cookie /\ Sent(r, s).expect = s
         /\ Sent(r, s).answer = NoAnswer /\ Sent(r, s).current = r.current
BY NothingTypes DEF Sent, RefreshRow

(* The secret after a presented one belongs to the same session.            *)
LEMMA SecretType ==
  ASSUME NEW c \in Cookies
  PROVE  NextSecret(c) \in Cookies /\ NextSecret(c).sid = c.sid /\ NextSecret(c).gen = c.gen + 1
BY DEF Cookies, NextSecret

LEMMA NilIsNothing == Nil \notin Sids /\ Nil \notin Tabs
BY AuthAssumption

-----------------------------------------------------------------------------
(* What a step of one tab must respect, invariant by invariant.             *)

LEMMA EpochKept ==
  ASSUME TabTypes, EpochInv, NEW t \in Tabs, NEW r, NEW b,
         refresh' = [refresh EXCEPT ![t] = r], boot' = [boot EXCEPT ![t] = b],
         b # "complete" => r.current, b = "checking" => r.pc # "none"
  PROVE  EpochInv'
<1> SUFFICES ASSUME NEW u \in Tabs
             PROVE  /\ boot'[u] # "complete" => refresh'[u].current
                    /\ boot'[u] = "checking" => refresh'[u].pc # "none"
  BY DEF EpochInv
<1>1. CASE u = t
  <2>1. refresh'[u] = r /\ boot'[u] = b BY <1>1 DEF TabTypes
  <2> QED BY <2>1
<1>2. CASE u # t
  <2>1. refresh'[u] = refresh[u] /\ boot'[u] = boot[u] BY <1>2 DEF TabTypes
  <2> QED BY <2>1 DEF EpochInv
<1> QED BY <1>1, <1>2

AnswerFits(r, s) ==
  /\ r.answer.kind = "ok" => r.pc = "answered" /\ r.answer.cookie = NextSecret(r.sent)
  /\ r.answer.kind = "ok" \/ r.pc = "recovering" => r.sent # Nil /\ r.expect \in {Nil, r.sent.sid}
  /\ InFlight(r) /\ r.current => r.expect = s

LEMMA AnswerKept ==
  ASSUME TabTypes, AnswerInv, NEW t \in Tabs, NEW r, NEW s,
         refresh' = [refresh EXCEPT ![t] = r], store' = [store EXCEPT ![t] = s], AnswerFits(r, s)
  PROVE  AnswerInv'
<1> SUFFICES ASSUME NEW u \in Tabs PROVE AnswerFits(refresh'[u], store'[u])
  BY DEF AnswerInv, AnswerFits
<1>1. CASE u = t
  <2>1. refresh'[u] = r /\ store'[u] = s BY <1>1 DEF TabTypes
  <2> QED BY <2>1
<1>2. CASE u # t
  <2>1. refresh'[u] = refresh[u] /\ store'[u] = store[u] BY <1>2 DEF TabTypes
  <2> QED BY <2>1 DEF AnswerInv, AnswerFits
<1> QED BY <1>1, <1>2

(* A row only moves forward: created once, then over.                       *)
RowsAdvance ==
  \A s \in Sids:
    /\ sessions[s].status \notin {"unused", "active"} => sessions'[s].status \notin {"unused", "active"}
    /\ sessions'[s].status = "unused" => sessions[s].status = "unused"

(* The sessions a page saw end, with its refresh and its session.           *)
EndFits(r, x, e) ==
  \A s \in e: /\ sessions'[s].status \notin {"unused", "active"}
              /\ x # s
              /\ r.current /\ (r.answer.kind = "ok" \/ r.pc = "recovering") => r.sent.sid # s

LEMMA EndKept ==
  ASSUME TabTypes, EndInv, RowsAdvance, NEW t \in Tabs, NEW r, NEW x, NEW e \in SUBSET Sids,
         refresh' = [refresh EXCEPT ![t] = r], store' = [store EXCEPT ![t] = x], ended' = [ended EXCEPT ![t] = e],
         EndFits(r, x, e)
  PROVE  EndInv'
<1> SUFFICES ASSUME NEW u \in Tabs, NEW s \in ended'[u]
             PROVE  /\ sessions'[s].status \notin {"unused", "active"}
                    /\ store'[u] # s
                    /\ refresh'[u].current /\ (refresh'[u].answer.kind = "ok" \/ refresh'[u].pc = "recovering")
                         => refresh'[u].sent.sid # s
  BY DEF EndInv
<1>1. CASE u = t
  <2>1. refresh'[u] = r /\ store'[u] = x /\ ended'[u] = e BY <1>1 DEF TabTypes
  <2> QED BY <2>1 DEF EndFits
<1>2. CASE u # t
  <2>1. refresh'[u] = refresh[u] /\ store'[u] = store[u] /\ ended'[u] = ended[u] /\ s \in Sids BY <1>2 DEF TabTypes
  <2> QED BY <2>1 DEF EndInv, RowsAdvance
<1> QED BY <1>1, <1>2

(* The browser knows session s.                                             *)
Known(s) ==
  \/ Touches(cookie, s)
  \/ \E t \in Tabs: store[t] = s \/ s \in ended[t] \/ Touches(refresh[t].sent, s)
  \/ \E o \in orphans: Touches(o.sent, s)

LEMMA FreshIsUnknown == FreshInv => \A s \in Sids: Fresh(s) => sessions[s].gen = 0 /\ ~Known(s)
BY DEF FreshInv, Known

LEMMA KnownKept ==
  ASSUME TabTypes, NEW t \in Tabs, NEW r, NEW x, NEW e, NEW s \in Sids,
         refresh' = [refresh EXCEPT ![t] = r], store' = [store EXCEPT ![t] = x], ended' = [ended EXCEPT ![t] = e],
         Touches(cookie', s) => Known(s),
         x = s => Known(s), s \in e => Known(s), Touches(r.sent, s) => Known(s),
         \A o \in orphans': Touches(o.sent, s) => Known(s)
  PROVE  Known(s)' => Known(s)
<1>1. ASSUME NEW u \in Tabs, store'[u] = s \/ s \in ended'[u] \/ Touches(refresh'[u].sent, s) PROVE Known(s)
  <2>1. CASE u = t
    <3>1. refresh'[u] = r /\ store'[u] = x /\ ended'[u] = e BY <2>1 DEF TabTypes
    <3> QED BY <1>1, <3>1
  <2>2. CASE u # t
    <3>1. refresh'[u] = refresh[u] /\ store'[u] = store[u] /\ ended'[u] = ended[u] BY <2>2 DEF TabTypes
    <3> QED BY <1>1, <3>1 DEF Known
  <2> QED BY <2>1, <2>2
<1>2. Touches(cookie, s)' = Touches(cookie', s) BY DEF Touches
<1>3. Known(s)' <=> \/ Touches(cookie', s)
                    \/ \E u \in Tabs: store'[u] = s \/ s \in ended'[u] \/ Touches(refresh'[u].sent, s)
                    \/ \E o \in orphans': Touches(o.sent, s)
  BY DEF Known, Touches
<1> QED BY <1>1, <1>3

(* Every step but a login and its answer.                                   *)
LEMMA FreshKept ==
  ASSUME TabTypes, FreshInv, RowsAdvance,
         \A u \in Tabs: pending'[u].kind = "login" => pending'[u] = pending[u],
         \A s \in Sids: Known(s)' => Known(s),
         \A s \in Sids: sessions'[s].gen = sessions[s].gen \/ Known(s)
  PROVE  FreshInv'
<1>1. \A s \in Sids: Fresh(s)' => Fresh(s)
  BY DEF Fresh, RowsAdvance
<1>2. \A s \in Sids: Fresh(s)' => sessions'[s].gen = 0 /\ ~Known(s)'
  BY <1>1, FreshIsUnknown
<1>3. \A s \in Sids: Fresh(s)' =>
       /\ sessions'[s].gen = 0
       /\ ~Touches(cookie, s)'
       /\ \A u \in Tabs: store'[u] # s /\ s \notin ended'[u] /\ ~Touches(refresh[u].sent, s)'
       /\ \A o \in orphans': ~Touches(o.sent, s)
  BY <1>2 DEF Known, Touches
<1>4. \A u \in Tabs: pending'[u].kind = "login" =>
         pending'[u].sid \in Sids /\ sessions'[pending'[u].sid].status # "unused"
  BY DEF FreshInv, RowsAdvance
<1>5. \A u, v \in Tabs: pending'[u].kind = "login" /\ pending'[v] = pending'[u] => u = v
  BY DEF FreshInv
<1> QED BY <1>3, <1>4, <1>5 DEF FreshInv, Touches

(* What a step does to the secrets of a session s: the tab t that takes it  *)
(* is left with the refresh r.                                              *)
SecretFits(r, s, g) ==
  Touches(r.sent, s) =>
    /\ r.pc = "sent" => r.sent.gen = g
    /\ r.pc # "recovering"
    /\ r.answer.kind = "ok" => r.sent.gen + 1 = g

Successor(r, s) == r.answer.kind = "ok" /\ Touches(r.sent, s)

SecretStep(t, r, s) ==
  /\ SecretFits(r, s, sessions'[s].gen)
  /\ sessions'[s].gen = sessions[s].gen \/ refresh[t].pc \in HasLock
  /\ Touches(cookie', s) =>
       \/ cookie'.gen = sessions'[s].gen
       \/ Successor(r, s)
       \/ cookie' = cookie /\ sessions'[s].gen = sessions[s].gen /\ ~Successor(refresh[t], s)
  /\ \A o \in orphans': ~Touches(o.sent, s)
  /\ sessions'[s].status # "reuse"

LockStep(t, r) ==
  /\ r.pc \in HasLock => lock' = t
  /\ \A u \in Tabs \ {t}: lock = u => lock' = u
  /\ \A s \in Sids \ lost': SecretInv(s) => SecretStep(t, r, s)

(* SecretInv in the words of SecretFits and Successor.                      *)
LEMMA SecretWords ==
  ASSUME NEW s
  PROVE  SecretInv(s) <=>
           /\ \A t \in Tabs: SecretFits(refresh[t], s, sessions[s].gen)
           /\ Touches(cookie, s) => cookie.gen = sessions[s].gen \/ \E t \in Tabs: Successor(refresh[t], s)
           /\ \A o \in orphans: ~Touches(o.sent, s)
           /\ sessions[s].status # "reuse"
BY Zenon DEF SecretInv, SecretFits, Successor

LEMMA SecretWordsNext ==
  ASSUME NEW s
  PROVE  SecretInv(s)' <=>
           /\ \A t \in Tabs: SecretFits(refresh'[t], s, sessions'[s].gen)
           /\ Touches(cookie', s) => cookie'.gen = sessions'[s].gen \/ \E t \in Tabs: Successor(refresh'[t], s)
           /\ \A o \in orphans': ~Touches(o.sent, s)
           /\ sessions'[s].status # "reuse"
BY Zenon DEF SecretInv, SecretFits, Successor, Touches

LEMMA LockKept ==
  ASSUME TabTypes, AnswerInv, LockInv, NEW t \in Tabs, NEW r, refresh' = [refresh EXCEPT ![t] = r],
         world'.locks = world.locks, lost \subseteq lost', world.locks => LockStep(t, r)
  PROVE  LockInv'
<1> SUFFICES ASSUME world.locks
             PROVE  /\ \A u \in Tabs: refresh'[u].pc \in HasLock => lock' = u
                    /\ \A s \in Sids \ lost': SecretInv(s)'
  BY DEF LockInv
<1>0. refresh'[t] = r /\ \A u \in Tabs \ {t}: refresh'[u] = refresh[u] BY DEF TabTypes
<1>1. ASSUME NEW u \in Tabs, refresh'[u].pc \in HasLock PROVE lock' = u
  BY <1>0, <1>1 DEF LockInv, LockStep
<1>2. ASSUME NEW s \in Sids \ lost' PROVE SecretInv(s)'
  <2>1. SecretInv(s) BY <1>2 DEF LockInv
  <2>2. SecretStep(t, r, s) BY <1>2, <2>1 DEF LockStep
  <2>3. ASSUME NEW u \in Tabs PROVE SecretFits(refresh'[u], s, sessions'[s].gen)
    <3>1. CASE u = t BY <1>0, <2>2, <3>1 DEF SecretStep
    <3>2. CASE u # t /\ sessions'[s].gen = sessions[s].gen
      <4>1. SecretFits(refresh[u], s, sessions[s].gen) BY <2>1, SecretWords
      <4> QED BY <1>0, <3>2, <4>1
    <3>3. CASE u # t /\ refresh[t].pc \in HasLock
      <4>1. refresh[u].pc \notin HasLock BY <3>3 DEF LockInv
      <4>2. refresh[u].answer.kind # "ok" BY <4>1 DEF AnswerInv, HasLock
      <4>3. refresh'[u] = refresh[u] BY <1>0, <3>3
      <4> QED BY <4>1, <4>2, <4>3 DEF SecretFits, HasLock
    <3> QED BY <2>2, <3>1, <3>2, <3>3 DEF SecretStep
  <2>4. Touches(cookie', s) => cookie'.gen = sessions'[s].gen \/ \E u \in Tabs: Successor(refresh'[u], s)
    <3>1. CASE Successor(r, s) BY <1>0, <3>1
    <3>2. CASE cookie' = cookie /\ sessions'[s].gen = sessions[s].gen /\ ~Successor(refresh[t], s)
      <4>1. Touches(cookie, s) => cookie.gen = sessions[s].gen \/ \E u \in Tabs: Successor(refresh[u], s)
        BY <2>1, SecretWords
      <4>2. \A u \in Tabs: Successor(refresh[u], s) => Successor(refresh'[u], s) BY <1>0, <3>2
      <4> QED BY <3>2, <4>1, <4>2
    <3> QED BY <2>2, <3>1, <3>2 DEF SecretStep
  <2> QED BY <2>2, <2>3, <2>4, SecretWordsNext DEF SecretStep
<1> QED BY <1>1, <1>2

-----------------------------------------------------------------------------
(* A step of a tab t that leaves it with the refresh r, the session x, the  *)
(* bootstrap state b and the sessions e that it saw end.                    *)
Leaves(t, r, x, b, e) ==
  /\ r \in RefreshRow /\ x \in SidOrNil /\ b \in BootStates /\ e \in SUBSET Sids
  /\ refresh' = [refresh EXCEPT ![t] = r]
  /\ store' = [store EXCEPT ![t] = x]
  /\ boot' = [boot EXCEPT ![t] = b]
  /\ ended' = [ended EXCEPT ![t] = e]

(* The other variables keep their types, and the lock of the browser stays  *)
(* what it is.                                                              *)
OtherTypes ==
  /\ api \in [Tabs -> ApiStates] /\ logout \in [Tabs -> LogoutRow] /\ pending \in [Tabs -> PendingRow]
  /\ SharedTypes

EpochFits(r, b) == (b # "complete" => r.current) /\ (b = "checking" => r.pc # "none")

NoNewLogin == \A u \in Tabs: pending'[u].kind = "login" => pending'[u] = pending[u]

(* What tab t is left with, and the cookie and the orphans, were known.     *)
NothingNew(r, x, e) ==
  \A s \in Sids: (\/ Touches(cookie', s) \/ x = s \/ s \in e \/ Touches(r.sent, s)
                  \/ \E o \in orphans': Touches(o.sent, s)
                  \/ sessions'[s].gen # sessions[s].gen) => Known(s)

Steady == RowsAdvance /\ world'.locks = world.locks /\ lost \subseteq lost'

LEMMA TabStepTypes ==
  ASSUME TypeOK, NEW t \in Tabs, NEW r, NEW x, NEW b, NEW e, Leaves(t, r, x, b, e), OtherTypes'
  PROVE  TypeOK'
<1>1. TabTypes BY Types
<1>2. refresh' \in [Tabs -> RefreshRow] BY <1>1 DEF TabTypes, Leaves
<1>3. store' \in [Tabs -> SidOrNil] BY <1>1 DEF TabTypes, Leaves
<1>4. boot' \in [Tabs -> BootStates] BY <1>1 DEF TabTypes, Leaves
<1>5. ended' \in [Tabs -> SUBSET Sids] BY <1>1 DEF TabTypes, Leaves
<1> QED BY <1>2, <1>3, <1>4, <1>5, TypesNext DEF TabTypes, OtherTypes

LEMMA TabStepCore ==
  ASSUME AuthInv, NEW t \in Tabs, NEW r, NEW x, NEW b, NEW e, Leaves(t, r, x, b, e), OtherTypes',
         Steady, EpochFits(r, b), AnswerFits(r, x), EndFits(r, x, e), world.locks => LockStep(t, r)
  PROVE  TypeOK' /\ EpochInv' /\ AnswerInv' /\ EndInv' /\ LockInv'
<1>1. TypeOK' BY TabStepTypes DEF AuthInv
<1>2. TabTypes BY Types DEF AuthInv
<1>3. EpochInv' BY <1>2, EpochKept DEF AuthInv, Leaves, EpochFits
<1>4. AnswerInv' BY <1>2, AnswerKept DEF AuthInv, Leaves
<1>5. EndInv' BY <1>2, EndKept DEF AuthInv, Leaves, Steady
<1>6. LockInv' BY <1>2, LockKept DEF AuthInv, Leaves, Steady
<1> QED BY <1>1, <1>3, <1>4, <1>5, <1>6

LEMMA TabStepKept ==
  ASSUME AuthInv, NEW t \in Tabs, NEW r, NEW x, NEW b, NEW e, Leaves(t, r, x, b, e), OtherTypes',
         Steady, EpochFits(r, b), AnswerFits(r, x), EndFits(r, x, e), NoNewLogin, NothingNew(r, x, e),
         world.locks => LockStep(t, r)
  PROVE  AuthInv'
<1>1. TypeOK' /\ EpochInv' /\ AnswerInv' /\ EndInv' /\ LockInv' BY TabStepCore
<1>2. TabTypes BY Types DEF AuthInv
<1>3. ASSUME NEW s \in Sids PROVE Known(s)' => Known(s)
  BY <1>2, KnownKept DEF Leaves, NothingNew
<1>4. \A s \in Sids: sessions'[s].gen = sessions[s].gen \/ Known(s) BY DEF NothingNew
<1>5. FreshInv' BY <1>2, <1>3, <1>4, FreshKept DEF AuthInv, Steady, NoNewLogin
<1> QED BY <1>1, <1>5 DEF AuthInv

(* A step that leaves the pages alone and may only touch the sessions.      *)
Quiet ==
  /\ UNCHANGED <<cookie, lock, store, boot, refresh, ended, lost>>
  /\ orphans' \subseteq orphans
  /\ \A s \in Sids: sessions'[s].gen = sessions[s].gen \/ \E o \in orphans: Touches(o.sent, s)
  /\ \A s \in Sids: sessions'[s].status = "reuse" =>
       sessions[s].status = "reuse" \/ \E o \in orphans: Touches(o.sent, s)

LEMMA QuietTypes ==
  ASSUME TypeOK, Quiet, OtherTypes'
  PROVE  TypeOK'
BY Types, TypesNext DEF Quiet, OtherTypes, TabTypes

LEMMA QuietKept ==
  ASSUME AuthInv, Quiet, OtherTypes', Steady
  PROVE  /\ EpochInv' /\ AnswerInv' /\ EndInv' /\ LockInv'
         /\ \A s \in Sids: Known(s)' => Known(s)
         /\ NoNewLogin => AuthInv'
<1>1. TypeOK' BY QuietTypes DEF AuthInv
<1>2. TabTypes BY Types DEF AuthInv
<1>3. EpochInv' BY DEF AuthInv, Quiet, EpochInv
<1>4. AnswerInv' BY DEF AuthInv, Quiet, AnswerInv, InFlight
<1>5. EndInv'
  <2>1. \A t \in Tabs: \A s \in ended[t]: s \in Sids BY <1>2 DEF TabTypes
  <2> QED BY <2>1 DEF AuthInv, Quiet, EndInv, Steady, RowsAdvance
<1>6. \A s \in Sids: Known(s)' => Known(s)
  BY DEF Known, Touches, Quiet
<1>7. NoNewLogin => FreshInv'
  <2>1. \A s \in Sids: sessions'[s].gen = sessions[s].gen \/ Known(s) BY DEF Quiet, Known
  <2> QED BY <1>2, <1>6, <2>1, FreshKept DEF AuthInv, Steady, NoNewLogin
<1>8. LockInv'
  <2> SUFFICES ASSUME world.locks
               PROVE  /\ \A u \in Tabs: refresh'[u].pc \in HasLock => lock' = u
                      /\ \A s \in Sids \ lost': SecretInv(s)'
    BY DEF LockInv, Steady
  <2>1. \A u \in Tabs: refresh'[u].pc \in HasLock => lock' = u BY DEF AuthInv, LockInv, Quiet
  <2>2. ASSUME NEW s \in Sids \ lost' PROVE SecretInv(s)'
    <3>1. SecretInv(s) BY <2>2 DEF AuthInv, LockInv, Quiet
    <3>2. \A o \in orphans: ~Touches(o.sent, s) BY <3>1, SecretWords
    <3>3. sessions'[s].gen = sessions[s].gen /\ sessions'[s].status # "reuse" BY <3>1, <3>2, SecretWords DEF Quiet
    <3> QED BY <3>1, <3>2, <3>3, SecretWords, SecretWordsNext DEF Quiet
  <2> QED BY <2>1, <2>2
<1> QED BY <1>1, <1>3, <1>4, <1>5, <1>6, <1>7, <1>8 DEF AuthInv

-----------------------------------------------------------------------------
(* The operators that actions share.                                        *)

LEMMA SpendKeeps ==
  ASSUME SharedTypes, NEW k \in Outside, Spend(k)
  PROVE  world' \in [locks: BOOLEAN, left: [Outside -> Nat]] /\ world'.locks = world.locks
<1>1. world.left[k] - 1 \in Nat BY DEF SharedTypes, Spend
<1>2. world.left[k] - 1 \in Nat => [world.left EXCEPT ![k] = @ - 1] \in [Outside -> Nat] BY DEF SharedTypes
<1>3. world' = [world EXCEPT !.left = [world.left EXCEPT ![k] = @ - 1]] BY DEF Spend, SharedTypes
<1> QED BY <1>1, <1>2, <1>3 DEF SharedTypes

LEMMA OutsideHas ==
  /\ "login" \in Outside /\ "logout" \in Outside /\ "refresh" \in Outside /\ "change" \in Outside
  /\ "remove" \in Outside /\ "leave" \in Outside /\ "fault" \in Outside
BY DEF Outside

(* Only the owner of a secret that fits the row gets a verdict that changes *)
(* the row.                                                                 *)
LEMMA VerdictSays ==
  ASSUME SharedTypes, NEW c \in CookieOrNil, NEW e \in SidOrNil
  PROVE  LET v == Verdict(c, e)
         IN /\ v \in {"rotate", "race", "reuse", "changed"} =>
                 /\ c \in Cookies /\ c # Nil /\ e \in {Nil, c.sid} /\ sessions[c.sid].status = "active"
            /\ v = "rotate" => c.gen = sessions[c.sid].gen
            /\ v \in {"race", "reuse"} => c.gen + 1 = sessions[c.sid].gen
BY DEF Verdict, CookieOrNil

LEMMA RevokedRows ==
  ASSUME SharedTypes, NEW s \in Sids, NEW why \in Statuses \ {"unused", "active"},
         sessions' = Revoked(sessions, s, why)
  PROVE  /\ sessions' \in [Sids -> SessionRow]
         /\ RowsAdvance
         /\ \A u \in Sids: /\ sessions'[u].gen = sessions[u].gen
                           /\ sessions'[u].status # sessions[u].status => u = s /\ sessions'[u].status = why
<1>1. sessions \in [Sids -> SessionRow] BY DEF SharedTypes
<1>2. CASE sessions[s].status = "active"
  <2>1. sessions' = [sessions EXCEPT ![s] = [sessions[s] EXCEPT !.status = why]] BY <1>2 DEF Revoked
  <2>2. /\ [sessions[s] EXCEPT !.status = why] \in SessionRow
        /\ [sessions[s] EXCEPT !.status = why].gen = sessions[s].gen
        /\ [sessions[s] EXCEPT !.status = why].status = why
    BY <1>1 DEF SessionRow
  <2> QED BY <1>1, <1>2, <2>1, <2>2 DEF RowsAdvance
<1>3. CASE sessions[s].status # "active" BY <1>1, <1>3 DEF Revoked, RowsAdvance
<1> QED BY <1>2, <1>3

LEMMA RotatedRows ==
  ASSUME SharedTypes, NEW c \in CookieOrNil, NEW e \in SidOrNil, sessions' = Rotated(c, Verdict(c, e))
  PROVE  /\ sessions' \in [Sids -> SessionRow]
         /\ RowsAdvance
         /\ \A s \in Sids:
              /\ sessions'[s].gen # sessions[s].gen =>
                   Verdict(c, e) = "rotate" /\ c.sid = s /\ sessions'[s].gen = sessions[s].gen + 1
              /\ sessions'[s].status = "reuse" /\ sessions[s].status # "reuse" => Verdict(c, e) = "reuse" /\ c.sid = s
         /\ Verdict(c, e) = "rotate" => sessions'[c.sid].gen = c.gen + 1 /\ sessions'[c.sid].status = "active"
<1> DEFINE v == Verdict(c, e)
<1>1. sessions \in [Sids -> SessionRow] BY DEF SharedTypes
<1>2. CASE v = "rotate"
  <2>1. c \in Cookies /\ c.sid \in Sids /\ c.gen = sessions[c.sid].gen /\ sessions[c.sid].status = "active"
    BY <1>2, VerdictSays DEF Cookies
  <2> DEFINE row == [sessions[c.sid] EXCEPT !.gen = @ + 1, !.grace = TRUE]
  <2>2. sessions' = [sessions EXCEPT ![c.sid] = row] BY <1>1, <1>2, <2>1 DEF Rotated
  <2>3. /\ row \in SessionRow /\ row.gen = sessions[c.sid].gen + 1 /\ row.status = sessions[c.sid].status
    <3>1. sessions[c.sid] \in SessionRow BY <1>1, <2>1
    <3>2. sessions[c.sid].gen + 1 \in Nat BY <3>1 DEF SessionRow
    <3> DEFINE g == sessions[c.sid].gen + 1
    <3>3. row = [sessions[c.sid] EXCEPT !.gen = g, !.grace = TRUE] OBVIOUS
    <3> HIDE DEF g, row
    <3>4. row \in SessionRow /\ row.gen = g /\ row.status = sessions[c.sid].status
      BY <3>1, <3>2, <3>3 DEF SessionRow, g
    <3> QED BY <3>4 DEF g
  <2> HIDE DEF row
  <2> QED BY <1>1, <1>2, <2>1, <2>2, <2>3 DEF RowsAdvance
<1>3. CASE v \in {"reuse", "changed"}
  <2>1. c \in Cookies /\ c.sid \in Sids BY <1>3, VerdictSays DEF Cookies
  <2>2. v \in Statuses \ {"unused", "active"} BY <1>3 DEF Statuses
  <2>3. sessions' = Revoked(sessions, c.sid, v) BY <1>3 DEF Rotated
  <2> HIDE DEF v
  <2> QED BY <1>3, <2>1, <2>2, <2>3, RevokedRows DEF v
<1>4. CASE v \notin {"rotate", "reuse", "changed"}
  <2>1. sessions' = sessions BY <1>4 DEF Rotated
  <2> QED BY <1>1, <1>4, <2>1 DEF RowsAdvance
<1> QED BY <1>2, <1>3, <1>4

LEMMA AnswerForSays ==
  ASSUME NEW c \in CookieOrNil, NEW v, v = "rotate" => c \in Cookies
  PROVE  /\ AnswerFor(c, v) \in AnswerRow
         /\ AnswerFor(c, v).kind = "ok" => v = "rotate" /\ AnswerFor(c, v).cookie = NextSecret(c)
         /\ v = "rotate" => AnswerFor(c, v).kind = "ok"
<1>1. CASE v = "rotate"
  <2>1. AnswerFor(c, v) = Answer("ok", NextSecret(c)) BY <1>1 DEF AnswerFor
  <2>2. NextSecret(c) \in CookieOrNil BY <1>1, SecretType DEF CookieOrNil
  <2> QED BY <1>1, <2>1, <2>2, AnswerType DEF Kinds, Answer
<1>2. CASE v # "rotate"
  <2>1. AnswerFor(c, v) \in {Answer("mismatch", Nil), Answer("unauthorized", Nil)} BY <1>2 DEF AnswerFor
  <2>2. Nil \in CookieOrNil /\ {"mismatch", "unauthorized"} \subseteq Kinds BY DEF CookieOrNil, Kinds
  <2> QED BY <1>2, <2>1, <2>2, AnswerType
<1> QED BY <1>1, <1>2

LEMMA CookieAfterSays ==
  ASSUME SharedTypes, NEW a \in AnswerRow
  PROVE  CookieAfter(a) \in CookieOrNil
BY DEF CookieAfter, SharedTypes, AnswerRow, CookieOrNil

LEMMA OthersType ==
  ASSUME SharedTypes, NEW t \in Tabs, NEW k \in {"authenticated", "signed_out"}, NEW s \in Sids
  PROVE  Others(t, k, s) \in [Tabs -> Seq(Event)]
<1>1. [kind |-> k, sid |-> s] \in Event BY DEF Event
<1>2. \A u \in Tabs: inbox[u] \in Seq(Event) BY DEF SharedTypes
<1>3. \A u \in Tabs: Append(inbox[u], [kind |-> k, sid |-> s]) \in Seq(Event) BY <1>1, <1>2
<1> QED BY <1>2, <1>3 DEF Others

LEMMA InboxTail ==
  ASSUME SharedTypes, NEW t \in Tabs, inbox[t] # <<>>
  PROVE  [inbox EXCEPT ![t] = Tail(@)] \in [Tabs -> Seq(Event)] /\ Head(inbox[t]) \in Event
<1>1. inbox[t] \in Seq(Event) BY DEF SharedTypes
<1>2. Tail(inbox[t]) \in Seq(Event) /\ Head(inbox[t]) \in Event BY <1>1
<1> QED BY <1>2 DEF SharedTypes

LEMMA ResumedTypes ==
  ASSUME TypeOK, NEW t \in Tabs, NEW o, NEW c \in CookieOrNil, NEW s \in SidOrNil, Resumed(t, o, c, s)
  PROVE  api' \in [Tabs -> ApiStates] /\ logout' \in [Tabs -> LogoutRow]
<1>1. TabTypes BY Types
<1>2. PICK a \in ApiStates: api' = [api EXCEPT ![t] = a] BY <1>1 DEF Resumed, TabTypes, ApiStates
<1>3. [NoLogout EXCEPT !.pc = "sent", !.sent = c, !.expect = s, !.recovery = FALSE] \in LogoutRow
  BY NothingTypes DEF LogoutRow
<1>4. PICK l \in LogoutRow: logout' = [logout EXCEPT ![t] = l]
  BY <1>1, <1>3, NothingTypes DEF Resumed, TabTypes
<1> QED BY <1>1, <1>2, <1>4 DEF TabTypes

-----------------------------------------------------------------------------
(* The answers of the server.                                               *)

(* The request of tab t is answered, or its confirmation is under way: r.   *)
ServerStep(t, r) ==
  /\ refresh[t].pc \in {"sent", "recovering"}
  /\ r \in RefreshRow /\ r.pc \in {"recovering", "answered"}
  /\ r.sent = refresh[t].sent /\ r.expect = refresh[t].expect /\ r.current = refresh[t].current
  /\ r.answer.kind = "ok" => r.pc = "answered" /\ r.answer.cookie = NextSecret(r.sent)
  /\ r.answer.kind = "ok" \/ r.pc = "recovering" =>
       r.sent \in Cookies /\ r.sent # Nil /\ r.expect \in {Nil, r.sent.sid} /\ sessions[r.sent.sid].status = "active"
  /\ refresh' = [refresh EXCEPT ![t] = r]
  /\ UNCHANGED <<cookie, lock, tabVars, inbox, orphans>>

LEMMA ServerKept ==
  ASSUME AuthInv, NEW t \in Tabs, NEW r, ServerStep(t, r), Steady,
         sessions' \in [Sids -> SessionRow], world' \in [locks: BOOLEAN, left: [Outside -> Nat]], lost' \subseteq Sids,
         \A s \in Sids: sessions'[s].gen # sessions[s].gen => Touches(r.sent, s),
         world.locks => \A s \in Sids \ lost': SecretInv(s) =>
           /\ SecretFits(r, s, sessions'[s].gen)
           /\ sessions'[s].status # "reuse"
           /\ sessions'[s].gen # sessions[s].gen => Successor(r, s)
  PROVE  AuthInv'
<1> DEFINE x == store[t]
           b == boot[t]
           e == ended[t]
<1>1. TabTypes /\ SharedTypes BY Types DEF AuthInv
<1>2. OtherTypes' BY <1>1 DEF OtherTypes, SharedTypes, TabTypes, ServerStep, tabVars
<1>3. Leaves(t, r, x, b, e) BY <1>1 DEF TabTypes, Leaves, ServerStep, tabVars
<1>4. EpochFits(r, b)
  BY DEF AuthInv, EpochInv, EpochFits, ServerStep
<1>5. AnswerFits(r, x)
  BY DEF AuthInv, AnswerInv, AnswerFits, ServerStep, InFlight
<1>6. EndFits(r, x, e)
  <2> SUFFICES ASSUME NEW s \in e
               PROVE  /\ sessions'[s].status \notin {"unused", "active"}
                      /\ x # s
                      /\ r.current /\ (r.answer.kind = "ok" \/ r.pc = "recovering") => r.sent.sid # s
    BY DEF EndFits
  <2>1. s \in Sids BY <1>1 DEF TabTypes
  <2>2. sessions[s].status \notin {"unused", "active"} /\ x # s BY DEF AuthInv, EndInv
  <2>3. sessions'[s].status \notin {"unused", "active"} BY <2>1, <2>2 DEF Steady, RowsAdvance
  <2> QED BY <2>2, <2>3 DEF ServerStep
<1>7. NoNewLogin BY DEF NoNewLogin, ServerStep, tabVars
<1>8. NothingNew(r, x, e)
  BY DEF NothingNew, Known, ServerStep, tabVars
<1>9. ASSUME world.locks PROVE LockStep(t, r)
  <2>1. lock = t /\ refresh[t].pc \in HasLock BY <1>9 DEF AuthInv, LockInv, ServerStep, HasLock
  <2>2. ASSUME NEW s \in Sids \ lost', SecretInv(s) PROVE SecretStep(t, r, s)
    <3>1. refresh[t].answer.kind # "ok" BY DEF AuthInv, AnswerInv, ServerStep
    <3>2. ~Successor(refresh[t], s) BY <3>1 DEF Successor
    <3>3. cookie' = cookie /\ orphans' = orphans BY DEF ServerStep
    <3>4. \A o \in orphans: ~Touches(o.sent, s) BY <2>2, SecretWords
    <3> QED BY <1>9, <2>1, <2>2, <3>2, <3>3, <3>4 DEF SecretStep
  <2> QED BY <2>1, <2>2 DEF LockStep, ServerStep
<1> HIDE DEF x, b, e
<1> QED BY <1>2, <1>3, <1>4, <1>5, <1>6, <1>7, <1>8, <1>9, TabStepKept

LEMMA RefreshAuthKept ==
  ASSUME AuthInv, NEW t \in Tabs, RefreshAuth(t)
  PROVE  AuthInv'
<1> DEFINE c == refresh[t].sent
           e == refresh[t].expect
           v == Verdict(c, e)
           p == IF v = "race" THEN "recovering" ELSE "answered"
           a == IF v = "race" THEN refresh[t].answer ELSE AnswerFor(c, v)
           r == [refresh[t] EXCEPT !.pc = p, !.answer = a]
<1>1. TabTypes /\ SharedTypes BY Types DEF AuthInv
<1>2. refresh[t] \in RefreshRow /\ c \in CookieOrNil /\ e \in SidOrNil /\ refresh[t].answer \in AnswerRow
  BY <1>1 DEF TabTypes, RefreshRow
<1>3. refresh[t].pc = "sent" /\ refresh[t].answer.kind # "ok" BY DEF RefreshAuth, AuthInv, AnswerInv
<1>4. v \in {"rotate", "race", "reuse", "changed"} =>
        c \in Cookies /\ c # Nil /\ e \in {Nil, c.sid} /\ sessions[c.sid].status = "active"
  BY <1>1, <1>2, VerdictSays
<1>5. /\ a \in AnswerRow /\ p \in {"recovering", "answered"}
      /\ a.kind = "ok" => v = "rotate" /\ a.cookie = NextSecret(c)
      /\ v = "rotate" => a.kind = "ok"
  BY <1>2, <1>3, <1>4, AnswerForSays
<1>6. refresh' = [refresh EXCEPT ![t] = r] BY <1>1 DEF RefreshAuth, TabTypes
<1>7. sessions' = Rotated(c, v) BY DEF RefreshAuth
<1>8. p = "recovering" <=> v = "race" OBVIOUS
<1>9. v = "rotate" => c.gen = sessions[c.sid].gen BY <1>1, <1>2, VerdictSays
<1>10. v \in {"race", "reuse"} => c.gen + 1 = sessions[c.sid].gen BY <1>1, <1>2, VerdictSays
<1>11. /\ sessions' \in [Sids -> SessionRow] /\ RowsAdvance
       /\ \A s \in Sids:
            /\ sessions'[s].gen # sessions[s].gen => v = "rotate" /\ c.sid = s
            /\ sessions'[s].status = "reuse" /\ sessions[s].status # "reuse" => v = "reuse" /\ c.sid = s
       /\ v = "rotate" => sessions'[c.sid].gen = c.gen + 1
  BY <1>1, <1>2, <1>7, RotatedRows
<1> HIDE DEF v, p, a
<1>12. /\ r \in RefreshRow /\ r.pc = p /\ r.answer = a /\ r.sent = c /\ r.expect = e
       /\ r.current = refresh[t].current
  BY <1>2, <1>5 DEF RefreshRow
<1> HIDE DEF r
<1>13. ServerStep(t, r)
  BY <1>3, <1>4, <1>5, <1>6, <1>8, <1>12 DEF ServerStep, RefreshAuth
<1>14. Steady /\ world' = world /\ lost' = lost BY <1>11 DEF Steady, RefreshAuth
<1>15. \A s \in Sids: sessions'[s].gen # sessions[s].gen => Touches(r.sent, s)
  BY <1>4, <1>11, <1>12 DEF Touches
<1>16. ASSUME world.locks, NEW s \in Sids \ lost', SecretInv(s)
       PROVE  /\ SecretFits(r, s, sessions'[s].gen)
              /\ sessions'[s].status # "reuse"
              /\ sessions'[s].gen # sessions[s].gen => Successor(r, s)
  <2>1. sessions[s].status # "reuse" /\ SecretFits(refresh[t], s, sessions[s].gen) BY <1>16, SecretWords
  <2>2. Touches(c, s) => c.sid = s /\ c.gen = sessions[s].gen BY <1>3, <2>1 DEF SecretFits, Touches
  <2>3. Touches(c, s) => c.gen \in Nat BY <1>2 DEF CookieOrNil, Cookies, Touches
  <2>4. v \in {"race", "reuse"} => ~Touches(c, s) BY <1>10, <2>2, <2>3
  <2>5. SecretFits(r, s, sessions'[s].gen) BY <1>5, <1>8, <1>11, <1>12, <2>2, <2>4 DEF SecretFits
  <2>6. sessions'[s].status # "reuse" BY <1>4, <1>11, <2>1, <2>4 DEF Touches
  <2>7. sessions'[s].gen # sessions[s].gen => Successor(r, s) BY <1>4, <1>5, <1>11, <1>12 DEF Touches, Successor
  <2> QED BY <2>5, <2>6, <2>7
<1>17. world' \in [locks: BOOLEAN, left: [Outside -> Nat]] /\ lost' \subseteq Sids BY <1>1, <1>14 DEF SharedTypes
<1> QED BY <1>11, <1>13, <1>14, <1>15, <1>16, <1>17, ServerKept

(* The confirmation of a rotation that was raced.                           *)
LEMMA RecoverKept ==
  ASSUME AuthInv, NEW t \in Tabs, RecoverUserSessionRefresh(t)
  PROVE  AuthInv'
<1> DEFINE c == refresh[t].sent
           row == sessions[c.sid]
           a == CASE row.status # "active" \/ row.outdated -> Answer("unauthorized", Nil)
                  [] row.status = "active" /\ ~row.outdated /\ row.gen = c.gen + 1 /\ row.grace ->
                       Answer("ok", NextSecret(c))
                  [] OTHER -> Answer("race", Nil)
           r == [refresh[t] EXCEPT !.pc = "answered", !.answer = a]
<1>1. TabTypes /\ SharedTypes BY Types DEF AuthInv
<1>2. refresh[t] \in RefreshRow /\ c \in CookieOrNil /\ refresh[t].pc = "recovering"
  BY <1>1 DEF TabTypes, RefreshRow, RecoverUserSessionRefresh
<1>3. c # Nil /\ refresh[t].expect \in {Nil, c.sid} BY <1>2 DEF AuthInv, AnswerInv
<1>4. c \in Cookies BY <1>2, <1>3 DEF CookieOrNil
<1>5. /\ Nil \in CookieOrNil /\ NextSecret(c) \in CookieOrNil /\ {"unauthorized", "ok", "race"} \subseteq Kinds
  BY <1>4, SecretType DEF CookieOrNil, Kinds
<1>6. a \in {Answer("unauthorized", Nil), Answer("ok", NextSecret(c)), Answer("race", Nil)}
  OBVIOUS
<1>7. a = Answer("ok", NextSecret(c)) => row.status = "active"
  <2>1. Answer("ok", NextSecret(c)).kind = "ok" /\ Answer("unauthorized", Nil).kind = "unauthorized" BY DEF Answer
  <2> QED BY <2>1
<1>8. refresh' = [refresh EXCEPT ![t] = r] BY <1>1 DEF RecoverUserSessionRefresh, TabTypes
<1> HIDE DEF a
<1>9. a \in AnswerRow /\ (a.kind = "ok" => a.cookie = NextSecret(c) /\ row.status = "active")
  <2>1. Answer("ok", NextSecret(c)).cookie = NextSecret(c) BY DEF Answer
  <2> QED BY <1>5, <1>6, <1>7, <2>1, AnswerType
<1>10. /\ r \in RefreshRow /\ r.pc = "answered" /\ r.answer = a /\ r.sent = c /\ r.expect = refresh[t].expect
       /\ r.current = refresh[t].current
  BY <1>2, <1>9 DEF RefreshRow
<1> HIDE DEF r, row
<1>11. ServerStep(t, r)
  BY <1>2, <1>3, <1>4, <1>8, <1>9, <1>10 DEF ServerStep, RecoverUserSessionRefresh, row
<1>12. Steady /\ world' = world /\ lost' = lost /\ sessions' = sessions
  BY DEF Steady, RowsAdvance, RecoverUserSessionRefresh
<1>13. ASSUME world.locks, NEW s \in Sids \ lost', SecretInv(s)
       PROVE  SecretFits(r, s, sessions'[s].gen) /\ sessions'[s].status # "reuse"
  <2>1. sessions[s].status # "reuse" /\ SecretFits(refresh[t], s, sessions[s].gen) BY <1>13, SecretWords
  <2>2. ~Touches(c, s) BY <1>2, <2>1 DEF SecretFits
  <2> QED BY <1>10, <1>12, <2>1, <2>2 DEF SecretFits
<1> QED BY <1>1, <1>11, <1>12, <1>13, ServerKept DEF SharedTypes

(* A request that ends in an error, whatever was stored for it.             *)
LEMMA FailsKept ==
  ASSUME AuthInv, NEW t \in Tabs, NEW k \in {"error", "other", "unauthorized"}, Fails(t, k),
         refresh[t].pc \in {"sent", "recovering"}, Spend("fault"), RowsAdvance, sessions' \in [Sids -> SessionRow],
         lost \subseteq lost', lost' \subseteq Sids, UNCHANGED <<cookie, lock, tabVars, inbox, orphans>>,
         \A s \in Sids: sessions'[s].gen # sessions[s].gen => Touches(refresh[t].sent, s) /\ s \in lost',
         \A s \in Sids: sessions'[s].status = "reuse" => sessions[s].status = "reuse"
  PROVE  AuthInv'
<1> DEFINE r == [refresh[t] EXCEPT !.pc = "answered", !.answer = Answer(k, Nil)]
<1>1. TabTypes /\ SharedTypes BY Types DEF AuthInv
<1>2. refresh[t] \in RefreshRow BY <1>1 DEF TabTypes
<1>3. Nil \in CookieOrNil /\ k \in Kinds BY DEF CookieOrNil, Kinds
<1>4. Answer(k, Nil) \in AnswerRow /\ Answer(k, Nil).kind = k BY <1>3, AnswerType
<1>5. refresh' = [refresh EXCEPT ![t] = r] BY <1>1 DEF Fails, TabTypes
<1>6. /\ r \in RefreshRow /\ r.pc = "answered" /\ r.answer.kind = k /\ r.sent = refresh[t].sent
      /\ r.expect = refresh[t].expect /\ r.current = refresh[t].current
  BY <1>2, <1>4 DEF RefreshRow
<1> HIDE DEF r
<1>7. ServerStep(t, r) BY <1>5, <1>6 DEF ServerStep
<1>8. world' \in [locks: BOOLEAN, left: [Outside -> Nat]] /\ world'.locks = world.locks
  BY <1>1, OutsideHas, SpendKeeps
<1>9. Steady BY <1>8 DEF Steady
<1>10. ASSUME world.locks, NEW s \in Sids \ lost', SecretInv(s)
       PROVE  SecretFits(r, s, sessions'[s].gen) /\ sessions'[s].status # "reuse"
  BY <1>6, <1>10, SecretWords DEF SecretFits
<1> QED BY <1>6, <1>7, <1>8, <1>9, <1>10, ServerKept

LEMMA RefusedKept ==
  ASSUME AuthInv, NEW t \in Tabs, RefreshRejected(t) \/ SessionLookupFails(t)
  PROVE  AuthInv'
<1>1. PICK k \in {"error", "other", "unauthorized"}: Fails(t, k) BY DEF RefreshRejected, SessionLookupFails
<1>2. TypeOK /\ SharedTypes BY Types DEF AuthInv
<1>3. /\ refresh[t].pc \in {"sent", "recovering"} /\ Spend("fault") /\ sessions' = sessions /\ lost' = lost
      /\ UNCHANGED <<cookie, lock, tabVars, inbox, orphans>>
  BY DEF RefreshRejected, SessionLookupFails
<1>4. RowsAdvance BY <1>3 DEF RowsAdvance
<1> QED BY <1>1, <1>2, <1>3, <1>4, FailsKept DEF SharedTypes

LEMMA NotIssuedKept ==
  ASSUME AuthInv, NEW t \in Tabs, RefreshNotIssued(t)
  PROVE  AuthInv'
<1> DEFINE c == refresh[t].sent
           e == refresh[t].expect
<1>1. TabTypes /\ SharedTypes BY Types DEF AuthInv
<1>2. c \in CookieOrNil /\ e \in SidOrNil /\ Verdict(c, e) = "rotate"
  BY <1>1 DEF TabTypes, RefreshRow, RefreshNotIssued
<1>3. c \in Cookies /\ c # Nil /\ c.sid \in Sids BY <1>1, <1>2, VerdictSays DEF Cookies
<1>4. sessions' = Rotated(c, Verdict(c, e)) BY <1>2 DEF RefreshNotIssued
<1>5. /\ sessions' \in [Sids -> SessionRow] /\ RowsAdvance
      /\ \A s \in Sids: sessions'[s].gen # sessions[s].gen => c.sid = s
      /\ \A s \in Sids: sessions'[s].status = "reuse" /\ sessions[s].status # "reuse" => Verdict(c, e) = "reuse"
  BY <1>1, <1>2, <1>4, RotatedRows
<1>6. /\ lost' = lost \cup {c.sid} /\ Fails(t, "error") /\ refresh[t].pc = "sent" /\ Spend("fault")
      /\ UNCHANGED <<cookie, lock, tabVars, inbox, orphans>>
  BY DEF RefreshNotIssued
<1>7. lost' \subseteq Sids BY <1>1, <1>3, <1>6 DEF SharedTypes
<1>8. \A s \in Sids: sessions'[s].gen # sessions[s].gen => Touches(c, s) /\ s \in lost'
  BY <1>3, <1>5, <1>6 DEF Touches
<1>9. \A s \in Sids: sessions'[s].status = "reuse" => sessions[s].status = "reuse" BY <1>2, <1>5
<1> QED BY <1>5, <1>6, <1>7, <1>8, <1>9, FailsKept

-----------------------------------------------------------------------------
(* A refresh that settles.                                                  *)

(* The sessions page t saw end, with the one it drops.                      *)
SeenEnd(t) == ended[t] \cup {s \in Sids: s = store[t] /\ sessions[s].status # "active"}

LEMMA SeenEndSays ==
  ASSUME AuthInv, NEW t \in Tabs
  PROVE  /\ SeenEnd(t) \in SUBSET Sids
         /\ \A s \in SeenEnd(t): sessions[s].status \notin {"unused", "active"} /\ Known(s)
         /\ \A s \in ended[t]: s \in Sids /\ sessions[s].status \notin {"unused", "active"} /\ Known(s) /\ store[t] # s
<1>1. TabTypes BY Types DEF AuthInv
<1>2. SeenEnd(t) \in SUBSET Sids BY <1>1 DEF TabTypes, SeenEnd
<1>3. \A s \in SeenEnd(t): Known(s) BY DEF Known, SeenEnd
<1>4. \A s \in Sids: Known(s) => sessions[s].status # "unused" BY FreshIsUnknown DEF AuthInv, Fresh
<1>5. \A s \in SeenEnd(t): sessions[s].status # "active" BY DEF SeenEnd, AuthInv, EndInv
<1>6. \A s \in ended[t]: s \in SeenEnd(t) BY DEF SeenEnd
<1>7. \A s \in ended[t]: store[t] # s BY DEF AuthInv, EndInv
<1> QED BY <1>2, <1>3, <1>4, <1>5, <1>6, <1>7

(* What is given up is counted as lost.                                     *)
LEMMA AbandonedSays ==
  ASSUME AuthInv, NEW t \in Tabs, Abandoned(t)
  PROVE  /\ orphans' \subseteq [sent: CookieOrNil, expect: SidOrNil]
         /\ lost \subseteq lost' /\ lost' \subseteq Sids
         /\ \A s \in Sids: \A o \in orphans': Touches(o.sent, s) => Known(s) /\ (s \notin lost' => o \in orphans)
         /\ \A s \in Sids: Successor(refresh[t], s) => s \in lost'
<1> DEFINE r == refresh[t]
           n == [sent |-> r.sent, expect |-> r.expect]
<1>1. TabTypes /\ SharedTypes BY Types DEF AuthInv
<1>2. r.sent \in CookieOrNil /\ r.expect \in SidOrNil BY <1>1 DEF TabTypes, RefreshRow
<1>3. r.sent # Nil => r.sent.sid \in Sids BY <1>2 DEF CookieOrNil, Cookies
<1>4. orphans' = (IF r.pc = "sent" THEN orphans \cup {n} ELSE orphans) BY DEF Abandoned
<1>5. lost' = (IF r.pc \in {"sent", "recovering", "answered"} /\ r.sent # Nil THEN lost \cup {r.sent.sid} ELSE lost)
  BY DEF Abandoned
<1>6. n \in [sent: CookieOrNil, expect: SidOrNil] /\ n.sent = r.sent BY <1>2
<1>7. \A s: Touches(r.sent, s) => Known(s) BY DEF Known
<1>8. r.answer.kind = "ok" => r.pc = "answered" BY DEF AuthInv, AnswerInv
<1> HIDE DEF n, r
<1>9. lost \subseteq lost' /\ lost' \subseteq Sids BY <1>1, <1>3, <1>5 DEF SharedTypes
<1>10. orphans' \subseteq [sent: CookieOrNil, expect: SidOrNil] BY <1>1, <1>4, <1>6 DEF SharedTypes
<1>11. ASSUME NEW s \in Sids, NEW o \in orphans', Touches(o.sent, s)
       PROVE  Known(s) /\ (s \notin lost' => o \in orphans)
  <2>1. CASE o \in orphans BY <1>11, <2>1 DEF Known
  <2>2. CASE o = n /\ r.pc = "sent" BY <1>5, <1>6, <1>7, <1>11, <2>2 DEF Touches
  <2> QED BY <1>4, <2>1, <2>2
<1>12. \A s \in Sids: Successor(r, s) => s \in lost' BY <1>5, <1>8 DEF Successor, Touches
<1> QED BY <1>9, <1>10, <1>11, <1>12 DEF r

(* Tab t has no refresh any more: it settled, or its page is gone.          *)
LEMMA IdleKept ==
  ASSUME AuthInv, NEW t \in Tabs, NEW x \in SidOrNil, NEW b \in BootStates, NEW e \in SUBSET Sids,
         refresh' = [refresh EXCEPT ![t] = Idle], lock' = IF lock = t THEN Nil ELSE lock,
         store' = [store EXCEPT ![t] = x], boot' = [boot EXCEPT ![t] = b], ended' = [ended EXCEPT ![t] = e],
         api' \in [Tabs -> ApiStates], logout' \in [Tabs -> LogoutRow], pending' \in [Tabs -> PendingRow],
         world' \in [locks: BOOLEAN, left: [Outside -> Nat]], world'.locks = world.locks, sessions' = sessions,
         inbox' \in [Tabs -> Seq(Event)], cookie' \in CookieOrNil,
         orphans' \subseteq [sent: CookieOrNil, expect: SidOrNil], lost \subseteq lost', lost' \subseteq Sids,
         NoNewLogin, b # "checking",
         \A s \in e: sessions[s].status \notin {"unused", "active"} /\ x # s /\ Known(s),
         \A s \in Sids: (\/ Touches(cookie', s) \/ x = s \/ \E n \in orphans': Touches(n.sent, s)) => Known(s),
         \A s \in Sids \ lost': SecretInv(s) =>
           /\ Touches(cookie', s) => cookie'.gen = sessions[s].gen \/ (cookie' = cookie /\ ~Successor(refresh[t], s))
           /\ \A n \in orphans': ~Touches(n.sent, s)
  PROVE  AuthInv'
<1>1. TypeOK /\ TabTypes /\ SharedTypes BY Types DEF AuthInv
<1>3. lock' \in Tabs \cup {Nil} BY <1>1 DEF SharedTypes
<1>4. OtherTypes' BY <1>1, <1>3 DEF OtherTypes, SharedTypes, TabTypes
<1>5. Idle \in RefreshRow /\ Idle.pc = "none" /\ Idle.current /\ Idle.sent = Nil /\ Idle.answer.kind = "none"
  BY NothingTypes
<1>6. Leaves(t, Idle, x, b, e) BY <1>5 DEF Leaves
<1>7. EpochFits(Idle, b) BY <1>5 DEF EpochFits
<1>8. AnswerFits(Idle, x) BY <1>5 DEF AnswerFits, InFlight
<1>9. EndFits(Idle, x, e) BY <1>5 DEF EndFits
<1>10. Steady BY DEF Steady, RowsAdvance
<1>11. NothingNew(Idle, x, e) BY <1>5 DEF NothingNew, Touches
<1>12. LockStep(t, Idle)
  <2>1. ASSUME NEW s \in Sids \ lost', SecretInv(s) PROVE SecretStep(t, Idle, s)
    <3>1. sessions[s].status # "reuse" BY <2>1, SecretWords
    <3> QED BY <1>5, <2>1, <3>1 DEF SecretStep, SecretFits, Touches
  <2>2. \A u \in Tabs \ {t}: lock = u => lock' = u OBVIOUS
  <2> QED BY <1>5, <2>1, <2>2 DEF LockStep, HasLock
<1> QED BY <1>4, <1>6, <1>7, <1>8, <1>9, <1>10, <1>11, <1>12, TabStepKept

LEMMA SettledKept ==
  ASSUME AuthInv, NEW t \in Tabs, NEW x \in SidOrNil, NEW b \in BootStates, NEW e \in SUBSET Sids,
         NEW o, NEW c \in CookieOrNil, NEW y \in SidOrNil, Settled(t, o, c, y),
         store' = [store EXCEPT ![t] = x], boot' = [boot EXCEPT ![t] = b], ended' = [ended EXCEPT ![t] = e],
         UNCHANGED <<sessions, pending, world>>, inbox' \in [Tabs -> Seq(Event)], cookie' \in CookieOrNil,
         orphans' \subseteq [sent: CookieOrNil, expect: SidOrNil], lost \subseteq lost', lost' \subseteq Sids,
         b # "checking",
         \A s \in e: sessions[s].status \notin {"unused", "active"} /\ x # s /\ Known(s),
         \A s \in Sids: (\/ Touches(cookie', s) \/ x = s \/ \E n \in orphans': Touches(n.sent, s)) => Known(s),
         \A s \in Sids \ lost': SecretInv(s) =>
           /\ Touches(cookie', s) => cookie'.gen = sessions[s].gen \/ (cookie' = cookie /\ ~Successor(refresh[t], s))
           /\ \A n \in orphans': ~Touches(n.sent, s)
  PROVE  AuthInv'
<1>1. TypeOK /\ TabTypes /\ SharedTypes BY Types DEF AuthInv
<1>2. api' \in [Tabs -> ApiStates] /\ logout' \in [Tabs -> LogoutRow] BY <1>1, ResumedTypes DEF Settled
<1>3. /\ refresh' = [refresh EXCEPT ![t] = Idle] /\ lock' = (IF lock = t THEN Nil ELSE lock) BY DEF Settled
<1>4. pending' \in [Tabs -> PendingRow] /\ world' \in [locks: BOOLEAN, left: [Outside -> Nat]]
  BY <1>1 DEF TabTypes, SharedTypes
<1>5. NoNewLogin BY DEF NoNewLogin
<1> QED BY <1>2, <1>3, <1>4, <1>5, IdleKept

(* The cookie of an answer is known, and under the lock it is current.      *)
LEMMA CookieAnswered ==
  ASSUME AuthInv, NEW t \in Tabs
  PROVE  LET k == CookieAfter(refresh[t].answer)
         IN /\ k \in CookieOrNil
            /\ \A s \in Sids: Touches(k, s) => Known(s)
            /\ \A s \in Sids: SecretInv(s) =>
                 (Touches(k, s) => k.gen = sessions[s].gen \/ (k = cookie /\ ~Successor(refresh[t], s)))
<1> DEFINE a == refresh[t].answer
           c == refresh[t].sent
           k == CookieAfter(a)
<1>1. TabTypes /\ SharedTypes BY Types DEF AuthInv
<1>2. a \in AnswerRow /\ c \in CookieOrNil BY <1>1 DEF TabTypes, RefreshRow
<1>3. k \in CookieOrNil BY <1>1, <1>2, CookieAfterSays
<1>4. CASE a.kind = "ok"
  <2>1. a.cookie = NextSecret(c) /\ c # Nil BY <1>4 DEF AuthInv, AnswerInv
  <2>2. c \in Cookies BY <1>2, <2>1 DEF CookieOrNil
  <2>3. k = NextSecret(c) BY <1>4, <2>1 DEF CookieAfter
  <2>4. k.sid = c.sid /\ k.gen = c.gen + 1 BY <2>2, <2>3, SecretType
  <2>5. \A s: Touches(k, s) => Touches(c, s) BY <2>1, <2>4 DEF Touches
  <2>6. \A s: Touches(k, s) => Known(s) BY <2>5 DEF Known
  <2>7. ASSUME NEW s \in Sids, SecretInv(s), Touches(k, s) PROVE k.gen = sessions[s].gen
    <3>1. SecretFits(refresh[t], s, sessions[s].gen) BY <2>7, SecretWords
    <3> QED BY <1>4, <2>4, <2>5, <2>7, <3>1 DEF SecretFits
  <2> QED BY <1>3, <2>6, <2>7
<1>5. CASE a.kind # "ok"
  <2>1. k = Nil \/ k = cookie BY <1>5 DEF CookieAfter
  <2>2. \A s: ~Successor(refresh[t], s) BY <1>5 DEF Successor
  <2>3. \A s: Touches(k, s) => k = cookie /\ Known(s) BY <2>1 DEF Touches, Known
  <2> QED BY <1>3, <2>2, <2>3
<1> QED BY <1>4, <1>5

(* A refresh of a page that another login, sign-out or event overtook: the  *)
(* page is not waiting with its start.                                      *)
LEMMA NotCurrentIsComplete ==
  ASSUME AuthInv, NEW t \in Tabs, ~IsCurrent(t)
  PROVE  boot[t] = "complete"
BY DEF AuthInv, EpochInv, IsCurrent

LEMMA SessionKnown ==
  ASSUME AuthInv, NEW t \in Tabs
  PROVE  /\ store[t] \in SidOrNil /\ boot[t] \in BootStates /\ ended[t] \in SUBSET Sids
         /\ \A s: store[t] = s => Known(s)
         /\ \A s \in Sids: Nil # s
         /\ \A s \in Sids: \A o \in orphans: Touches(o.sent, s) => Known(s)
         /\ \A s \in Sids: Touches(cookie, s) => Known(s)
<1>1. TabTypes BY Types DEF AuthInv
<1> QED BY <1>1, NilIsNothing DEF TabTypes, Known

LEMMA ClearTypes ==
  ASSUME AuthInv, NEW t \in Tabs, NEW y \in BOOLEAN, ClearAuthentication(t, y)
  PROVE  inbox' \in [Tabs -> Seq(Event)]
<1>1. TabTypes /\ SharedTypes BY Types DEF AuthInv
<1>2. CASE y /\ store[t] # Nil
  <2>1. store[t] \in Sids BY <1>1, <1>2 DEF TabTypes, SidOrNil
  <2>2. Others(t, "signed_out", store[t]) \in [Tabs -> Seq(Event)] BY <1>1, <2>1, OthersType
  <2> QED BY <1>2, <2>2 DEF ClearAuthentication
<1>3. CASE ~(y /\ store[t] # Nil) BY <1>1, <1>3 DEF ClearAuthentication, SharedTypes
<1> QED BY <1>2, <1>3

LEMMA ApplyTypes ==
  ASSUME AuthInv, NEW t \in Tabs, NEW s \in Sids, NEW y \in BOOLEAN, ApplyAuthBundle(t, s, y)
  PROVE  inbox' \in [Tabs -> Seq(Event)]
<1>1. TabTypes /\ SharedTypes BY Types DEF AuthInv
<1>2. Others(t, "authenticated", s) \in [Tabs -> Seq(Event)] BY <1>1, OthersType
<1> QED BY <1>1, <1>2 DEF ApplyAuthBundle, SharedTypes

(* A request is sent: under the browser lock, if there is one, with the     *)
(* current secret, since no answer is on the way to anybody.                *)
LEMMA SentKept ==
  ASSUME AuthInv, NEW t \in Tabs, NEW q \in RefreshRow, q.current, NEW x \in {Nil, store[t]}, NEW b \in BootStates,
         refresh' = [refresh EXCEPT ![t] = Sent(q, x)], store' = [store EXCEPT ![t] = x],
         boot' = [boot EXCEPT ![t] = b], UNCHANGED <<ended, cookie, sessions, orphans, lost>>, OtherTypes',
         world'.locks = world.locks, NoNewLogin, refresh[t].answer.kind # "ok",
         world.locks => lock' = t /\ lock \in {Nil, t}
  PROVE  AuthInv'
<1> DEFINE r == Sent(q, x)
           e == ended[t]
<1>1. TabTypes /\ SharedTypes BY Types DEF AuthInv
<1>2. x \in SidOrNil /\ cookie \in CookieOrNil /\ (\A s \in Sids: x = s => Known(s))
  BY <1>1, SessionKnown DEF SidOrNil, SharedTypes
<1>3. /\ r \in RefreshRow /\ r.pc = "sent" /\ r.sent = cookie /\ r.expect = x /\ r.answer.kind = "none" /\ r.current
  BY <1>2, SentType, NothingTypes
<1> HIDE DEF r
<1>4. Leaves(t, r, x, b, e) BY <1>1, <1>2, <1>3 DEF Leaves, TabTypes, r
<1>5. EpochFits(r, b) BY <1>3 DEF EpochFits
<1>6. AnswerFits(r, x) BY <1>3 DEF AnswerFits
<1>7. EndFits(r, x, e)
  <2>1. \A s \in e: s \in Sids /\ sessions[s].status \notin {"unused", "active"} /\ store[t] # s BY SeenEndSays
  <2> QED BY <1>3, <2>1, SessionKnown DEF EndFits
<1>8. Steady BY DEF Steady, RowsAdvance
<1>9. NothingNew(r, x, e)
  <2>1. \A s \in e: Known(s) BY SeenEndSays
  <2> QED BY <1>2, <1>3, <2>1, SessionKnown DEF NothingNew
<1>10. ASSUME world.locks PROVE LockStep(t, r)
  <2>1. ASSUME NEW s \in Sids \ lost', SecretInv(s) PROVE SecretStep(t, r, s)
    <3>1. /\ Touches(cookie, s) => cookie.gen = sessions[s].gen \/ \E u \in Tabs: Successor(refresh[u], s)
          /\ \A o \in orphans: ~Touches(o.sent, s)
          /\ sessions[s].status # "reuse"
      BY <2>1, SecretWords
    <3>2. ASSUME NEW u \in Tabs PROVE ~Successor(refresh[u], s)
      <4>1. refresh[u].answer.kind = "ok" => refresh[u].pc = "answered" BY DEF AuthInv, AnswerInv
      <4>2. refresh[u].answer.kind = "ok" => lock = u BY <1>10, <4>1 DEF AuthInv, LockInv, HasLock
      <4> QED BY <1>10, <4>2, NilIsNothing DEF Successor
    <3> QED BY <1>3, <3>1, <3>2 DEF SecretStep, SecretFits
  <2>2. \A u \in Tabs \ {t}: lock = u => lock' = u BY <1>10, NilIsNothing
  <2> QED BY <1>10, <2>1, <2>2 DEF LockStep
<1> QED BY <1>4, <1>5, <1>6, <1>7, <1>8, <1>9, <1>10, TabStepKept

(* The settling of a refresh that changes nothing else: the epoch moved     *)
(* before the lock was granted or the delay was over.                       *)
LEMMA SupersededKept ==
  ASSUME AuthInv, NEW t \in Tabs, ~IsCurrent(t), refresh[t].answer.kind # "ok",
         Settled(t, "transient_error", cookie, store[t]),
         UNCHANGED <<sessions, cookie, store, boot, pending, inbox, orphans, world, ended, lost>>
  PROVE  AuthInv'
<1> DEFINE x == store[t]
           b == boot[t]
           e == ended[t]
<1>1. TabTypes /\ SharedTypes BY Types DEF AuthInv
<1>2. store' = [store EXCEPT ![t] = x] /\ boot' = [boot EXCEPT ![t] = b] /\ ended' = [ended EXCEPT ![t] = e]
  BY <1>1 DEF TabTypes
<1>3. x \in SidOrNil /\ b \in BootStates /\ e \in SUBSET Sids /\ b # "checking"
  BY SessionKnown, NotCurrentIsComplete
<1>4. cookie \in CookieOrNil /\ inbox' \in [Tabs -> Seq(Event)] /\ cookie' \in CookieOrNil /\ lost' \subseteq Sids
      /\ orphans' \subseteq [sent: CookieOrNil, expect: SidOrNil]
  BY <1>1 DEF SharedTypes
<1>5. \A s \in e: sessions[s].status \notin {"unused", "active"} /\ x # s /\ Known(s) BY SeenEndSays
<1>6. \A s \in Sids: (Touches(cookie', s) \/ x = s \/ \E n \in orphans': Touches(n.sent, s)) => Known(s)
  BY SessionKnown
<1>7. ASSUME NEW s \in Sids \ lost', SecretInv(s)
      PROVE  /\ cookie' = cookie /\ ~Successor(refresh[t], s)
             /\ \A n \in orphans': ~Touches(n.sent, s)
  BY <1>7, SecretWords DEF Successor
<1> HIDE DEF x, b, e
<1> QED BY <1>2, <1>3, <1>4, <1>5, <1>6, <1>7, SettledKept DEF x

LEMMA LockGrantedKept ==
  ASSUME AuthInv, NEW t \in Tabs, LockGranted(t)
  PROVE  AuthInv'
<1>1. TabTypes /\ SharedTypes BY Types DEF AuthInv
<1>2. refresh[t].pc = "lock" /\ lock = Nil /\ refresh[t].answer.kind # "ok" BY DEF LockGranted, AuthInv, AnswerInv
<1>3. UNCHANGED <<sessions, cookie, store, boot, pending, inbox, orphans, world, ended, lost>> BY DEF LockGranted
<1>4. CASE refresh[t].current
  <2>1. refresh[t] \in RefreshRow /\ boot[t] \in BootStates BY <1>1 DEF TabTypes
  <2>2. /\ refresh' = [refresh EXCEPT ![t] = Sent(refresh[t], store[t])] /\ lock' = t
        /\ UNCHANGED <<api, logout>>
    BY <1>4 DEF LockGranted
  <2>3. store' = [store EXCEPT ![t] = store[t]] /\ boot' = [boot EXCEPT ![t] = boot[t]] BY <1>1, <1>3 DEF TabTypes
  <2>4. OtherTypes' BY <1>1, <1>3, <2>2 DEF OtherTypes, SharedTypes, TabTypes
  <2>5. NoNewLogin BY <1>3 DEF NoNewLogin
  <2> QED BY <1>2, <1>3, <1>4, <2>1, <2>2, <2>3, <2>4, <2>5, SentKept
<1>5. CASE ~refresh[t].current
  BY <1>2, <1>3, <1>5, SupersededKept DEF LockGranted, IsCurrent
<1> QED BY <1>4, <1>5

LEMMA RaceDelayOverKept ==
  ASSUME AuthInv, NEW t \in Tabs, RaceDelayOver(t)
  PROVE  AuthInv'
<1>1. TabTypes /\ SharedTypes BY Types DEF AuthInv
<1>2. refresh[t].pc = "delay" /\ refresh[t].answer.kind # "ok" BY DEF RaceDelayOver, AuthInv, AnswerInv
<1>3. UNCHANGED <<sessions, cookie, store, boot, pending, inbox, orphans, world, ended, lost>> BY DEF RaceDelayOver
<1>4. CASE IsCurrent(t)
  <2>1. refresh[t] \in RefreshRow /\ boot[t] \in BootStates /\ refresh[t].current BY <1>1, <1>4 DEF TabTypes, IsCurrent
  <2>2. refresh' = [refresh EXCEPT ![t] = Sent(refresh[t], store[t])] /\ UNCHANGED <<lock, api, logout>>
    BY <1>4 DEF RaceDelayOver
  <2>3. store' = [store EXCEPT ![t] = store[t]] /\ boot' = [boot EXCEPT ![t] = boot[t]] BY <1>1, <1>3 DEF TabTypes
  <2>4. OtherTypes' BY <1>1, <1>3, <2>2 DEF OtherTypes, SharedTypes, TabTypes
  <2>5. NoNewLogin BY <1>3 DEF NoNewLogin
  <2>6. world.locks => lock = t BY <1>2 DEF AuthInv, LockInv, HasLock
  <2> QED BY <1>2, <1>3, <2>1, <2>2, <2>3, <2>4, <2>5, <2>6, SentKept
<1>5. CASE ~IsCurrent(t)
  BY <1>2, <1>3, <1>5, SupersededKept DEF RaceDelayOver
<1> QED BY <1>4, <1>5

LEMMA DeadlineKept ==
  ASSUME AuthInv, NEW t \in Tabs, Deadline(t)
  PROVE  AuthInv'
<1> DEFINE x == store[t]
           e == ended[t]
           b == IF IsCurrent(t) \/ refresh[t].pc \in {"lock", "delay"} THEN "idle" ELSE boot[t]
<1>1. TabTypes /\ SharedTypes BY Types DEF AuthInv
<1>2. /\ Abandoned(t) /\ Settled(t, "transient_error", cookie', x)
      /\ UNCHANGED <<sessions, store, pending, inbox, world, ended>>
      /\ cookie' \in {cookie, CookieAfter(refresh[t].answer)}
  BY DEF Deadline
<1>3. /\ store' = [store EXCEPT ![t] = x] /\ boot' = [boot EXCEPT ![t] = b] /\ ended' = [ended EXCEPT ![t] = e]
  BY <1>1, <1>2 DEF TabTypes, Deadline
<1>4. x \in SidOrNil /\ b \in BootStates /\ e \in SUBSET Sids /\ b # "checking"
  BY SessionKnown, NotCurrentIsComplete DEF BootStates
<1>5. cookie' \in CookieOrNil /\ \A s \in Sids: Touches(cookie', s) => Known(s)
  BY <1>1, <1>2, CookieAnswered, SessionKnown DEF SharedTypes
<1>6. /\ orphans' \subseteq [sent: CookieOrNil, expect: SidOrNil] /\ lost \subseteq lost' /\ lost' \subseteq Sids
      /\ \A s \in Sids: \A o \in orphans': Touches(o.sent, s) => Known(s) /\ (s \notin lost' => o \in orphans)
      /\ \A s \in Sids: Successor(refresh[t], s) => s \in lost'
  BY <1>2, AbandonedSays
<1>7. \A s \in e: sessions[s].status \notin {"unused", "active"} /\ x # s /\ Known(s) BY SeenEndSays
<1>8. \A s \in Sids: (Touches(cookie', s) \/ x = s \/ \E n \in orphans': Touches(n.sent, s)) => Known(s)
  BY <1>5, <1>6, SessionKnown
<1>9. ASSUME NEW s \in Sids \ lost', SecretInv(s)
      PROVE  /\ Touches(cookie', s) => cookie'.gen = sessions[s].gen \/ (cookie' = cookie /\ ~Successor(refresh[t], s))
             /\ \A n \in orphans': ~Touches(n.sent, s)
  <2>1. ~Successor(refresh[t], s) BY <1>6, <1>9
  <2>2. CASE cookie' = cookie BY <1>6, <1>9, <2>1, <2>2, SecretWords
  <2>3. CASE cookie' = CookieAfter(refresh[t].answer) BY <1>6, <1>9, <2>3, CookieAnswered, SecretWords
  <2> QED BY <1>2, <2>2, <2>3
<1>10. inbox' \in [Tabs -> Seq(Event)] BY <1>1, <1>2 DEF SharedTypes
<1> HIDE DEF x, b, e
<1> QED BY <1>2, <1>3, <1>4, <1>5, <1>6, <1>7, <1>8, <1>9, <1>10, SettledKept

(* The answer arrives and run() ends.                                       *)
LEMMA AnsweredKept ==
  ASSUME AuthInv, NEW t \in Tabs, NEW x \in SidOrNil, NEW b \in BootStates, NEW e \in SUBSET Sids, NEW o,
         NEW y \in SidOrNil, Settled(t, o, cookie', y), cookie' = CookieAfter(refresh[t].answer),
         UNCHANGED <<sessions, pending, orphans, world, lost>>, inbox' \in [Tabs -> Seq(Event)],
         store' = [store EXCEPT ![t] = x], boot' = [boot EXCEPT ![t] = b], ended' = [ended EXCEPT ![t] = e],
         b # "checking", \A s \in Sids: x = s => Known(s),
         \A s \in e: sessions[s].status \notin {"unused", "active"} /\ x # s /\ Known(s)
  PROVE  AuthInv'
<1>1. SharedTypes BY Types DEF AuthInv
<1>2. cookie' \in CookieOrNil BY CookieAnswered
<1>3. /\ orphans' \subseteq [sent: CookieOrNil, expect: SidOrNil] /\ lost \subseteq lost' /\ lost' \subseteq Sids
  BY <1>1 DEF SharedTypes
<1>4. \A s \in Sids: (Touches(cookie', s) \/ x = s \/ \E n \in orphans': Touches(n.sent, s)) => Known(s)
  BY CookieAnswered, SessionKnown
<1>5. ASSUME NEW s \in Sids \ lost', SecretInv(s)
      PROVE  /\ Touches(cookie', s) => cookie'.gen = sessions[s].gen \/ (cookie' = cookie /\ ~Successor(refresh[t], s))
             /\ \A n \in orphans': ~Touches(n.sent, s)
  BY <1>5, CookieAnswered, SecretWords
<1> QED BY <1>2, <1>3, <1>4, <1>5, SettledKept

(* The other secret was used in the meantime: the tab waits and tries again.*)
LEMMA RacedKept ==
  ASSUME AuthInv, NEW t \in Tabs, refresh[t].pc = "answered", refresh[t].answer.kind = "race", RaceLeft(t),
         refresh' = [refresh EXCEPT ![t].pc = "delay", ![t].race = @ + 1], cookie' = cookie,
         UNCHANGED <<sessions, pending, orphans, world, lost, lock, store, boot, inbox, api, logout, ended>>
  PROVE  AuthInv'
<1> DEFINE x == store[t]
           b == boot[t]
           e == ended[t]
           n == refresh[t].race + 1
           r == [refresh[t] EXCEPT !.pc = "delay", !.race = n]
<1>1. TabTypes /\ SharedTypes BY Types DEF AuthInv
<1>2. refresh[t] \in RefreshRow BY <1>1 DEF TabTypes
<1>3. n \in 0..RaceRetries
  <2>1. refresh[t].race \in 0..RaceRetries BY <1>2 DEF RefreshRow
  <2> QED BY <2>1, AuthAssumption DEF RaceLeft
<1>4. refresh' = [refresh EXCEPT ![t] = r] BY <1>1 DEF TabTypes
<1> HIDE DEF n
<1>5. /\ r \in RefreshRow /\ r.pc = "delay" /\ r.answer = refresh[t].answer /\ r.sent = refresh[t].sent
      /\ r.current = refresh[t].current
  BY <1>2, <1>3 DEF RefreshRow
<1> HIDE DEF r
<1>6. Leaves(t, r, x, b, e) BY <1>1, <1>4, <1>5 DEF Leaves, TabTypes
<1>7. OtherTypes' BY <1>1 DEF OtherTypes, SharedTypes, TabTypes
<1>8. EpochFits(r, b) BY <1>5 DEF EpochFits, AuthInv, EpochInv
<1>9. AnswerFits(r, x) BY <1>5 DEF AnswerFits, InFlight
<1>10. EndFits(r, x, e) BY <1>5, SeenEndSays DEF EndFits
<1>11. NoNewLogin /\ Steady BY DEF NoNewLogin, Steady, RowsAdvance
<1>12. NothingNew(r, x, e) BY <1>5, SessionKnown, SeenEndSays DEF NothingNew, Known
<1>13. ASSUME world.locks PROVE LockStep(t, r)
  <2>1. lock = t BY <1>13 DEF AuthInv, LockInv, HasLock
  <2>2. ASSUME NEW s \in Sids \ lost', SecretInv(s) PROVE SecretStep(t, r, s)
    BY <1>5, <2>2, SecretWords DEF SecretStep, SecretFits, Successor
  <2> QED BY <2>1, <2>2 DEF LockStep
<1> HIDE DEF x, b, e
<1> QED BY <1>6, <1>7, <1>8, <1>9, <1>10, <1>11, <1>12, <1>13, TabStepKept

LEMMA RefreshAnsweredKept ==
  ASSUME AuthInv, NEW t \in Tabs, RefreshAnswered(t)
  PROVE  AuthInv'
<1> DEFINE r == refresh[t]
           kind == r.answer.kind
           s == r.answer.cookie.sid
<1>1. TabTypes /\ SharedTypes BY Types DEF AuthInv
<1>2. r.pc = "answered" /\ cookie' = CookieAfter(r.answer) /\ UNCHANGED <<sessions, pending, orphans, world, lost>>
  BY DEF RefreshAnswered
<1>3. /\ store[t] \in SidOrNil /\ boot[t] \in BootStates /\ ended[t] \in SUBSET Sids /\ Nil \in SidOrNil
      /\ "idle" \in BootStates /\ "complete" \in BootStates /\ inbox \in [Tabs -> Seq(Event)]
  BY <1>1, SessionKnown DEF TabTypes, SharedTypes, SidOrNil, BootStates
<1>4. \A u \in ended[t]: u \in Sids /\ sessions[u].status \notin {"unused", "active"} /\ Known(u) /\ store[t] # u /\ Nil # u
  BY SeenEndSays, SessionKnown
<1>5. \A u \in Sids: (store[t] = u => Known(u)) /\ Nil # u BY SessionKnown
<1>6. CASE ~IsCurrent(t)
  <2>1. Settled(t, "transient_error", cookie', store[t]) /\ UNCHANGED <<store, boot, inbox, ended>>
    BY <1>6 DEF RefreshAnswered
  <2>2. boot[t] # "checking" BY <1>6, NotCurrentIsComplete
  <2>3. /\ store' = [store EXCEPT ![t] = store[t]] /\ boot' = [boot EXCEPT ![t] = boot[t]]
        /\ ended' = [ended EXCEPT ![t] = ended[t]] /\ inbox' \in [Tabs -> Seq(Event)]
    BY <1>1, <1>3, <2>1 DEF TabTypes
  <2>4. Settled(t, "transient_error", cookie', store[t]) BY <2>1
  <2> QED BY <1>2, <1>3, <1>4, <1>5, <2>2, <2>3, <2>4, AnsweredKept
<1>7. CASE IsCurrent(t) /\ kind = "ok"
  <2>1. /\ ApplyAuthBundle(t, s, FALSE) /\ Settled(t, "authenticated", cookie', s) /\ UNCHANGED ended
    BY <1>7 DEF RefreshAnswered
  <2>2. r.answer.cookie = NextSecret(r.sent) /\ r.sent # Nil BY <1>7 DEF AuthInv, AnswerInv
  <2>3. r.sent \in Cookies BY <1>1, <2>2 DEF TabTypes, RefreshRow, CookieOrNil
  <2>4. s = r.sent.sid /\ s \in Sids BY <2>2, <2>3, SecretType DEF Cookies
  <2>5. Known(s) BY <2>2, <2>4 DEF Known, Touches
  <2>6. \A u \in ended[t]: s # u BY <1>7, <2>4 DEF AuthInv, EndInv, IsCurrent
  <2>7. inbox' \in [Tabs -> Seq(Event)] BY <2>1, <2>4, ApplyTypes
  <2>8. store' = [store EXCEPT ![t] = s] /\ boot' = [boot EXCEPT ![t] = "complete"] BY <2>1 DEF ApplyAuthBundle
  <2>9. s \in SidOrNil BY <2>4 DEF SidOrNil
  <2>10. ended' = [ended EXCEPT ![t] = ended[t]] /\ Settled(t, "authenticated", cookie', s) BY <1>1, <2>1 DEF TabTypes
  <2>11. \A u \in Sids: s = u => Known(u) BY <2>5
  <2>12. \A u \in ended[t]: sessions[u].status \notin {"unused", "active"} /\ s # u /\ Known(u) BY <1>4, <2>6
  <2> HIDE DEF s
  <2> QED BY <1>2, <1>3, <2>7, <2>8, <2>9, <2>10, <2>11, <2>12, AnsweredKept
<1>8. CASE IsCurrent(t) /\ kind = "race" /\ RaceLeft(t)
  <2>1. cookie' = cookie BY <1>2, <1>8 DEF CookieAfter
  <2>2. /\ refresh' = [refresh EXCEPT ![t].pc = "delay", ![t].race = @ + 1]
        /\ UNCHANGED <<lock, store, boot, inbox, api, logout, ended>>
    BY <1>8 DEF RefreshAnswered
  <2> QED BY <1>2, <1>8, <2>1, <2>2, RacedKept
<1>9. CASE IsCurrent(t) /\ kind = "mismatch" /\ r.mismatch
  <2> DEFINE q == [Idle EXCEPT !.mismatch = FALSE]
  <2>1. q \in RefreshRow /\ q.current BY NothingTypes DEF RefreshRow
  <2> HIDE DEF q
  <2>2. cookie' = cookie BY <1>2, <1>9 DEF CookieAfter
  <2>3. /\ store' = [store EXCEPT ![t] = Nil] /\ boot' = [boot EXCEPT ![t] = "idle"]
        /\ refresh' = [refresh EXCEPT ![t] = Sent(q, Nil)]
        /\ UNCHANGED <<lock, inbox, api, logout, ended>>
    BY <1>9 DEF RefreshAnswered, q
  <2>4. OtherTypes' BY <1>1, <1>2, <2>2, <2>3 DEF OtherTypes, SharedTypes, TabTypes
  <2>5. NoNewLogin BY <1>2 DEF NoNewLogin
  <2>6. world.locks => lock = t BY <1>2 DEF AuthInv, LockInv, HasLock
  <2> QED BY <1>2, <1>3, <1>9, <2>1, <2>2, <2>3, <2>4, <2>5, <2>6, SentKept
<1>10. CASE IsCurrent(t) /\ kind = "unauthorized"
  <2>1. ClearAuthentication(t, TRUE) /\ SawEnd(t) /\ Settled(t, "anonymous", cookie', Nil)
    BY <1>10 DEF RefreshAnswered
  <2>2. /\ store' = [store EXCEPT ![t] = Nil] /\ boot' = [boot EXCEPT ![t] = "complete"]
        /\ ended' = [ended EXCEPT ![t] = SeenEnd(t)]
    BY <2>1 DEF ClearAuthentication, SawEnd, SeenEnd
  <2>3. inbox' \in [Tabs -> Seq(Event)] BY <2>1, ClearTypes
  <2>4. /\ SeenEnd(t) \in SUBSET Sids
        /\ \A u \in SeenEnd(t): sessions[u].status \notin {"unused", "active"} /\ Nil # u /\ Known(u)
    BY <1>5, SeenEndSays
  <2> QED BY <1>2, <1>3, <1>5, <2>1, <2>2, <2>3, <2>4, AnsweredKept
<1>11. CASE IsCurrent(t) /\ kind = "error"
  <2>1. /\ boot' = [boot EXCEPT ![t] = "idle"] /\ Settled(t, "transient_error", cookie', store[t])
        /\ UNCHANGED <<store, inbox, ended>>
    BY <1>11 DEF RefreshAnswered
  <2>2. /\ store' = [store EXCEPT ![t] = store[t]] /\ ended' = [ended EXCEPT ![t] = ended[t]]
        /\ inbox' \in [Tabs -> Seq(Event)] /\ boot' = [boot EXCEPT ![t] = "idle"]
    BY <1>1, <1>3, <2>1 DEF TabTypes
  <2>3. Settled(t, "transient_error", cookie', store[t]) BY <2>1
  <2> QED BY <1>2, <1>3, <1>4, <1>5, <2>2, <2>3, AnsweredKept
<1>12. CASE /\ IsCurrent(t)
            /\ kind = "other" \/ (kind = "race" /\ ~RaceLeft(t)) \/ (kind = "mismatch" /\ ~r.mismatch)
  <2>1. ClearAuthentication(t, FALSE) /\ Settled(t, "out_of_sync", cookie', Nil) /\ UNCHANGED ended
    BY <1>12 DEF RefreshAnswered
  <2>2. store' = [store EXCEPT ![t] = Nil] /\ boot' = [boot EXCEPT ![t] = "complete"]
    BY <2>1 DEF ClearAuthentication
  <2>3. inbox' \in [Tabs -> Seq(Event)] BY <2>1, ClearTypes
  <2>4. ended' = [ended EXCEPT ![t] = ended[t]] BY <1>1, <2>1 DEF TabTypes
  <2> QED BY <1>2, <1>3, <1>4, <1>5, <2>1, <2>2, <2>3, <2>4, AnsweredKept
<1> QED BY <1>6, <1>7, <1>8, <1>9, <1>10, <1>11, <1>12 DEF RefreshAnswered

-----------------------------------------------------------------------------
(* Refreshes that are joined, and steps that start a new epoch.             *)

(* The secrets of a refresh that only changes its epoch.                    *)
LEMMA SameSecrets ==
  ASSUME AuthInv, world.locks, NEW t \in Tabs, NEW r,
         r.pc = refresh[t].pc, r.sent = refresh[t].sent, r.answer = refresh[t].answer,
         UNCHANGED <<lock, sessions, orphans, lost>>,
         \A s \in Sids: Touches(cookie', s) => cookie'.gen = sessions[s].gen \/ cookie' = cookie
  PROVE  LockStep(t, r)
<1>1. r.pc \in HasLock => lock' = t BY DEF AuthInv, LockInv
<1>2. ASSUME NEW s \in Sids \ lost', SecretInv(s) PROVE SecretStep(t, r, s)
  <2>1. /\ SecretFits(refresh[t], s, sessions[s].gen) /\ sessions[s].status # "reuse"
        /\ \A o \in orphans: ~Touches(o.sent, s)
    BY <1>2, SecretWords
  <2>2. Successor(refresh[t], s) => Successor(r, s) BY DEF Successor
  <2>3. SecretFits(r, s, sessions'[s].gen) BY <2>1 DEF SecretFits
  <2> QED BY <2>1, <2>2, <2>3 DEF SecretStep
<1> QED BY <1>1, <1>2 DEF LockStep

(* refreshAuthentication, from a page that may wait for it with its start.  *)
LEMMA JoinKept ==
  ASSUME AuthInv, NEW t \in Tabs, RefreshAuthentication(t), NEW b \in {"checking", boot[t]},
         boot' = [boot EXCEPT ![t] = b], b # "complete" => refresh[t].current,
         UNCHANGED <<store, ended, sessions, cookie, lock, orphans, lost>>, OtherTypes', world'.locks = world.locks,
         NoNewLogin
  PROVE  AuthInv'
<1> DEFINE x == store[t]
           e == ended[t]
<1>1. TabTypes /\ SharedTypes BY Types DEF AuthInv
<1>2. /\ b \in BootStates /\ store' = [store EXCEPT ![t] = x] /\ ended' = [ended EXCEPT ![t] = e]
      /\ refresh[t] \in RefreshRow /\ x \in SidOrNil /\ e \in SUBSET Sids
  BY <1>1 DEF TabTypes, BootStates
<1>3. CASE refresh[t].pc # "none"
  <2> DEFINE r == refresh[t]
  <2>1. refresh' = [refresh EXCEPT ![t] = r] BY <1>1, <1>3 DEF RefreshAuthentication, TabTypes
  <2>2. Leaves(t, r, x, b, e) BY <1>2, <2>1 DEF Leaves
  <2>3. EpochFits(r, b) BY <1>3 DEF EpochFits
  <2>4. AnswerFits(r, x) BY DEF AuthInv, AnswerInv, AnswerFits
  <2>5. Steady BY DEF Steady, RowsAdvance
  <2>6. EndFits(r, x, e) BY DEF AuthInv, EndInv, EndFits
  <2>7. NothingNew(r, x, e) BY DEF NothingNew, Known
  <2>8. world.locks => LockStep(t, r) BY SameSecrets
  <2> HIDE DEF r, x, e
  <2> QED BY <2>2, <2>3, <2>4, <2>5, <2>6, <2>7, <2>8, TabStepKept
<1>4. CASE refresh[t].pc = "none" /\ world.locks
  <2> DEFINE r == [Idle EXCEPT !.pc = "lock"]
  <2>1. refresh' = [refresh EXCEPT ![t] = r] BY <1>4 DEF RefreshAuthentication
  <2>2. r \in RefreshRow /\ r.pc = "lock" /\ r.sent = Nil /\ r.answer.kind = "none" /\ r.current
    BY NothingTypes DEF RefreshRow
  <2> HIDE DEF r
  <2>3. Leaves(t, r, x, b, e) BY <1>2, <2>1, <2>2 DEF Leaves
  <2>4. EpochFits(r, b) BY <2>2 DEF EpochFits
  <2>5. AnswerFits(r, x) BY <2>2 DEF AnswerFits, InFlight
  <2>6. Steady BY DEF Steady, RowsAdvance
  <2>7. EndFits(r, x, e) BY <2>2 DEF AuthInv, EndInv, EndFits
  <2>8. NothingNew(r, x, e) BY <2>2 DEF NothingNew, Known, Touches
  <2>9. refresh[t].answer.kind # "ok" BY <1>4 DEF AuthInv, AnswerInv
  <2>10. LockStep(t, r)
    <3>1. ASSUME NEW s \in Sids \ lost', SecretInv(s) PROVE SecretStep(t, r, s)
      BY <2>2, <2>9, <3>1, SecretWords DEF SecretStep, SecretFits, Successor, Touches
    <3> QED BY <2>2, <3>1 DEF LockStep, HasLock
  <2> HIDE DEF x, e
  <2> QED BY <2>3, <2>4, <2>5, <2>6, <2>7, <2>8, <2>10, TabStepKept
<1>5. CASE refresh[t].pc = "none" /\ ~world.locks
  <2>1. refresh' = [refresh EXCEPT ![t] = Sent(Idle, x)] BY <1>5 DEF RefreshAuthentication
  <2>2. refresh[t].answer.kind # "ok" BY <1>5 DEF AuthInv, AnswerInv
  <2>3. Idle \in RefreshRow /\ Idle.current BY NothingTypes
  <2> QED BY <1>2, <1>5, <2>1, <2>2, <2>3, SentKept
<1> QED BY <1>3, <1>4, <1>5

(* authEpoch += 1: what a running refresh brings is not applied any more.   *)
LEMMA NextEpochCore ==
  ASSUME AuthInv, NEW t \in Tabs, NextEpoch(t), NEW x \in SidOrNil, NEW e \in SUBSET Sids,
         store' = [store EXCEPT ![t] = x], boot' = [boot EXCEPT ![t] = "complete"], ended' = [ended EXCEPT ![t] = e],
         UNCHANGED <<sessions, lock, orphans, lost>>, OtherTypes', world'.locks = world.locks,
         \A s \in e: sessions[s].status \notin {"unused", "active"} /\ x # s /\ Known(s),
         \A s \in Sids: Touches(cookie', s) => cookie'.gen = sessions[s].gen \/ cookie' = cookie
  PROVE  /\ TypeOK' /\ EpochInv' /\ AnswerInv' /\ EndInv' /\ LockInv'
         /\ \A s \in Sids: (Touches(cookie', s) \/ x = s => Known(s)) => (Known(s)' => Known(s))
         /\ NoNewLogin /\ (\A s \in Sids: Touches(cookie', s) \/ x = s => Known(s)) => AuthInv'
<1> DEFINE m == (refresh[t].pc = "none")
           r == [refresh[t] EXCEPT !.current = m]
           b == "complete"
<1>1. TabTypes /\ SharedTypes BY Types DEF AuthInv
<1>2. refresh[t] \in RefreshRow BY <1>1 DEF TabTypes
<1>3. refresh' = [refresh EXCEPT ![t] = r] BY <1>1 DEF NextEpoch, TabTypes
<1>4. m \in BOOLEAN /\ (m <=> refresh[t].pc = "none") OBVIOUS
<1> HIDE DEF m
<1>5. /\ r \in RefreshRow /\ r.pc = refresh[t].pc /\ r.sent = refresh[t].sent /\ r.answer = refresh[t].answer
      /\ r.expect = refresh[t].expect
  BY <1>2, <1>4 DEF RefreshRow
<1>6. r.current = m BY <1>2 DEF RefreshRow
<1> HIDE DEF r
<1>7. r.current <=> refresh[t].pc = "none" BY <1>4, <1>6
<1>8. Leaves(t, r, x, b, e) BY <1>3, <1>5 DEF Leaves, BootStates
<1>9. EpochFits(r, b) BY DEF EpochFits
<1>10. AnswerFits(r, x) BY <1>5, <1>7 DEF AuthInv, AnswerInv, AnswerFits, InFlight
<1>11. Steady BY DEF Steady, RowsAdvance
<1>12. EndFits(r, x, e)
  <2>1. r.current => r.answer.kind # "ok" /\ r.pc # "recovering" BY <1>5, <1>7 DEF AuthInv, AnswerInv
  <2> QED BY <2>1 DEF EndFits
<1>13. world.locks => LockStep(t, r) BY <1>5, SameSecrets
<1>14. TypeOK' /\ EpochInv' /\ AnswerInv' /\ EndInv' /\ LockInv'
  BY <1>8, <1>9, <1>10, <1>11, <1>12, <1>13, TabStepCore
<1>15. ASSUME NEW s \in Sids, Touches(cookie', s) \/ x = s => Known(s) PROVE Known(s)' => Known(s)
  <2>1. Touches(r.sent, s) => Known(s) BY <1>5 DEF Known
  <2>2. \A o \in orphans': Touches(o.sent, s) => Known(s) BY DEF Known
  <2> QED BY <1>1, <1>3, <1>15, <2>1, <2>2, KnownKept
<1>16. ASSUME NoNewLogin, \A s \in Sids: Touches(cookie', s) \/ x = s => Known(s) PROVE AuthInv'
  <2>1. FreshInv' BY <1>1, <1>11, <1>15, <1>16, FreshKept DEF AuthInv, Steady, NoNewLogin
  <2> QED BY <1>14, <2>1 DEF AuthInv
<1> QED BY <1>14, <1>15, <1>16

-----------------------------------------------------------------------------
(* The actions of a page.                                                   *)

LEMMA BootstrapKept ==
  ASSUME AuthInv, NEW t \in Tabs, BootstrapAuthentication(t)
  PROVE  AuthInv'
<1>1. TabTypes /\ SharedTypes BY Types DEF AuthInv
<1>2. /\ RefreshAuthentication(t) /\ boot' = [boot EXCEPT ![t] = "checking"] /\ Spend("refresh")
      /\ UNCHANGED <<sessions, cookie, lock, store, api, logout, pending, inbox, orphans, ended, lost>>
  BY DEF BootstrapAuthentication
<1>3. refresh[t].current BY DEF BootstrapAuthentication, Stale, AuthInv, EpochInv
<1>4. world' \in [locks: BOOLEAN, left: [Outside -> Nat]] /\ world'.locks = world.locks
  BY <1>1, <1>2, OutsideHas, SpendKeeps
<1>5. OtherTypes' BY <1>1, <1>2, <1>4 DEF OtherTypes, SharedTypes, TabTypes
<1>6. NoNewLogin BY <1>2 DEF NoNewLogin
<1> QED BY <1>2, <1>3, <1>4, <1>5, <1>6, JoinKept

(* A refresh that an API call or a sign-out needs.                          *)
LEMMA NeededKept ==
  ASSUME AuthInv, NEW t \in Tabs, RefreshAuthentication(t), OtherTypes', world'.locks = world.locks,
         UNCHANGED <<sessions, cookie, lock, store, boot, pending, orphans, ended, lost>>
  PROVE  AuthInv'
<1>1. TabTypes BY Types DEF AuthInv
<1>2. boot' = [boot EXCEPT ![t] = boot[t]] BY <1>1 DEF TabTypes
<1>3. boot[t] # "complete" => refresh[t].current BY DEF AuthInv, EpochInv
<1>4. NoNewLogin BY DEF NoNewLogin
<1> QED BY <1>2, <1>3, <1>4, JoinKept

LEMMA FreshHeadersKept ==
  ASSUME AuthInv, NEW t \in Tabs, GetFreshAuthHeaders(t)
  PROVE  AuthInv'
<1>1. TabTypes /\ SharedTypes BY Types DEF AuthInv
<1>2. /\ RefreshAuthentication(t) /\ Spend("refresh")
      /\ UNCHANGED <<sessions, cookie, lock, store, boot, api, logout, pending, inbox, orphans, ended, lost>>
  BY DEF GetFreshAuthHeaders, tabVars
<1>3. world' \in [locks: BOOLEAN, left: [Outside -> Nat]] /\ world'.locks = world.locks
  BY <1>1, <1>2, OutsideHas, SpendKeeps
<1>4. OtherTypes' BY <1>1, <1>2, <1>3 DEF OtherTypes, SharedTypes, TabTypes
<1> QED BY <1>2, <1>3, <1>4, NeededKept

LEMMA UnauthorizedKept ==
  ASSUME AuthInv, NEW t \in Tabs, Unauthorized(t)
  PROVE  AuthInv'
<1>1. TabTypes /\ SharedTypes BY Types DEF AuthInv
<1>2. /\ RefreshAuthentication(t) /\ Spend("refresh") /\ api' = [api EXCEPT ![t] = "refreshing"]
      /\ UNCHANGED <<sessions, cookie, lock, store, boot, logout, pending, inbox, orphans, ended, lost>>
  BY DEF Unauthorized
<1>3. world' \in [locks: BOOLEAN, left: [Outside -> Nat]] /\ world'.locks = world.locks
  BY <1>1, <1>2, OutsideHas, SpendKeeps
<1>4. api' \in [Tabs -> ApiStates] BY <1>1, <1>2 DEF TabTypes, ApiStates
<1>5. OtherTypes' BY <1>1, <1>2, <1>3, <1>4 DEF OtherTypes, SharedTypes, TabTypes
<1> QED BY <1>2, <1>3, <1>5, NeededKept

(* The page drops its session, or keeps it, in a new epoch.                 *)
LEMMA DroppedKept ==
  ASSUME AuthInv, NEW t \in Tabs, NextEpoch(t), NEW x \in {Nil, store[t]}, NEW e \in {ended[t], SeenEnd(t)},
         x = Nil \/ e = ended[t],
         store' = [store EXCEPT ![t] = x], boot' = [boot EXCEPT ![t] = "complete"], ended' = [ended EXCEPT ![t] = e],
         UNCHANGED <<sessions, lock, orphans, lost>>, cookie' \in {cookie, Nil}, OtherTypes',
         world'.locks = world.locks, NoNewLogin
  PROVE  AuthInv'
<1>1. x \in SidOrNil /\ e \in SUBSET Sids BY SessionKnown, SeenEndSays DEF SidOrNil
<1>2. \A s \in e: sessions[s].status \notin {"unused", "active"} /\ x # s /\ Known(s)
  BY SessionKnown, SeenEndSays
<1>3. \A s \in Sids: Touches(cookie', s) => cookie' = cookie BY DEF Touches
<1>4. \A s \in Sids: Touches(cookie', s) \/ x = s => Known(s) BY <1>3, SessionKnown
<1> QED BY <1>1, <1>2, <1>3, <1>4, NextEpochCore

LEMMA RetryUnauthorizedKept ==
  ASSUME AuthInv, NEW t \in Tabs, RetryUnauthorized(t)
  PROVE  AuthInv'
<1>1. TabTypes /\ SharedTypes BY Types DEF AuthInv
<1>2. /\ ClearAuthentication(t, FALSE) /\ NextEpoch(t) /\ api' = [api EXCEPT ![t] = "redirect"]
      /\ UNCHANGED <<sessions, cookie, lock, logout, pending, orphans, world, ended, lost>>
  BY DEF RetryUnauthorized
<1>3. /\ store' = [store EXCEPT ![t] = Nil] /\ boot' = [boot EXCEPT ![t] = "complete"]
      /\ ended' = [ended EXCEPT ![t] = ended[t]]
  BY <1>1, <1>2 DEF ClearAuthentication, TabTypes
<1>4. inbox' \in [Tabs -> Seq(Event)] BY <1>2, ClearTypes
<1>5. api' \in [Tabs -> ApiStates] BY <1>1, <1>2 DEF TabTypes, ApiStates
<1>6. OtherTypes' BY <1>1, <1>2, <1>4, <1>5 DEF OtherTypes, SharedTypes, TabTypes
<1>7. NoNewLogin BY <1>2 DEF NoNewLogin
<1> QED BY <1>2, <1>3, <1>6, <1>7, DroppedKept

LEMMA PageLoadKept ==
  ASSUME AuthInv, NEW t \in Tabs, PageLoad(t), UNCHANGED <<sessions, cookie>>,
         world' \in [locks: BOOLEAN, left: [Outside -> Nat]], world'.locks = world.locks
  PROVE  AuthInv'
<1>1. TabTypes /\ SharedTypes BY Types DEF AuthInv
<1>2. /\ refresh' = [refresh EXCEPT ![t] = Idle] /\ lock' = (IF lock = t THEN Nil ELSE lock)
      /\ store' = [store EXCEPT ![t] = Nil] /\ boot' = [boot EXCEPT ![t] = "idle"] /\ ended' = [ended EXCEPT ![t] = {}]
      /\ Abandoned(t)
  BY DEF PageLoad
<1>3. api' \in [Tabs -> ApiStates] BY <1>1 DEF TabTypes, ApiStates, PageLoad
<1>4. logout' \in [Tabs -> LogoutRow] BY <1>1, NothingTypes DEF TabTypes, PageLoad
<1>5. pending' \in [Tabs -> PendingRow] BY <1>1, NothingTypes DEF TabTypes, PageLoad
<1>6. inbox' \in [Tabs -> Seq(Event)]
  <2>1. <<>> \in Seq(Event) OBVIOUS
  <2> QED BY <1>1, <2>1 DEF SharedTypes, PageLoad
<1>7. NoNewLogin
  <2>1. NothingPending.kind # "login" BY DEF NothingPending
  <2> QED BY <1>1, <2>1 DEF TabTypes, NoNewLogin, PageLoad
<1>8. /\ orphans' \subseteq [sent: CookieOrNil, expect: SidOrNil] /\ lost \subseteq lost' /\ lost' \subseteq Sids
      /\ \A s \in Sids: \A o \in orphans': Touches(o.sent, s) => Known(s) /\ (s \notin lost' => o \in orphans)
      /\ \A s \in Sids: Successor(refresh[t], s) => s \in lost'
  BY <1>2, AbandonedSays
<1>9. \A s \in Sids: (Touches(cookie', s) \/ Nil = s \/ \E n \in orphans': Touches(n.sent, s)) => Known(s)
  BY <1>8, SessionKnown
<1>10. ASSUME NEW s \in Sids \ lost', SecretInv(s)
       PROVE  /\ cookie' = cookie /\ ~Successor(refresh[t], s)
              /\ \A n \in orphans': ~Touches(n.sent, s)
  BY <1>8, <1>10, SecretWords
<1>11. Nil \in SidOrNil /\ "idle" \in BootStates /\ {} \in SUBSET Sids /\ cookie' \in CookieOrNil
  BY <1>1 DEF SidOrNil, BootStates, SharedTypes
<1> QED BY <1>2, <1>3, <1>4, <1>5, <1>6, <1>7, <1>8, <1>9, <1>10, <1>11, IdleKept

(* A step that touches neither the sessions nor what the pages know.        *)
LEMMA StillKept ==
  ASSUME AuthInv, UNCHANGED <<sessions, cookie, lock, store, boot, refresh, orphans, ended, lost>>, OtherTypes',
         world'.locks = world.locks, NoNewLogin
  PROVE  AuthInv'
<1>1. Quiet BY DEF Quiet
<1>2. Steady BY DEF Steady, RowsAdvance
<1> QED BY <1>1, <1>2, QuietKept

LEMMA RetrySucceedsKept ==
  ASSUME AuthInv, NEW t \in Tabs, RetrySucceeds(t)
  PROVE  AuthInv'
<1>1. TabTypes /\ SharedTypes BY Types DEF AuthInv
<1>2. api' \in [Tabs -> ApiStates] BY <1>1 DEF TabTypes, ApiStates, RetrySucceeds
<1>3. OtherTypes' BY <1>1, <1>2 DEF OtherTypes, SharedTypes, TabTypes, RetrySucceeds
<1>4. NoNewLogin BY DEF NoNewLogin, RetrySucceeds
<1> QED BY <1>3, <1>4, StillKept DEF RetrySucceeds

LEMMA RedirectKept ==
  ASSUME AuthInv, NEW t \in Tabs, RedirectToSignIn(t)
  PROVE  AuthInv'
<1>1. TabTypes /\ SharedTypes BY Types DEF AuthInv
<1>2. UNCHANGED <<sessions, cookie, world>> BY DEF RedirectToSignIn
<1>3. world' \in [locks: BOOLEAN, left: [Outside -> Nat]] BY <1>1, <1>2 DEF SharedTypes
<1>4. CASE PageLoad(t) BY <1>2, <1>3, <1>4, PageLoadKept
<1>5. CASE /\ api' = [api EXCEPT ![t] = "none"]
           /\ UNCHANGED <<store, boot, refresh, lock, logout, pending, inbox, ended, orphans, lost>>
  <2>1. api' \in [Tabs -> ApiStates] BY <1>1, <1>5 DEF TabTypes, ApiStates
  <2>2. OtherTypes' BY <1>1, <1>2, <1>5, <2>1 DEF OtherTypes, SharedTypes, TabTypes
  <2>3. NoNewLogin BY <1>5 DEF NoNewLogin
  <2> QED BY <1>2, <1>5, <2>2, <2>3, StillKept
<1> QED BY <1>4, <1>5 DEF RedirectToSignIn

LEMMA LeaveKept ==
  ASSUME AuthInv, NEW t \in Tabs, Leave(t)
  PROVE  AuthInv'
<1>1. SharedTypes BY Types DEF AuthInv
<1>2. world' \in [locks: BOOLEAN, left: [Outside -> Nat]] /\ world'.locks = world.locks
  BY <1>1, OutsideHas, SpendKeeps DEF Leave
<1> QED BY <1>2, PageLoadKept DEF Leave

LEMMA SessionEventKept ==
  ASSUME AuthInv, NEW t \in Tabs, SessionEvent(t)
  PROVE  AuthInv'
<1> DEFINE rest == [inbox EXCEPT ![t] = Tail(@)]
<1>1. TabTypes /\ SharedTypes BY Types DEF AuthInv
<1>2. UNCHANGED <<sessions, cookie, world>> /\ inbox[t] # <<>> BY DEF SessionEvent
<1>3. rest \in [Tabs -> Seq(Event)] BY <1>1, <1>2, InboxTail
<1> HIDE DEF rest
<1>4. CASE PageLoad(t)
  <2>1. world' \in [locks: BOOLEAN, left: [Outside -> Nat]] BY <1>1, <1>2 DEF SharedTypes
  <2> QED BY <1>2, <1>4, <2>1, PageLoadKept
<1>5. CASE /\ store' = [store EXCEPT ![t] = Nil] /\ boot' = [boot EXCEPT ![t] = "complete"]
           /\ SawEnd(t) /\ NextEpoch(t) /\ inbox' = rest
           /\ UNCHANGED <<lock, api, logout, pending, orphans, lost>>
  <2>1. ended' = [ended EXCEPT ![t] = SeenEnd(t)] BY <1>5 DEF SawEnd, SeenEnd
  <2>2. OtherTypes' BY <1>1, <1>2, <1>3, <1>5 DEF OtherTypes, SharedTypes, TabTypes
  <2>3. NoNewLogin BY <1>5 DEF NoNewLogin
  <2> QED BY <1>2, <1>5, <2>1, <2>2, <2>3, DroppedKept
<1>6. CASE inbox' = rest /\ UNCHANGED <<lock, refresh, orphans, lost, tabVars>>
  <2>1. OtherTypes' BY <1>1, <1>2, <1>3, <1>6 DEF OtherTypes, SharedTypes, TabTypes, tabVars
  <2>2. NoNewLogin BY <1>6 DEF NoNewLogin, tabVars
  <2> QED BY <1>2, <1>6, <2>1, <2>2, StillKept DEF tabVars
<1> QED BY <1>4, <1>5, <1>6 DEF SessionEvent, rest

LEMMA EventTooOldKept ==
  ASSUME AuthInv, NEW t \in Tabs, EventTooOld(t)
  PROVE  AuthInv'
<1>1. TabTypes /\ SharedTypes BY Types DEF AuthInv
<1>2. inbox' \in [Tabs -> Seq(Event)] BY <1>1, InboxTail DEF EventTooOld
<1>3. world' \in [locks: BOOLEAN, left: [Outside -> Nat]] /\ world'.locks = world.locks
  BY <1>1, OutsideHas, SpendKeeps DEF EventTooOld
<1>4. UNCHANGED <<sessions, cookie, lock, refresh, store, boot, api, logout, pending, ended, orphans, lost>>
  BY DEF EventTooOld, tabVars
<1>5. OtherTypes' BY <1>1, <1>2, <1>3, <1>4 DEF OtherTypes, SharedTypes, TabTypes
<1>6. NoNewLogin BY <1>4 DEF NoNewLogin
<1> QED BY <1>3, <1>4, <1>5, <1>6, StillKept

-----------------------------------------------------------------------------
(* Logins, security changes and sign-outs.                                  *)

(* A login takes an identifier that nobody ever saw.                        *)
LEMMA LoginKept ==
  ASSUME AuthInv, NEW t \in Tabs, Login(t)
  PROVE  AuthInv'
<1>1. TabTypes /\ SharedTypes BY Types DEF AuthInv
<1>2. PICK n \in Sids: /\ sessions[n].status = "unused"
                       /\ sessions' = [sessions EXCEPT ![n].status = "active"]
                       /\ pending' = [pending EXCEPT ![t] = [kind |-> "login", sid |-> n]]
  BY DEF Login
<1>3. world' \in [locks: BOOLEAN, left: [Outside -> Nat]] /\ world'.locks = world.locks
  BY <1>1, OutsideHas, SpendKeeps DEF Login
<1>4. UNCHANGED <<cookie, lock, store, boot, refresh, api, logout, inbox, orphans, ended, lost>> BY DEF Login
<1> DEFINE row == [sessions[n] EXCEPT !.status = "active"]
           p == [kind |-> "login", sid |-> n]
<1>5. sessions' = [sessions EXCEPT ![n] = row] BY <1>1, <1>2 DEF SharedTypes
<1>6. row \in SessionRow /\ row.gen = sessions[n].gen /\ row.status = "active"
  BY <1>1, <1>2 DEF SharedTypes, SessionRow, Statuses
<1>7. p \in PendingRow /\ p.kind = "login" /\ p.sid = n BY <1>2 DEF PendingRow, SidOrNil
<1> HIDE DEF row, p
<1>8. sessions' \in [Sids -> SessionRow] BY <1>1, <1>5, <1>6 DEF SharedTypes
<1>9. pending' = [pending EXCEPT ![t] = p] BY <1>2 DEF p
<1>10. pending' \in [Tabs -> PendingRow] BY <1>1, <1>7, <1>9 DEF TabTypes
<1>11. OtherTypes' BY <1>1, <1>3, <1>4, <1>8, <1>10 DEF OtherTypes, SharedTypes, TabTypes
<1>12. \A s \in Sids: /\ sessions'[s].gen = sessions[s].gen
                      /\ s # n => sessions'[s] = sessions[s]
                      /\ s = n => sessions'[s].status = "active"
  BY <1>1, <1>5, <1>6 DEF SharedTypes
<1>13. Steady BY <1>2, <1>3, <1>4, <1>12 DEF Steady, RowsAdvance
<1>14. Quiet BY <1>4, <1>12 DEF Quiet
<1>15. /\ EpochInv' /\ AnswerInv' /\ EndInv' /\ LockInv'
       /\ \A s \in Sids: Known(s)' => Known(s)
  BY <1>11, <1>13, <1>14, QuietKept
<1>16. TypeOK' BY <1>11, <1>14, QuietTypes DEF AuthInv
<1>17. pending'[t] = p /\ \A u \in Tabs \ {t}: pending'[u] = pending[u] BY <1>1, <1>9 DEF TabTypes
<1>18. \A u \in Tabs: pending[u].kind = "login" => pending[u].sid # n BY <1>2 DEF AuthInv, FreshInv
<1>19. FreshInv'
  <2>1. \A u \in Tabs: pending'[u].kind = "login" =>
          pending'[u].sid \in Sids /\ sessions'[pending'[u].sid].status # "unused"
    BY <1>7, <1>12, <1>17 DEF AuthInv, FreshInv
  <2>2. \A u, v \in Tabs: pending'[u].kind = "login" /\ pending'[v] = pending'[u] => u = v
    BY <1>7, <1>17, <1>18 DEF AuthInv, FreshInv
  <2>3. Fresh(n) BY <1>2 DEF Fresh
  <2>4. \A s \in Sids: Fresh(s)' => Fresh(s)
    BY <1>7, <1>12, <1>17, <2>3 DEF Fresh
  <2>5. \A s \in Sids: Fresh(s)' => sessions'[s].gen = 0 /\ ~Known(s)'
    BY <1>12, <1>15, <2>4, FreshIsUnknown DEF AuthInv
  <2>6. \A s \in Sids: Fresh(s)' =>
          /\ sessions'[s].gen = 0
          /\ ~Touches(cookie, s)'
          /\ \A u \in Tabs: store'[u] # s /\ s \notin ended'[u] /\ ~Touches(refresh[u].sent, s)'
          /\ \A o \in orphans': ~Touches(o.sent, s)
    BY <2>5 DEF Known, Touches
  <2> QED BY <2>1, <2>2, <2>6 DEF FreshInv, Touches
<1> QED BY <1>15, <1>16, <1>19 DEF AuthInv

LEMMA LoginAnsweredKept ==
  ASSUME AuthInv, NEW t \in Tabs, LoginAnswered(t)
  PROVE  AuthInv'
<1>0. PICK n: n = pending[t].sid OBVIOUS
<1> DEFINE e == ended[t]
<1>1. TabTypes /\ SharedTypes BY Types DEF AuthInv
<1>2. /\ pending[t].kind = "login" /\ cookie' = [sid |-> n, gen |-> 0] /\ ApplyAuthBundle(t, n, TRUE) /\ NextEpoch(t)
      /\ pending' = [pending EXCEPT ![t] = NothingPending]
      /\ UNCHANGED <<sessions, lock, api, logout, orphans, world, ended, lost>>
  BY <1>0 DEF LoginAnswered
<1>3. n \in Sids /\ sessions[n].status # "unused" BY <1>0, <1>2 DEF AuthInv, FreshInv
<1>4. Fresh(n) BY <1>0, <1>2 DEF Fresh
<1>5. sessions[n].gen = 0 /\ ~Known(n) BY <1>3, <1>4, FreshIsUnknown DEF AuthInv
<1>6. /\ store' = [store EXCEPT ![t] = n] /\ boot' = [boot EXCEPT ![t] = "complete"]
      /\ ended' = [ended EXCEPT ![t] = e]
  BY <1>1, <1>2 DEF ApplyAuthBundle, TabTypes
<1>7. inbox' \in [Tabs -> Seq(Event)] BY <1>2, <1>3, ApplyTypes
<1>8. cookie' \in CookieOrNil /\ cookie'.sid = n /\ cookie'.gen = 0 BY <1>2, <1>3 DEF CookieOrNil, Cookies
<1>9. pending' \in [Tabs -> PendingRow] /\ pending'[t] = NothingPending
      /\ \A u \in Tabs \ {t}: pending'[u] = pending[u]
  BY <1>1, <1>2, NothingTypes DEF TabTypes
<1>10. NothingPending.kind # "login" BY DEF NothingPending
<1>11. OtherTypes' BY <1>1, <1>2, <1>7, <1>8, <1>9 DEF OtherTypes, SharedTypes, TabTypes
<1>12. \A s \in e: sessions[s].status \notin {"unused", "active"} /\ n # s /\ Known(s) BY <1>5, SeenEndSays
<1>13. \A s \in Sids: Touches(cookie', s) => cookie'.gen = sessions[s].gen BY <1>5, <1>8 DEF Touches
<1>14. n \in SidOrNil /\ e \in SUBSET Sids BY <1>3, SessionKnown DEF SidOrNil
<1>15. /\ TypeOK' /\ EpochInv' /\ AnswerInv' /\ EndInv' /\ LockInv'
       /\ \A s \in Sids: (Touches(cookie', s) \/ n = s => Known(s)) => (Known(s)' => Known(s))
  <2> HIDE DEF e
  <2> QED BY <1>2, <1>6, <1>11, <1>12, <1>13, <1>14, NextEpochCore
<1>16. \A s \in Sids: s # n => (Known(s)' => Known(s)) BY <1>8, <1>15 DEF Touches
<1>17. FreshInv'
  <2>1. \A u \in Tabs: pending'[u].kind = "login" => u # t /\ pending'[u] = pending[u] BY <1>9, <1>10
  <2>2. \A u \in Tabs: pending'[u].kind = "login" => pending'[u].sid # n
    <3> SUFFICES ASSUME NEW u \in Tabs, pending'[u].kind = "login", pending'[u].sid = n PROVE FALSE
      OBVIOUS
    <3>1. u # t /\ pending[u].kind = "login" /\ pending[u].sid = n BY <2>1
    <3>2. pending[u] = pending[t] BY <1>0, <1>1, <1>2, <3>1 DEF TabTypes, PendingRow
    <3> QED BY <1>2, <3>1, <3>2 DEF AuthInv, FreshInv
  <2>3. ~Fresh(n)' BY <1>2, <1>3, <2>2 DEF Fresh
  <2>4. \A s \in Sids: Fresh(s)' => Fresh(s) /\ s # n BY <1>2, <2>1, <2>3 DEF Fresh
  <2>5. \A s \in Sids: Fresh(s)' => sessions'[s].gen = 0 /\ ~Known(s)'
    BY <1>2, <1>16, <2>4, FreshIsUnknown DEF AuthInv
  <2>6. \A s \in Sids: Fresh(s)' =>
          /\ sessions'[s].gen = 0
          /\ ~Touches(cookie, s)'
          /\ \A u \in Tabs: store'[u] # s /\ s \notin ended'[u] /\ ~Touches(refresh[u].sent, s)'
          /\ \A o \in orphans': ~Touches(o.sent, s)
    BY <2>5 DEF Known, Touches
  <2>7. \A u \in Tabs: pending'[u].kind = "login" =>
          pending'[u].sid \in Sids /\ sessions'[pending'[u].sid].status # "unused"
    BY <1>2, <2>1 DEF AuthInv, FreshInv
  <2>8. \A u, v \in Tabs: pending'[u].kind = "login" /\ pending'[v] = pending'[u] => u = v
    BY <2>1 DEF AuthInv, FreshInv
  <2> QED BY <2>6, <2>7, <2>8 DEF FreshInv, Touches
<1> QED BY <1>15, <1>17 DEF AuthInv

(* A step of the server on the rows alone, besides the requests under way.  *)
LEMMA RowsKept ==
  ASSUME AuthInv, UNCHANGED <<cookie, lock, store, boot, refresh, ended, lost>>, orphans' \subseteq orphans,
         OtherTypes', NoNewLogin, world'.locks = world.locks, RowsAdvance,
         \A s \in Sids: sessions'[s].gen = sessions[s].gen,
         \A s \in Sids: sessions'[s].status = "reuse" => sessions[s].status = "reuse"
  PROVE  AuthInv'
<1>1. Quiet BY DEF Quiet
<1>2. Steady BY DEF Steady
<1> QED BY <1>1, <1>2, QuietKept

LEMMA SecurityChangeKept ==
  ASSUME AuthInv, NEW t \in Tabs, SecurityChange(t)
  PROVE  AuthInv'
<1> DEFINE o(s) == sessions[s].outdated \/ sessions[s].status = "active"
           row(s) == [sessions[s] EXCEPT !.outdated = o(s)]
           p == [kind |-> "changing", sid |-> store[t]]
<1>1. TabTypes /\ SharedTypes BY Types DEF AuthInv
<1>2. UNCHANGED <<cookie, lock, store, boot, refresh, api, logout, inbox, orphans, ended, lost>> BY DEF SecurityChange
<1>3. world' \in [locks: BOOLEAN, left: [Outside -> Nat]] /\ world'.locks = world.locks
  BY <1>1, OutsideHas, SpendKeeps DEF SecurityChange
<1>4. sessions' = [s \in Sids |-> row(s)] BY DEF SecurityChange
<1>5. ASSUME NEW s \in Sids
      PROVE  row(s) \in SessionRow /\ row(s).status = sessions[s].status /\ row(s).gen = sessions[s].gen
  <2>1. sessions[s] \in SessionRow /\ o(s) \in BOOLEAN BY <1>1 DEF SharedTypes
  <2> HIDE DEF o
  <2> QED BY <2>1 DEF SessionRow
<1> HIDE DEF row
<1>6. /\ sessions' \in [Sids -> SessionRow]
      /\ \A s \in Sids: sessions'[s].status = sessions[s].status /\ sessions'[s].gen = sessions[s].gen
  BY <1>4, <1>5
<1>7. p \in PendingRow /\ p.kind = "changing" BY <1>1 DEF TabTypes, PendingRow
<1> HIDE DEF p
<1>8. pending' = [pending EXCEPT ![t] = p] BY DEF SecurityChange, p
<1>9. pending' \in [Tabs -> PendingRow] /\ NoNewLogin BY <1>1, <1>7, <1>8 DEF TabTypes, NoNewLogin
<1>10. OtherTypes' BY <1>1, <1>2, <1>3, <1>6, <1>9 DEF OtherTypes, SharedTypes, TabTypes
<1>11. RowsAdvance BY <1>6 DEF RowsAdvance
<1> QED BY <1>2, <1>3, <1>6, <1>9, <1>10, <1>11, RowsKept

LEMMA AdvanceKept ==
  ASSUME AuthInv, NEW t \in Tabs, AdvanceCurrentSession(t)
  PROVE  AuthInv'
<1> DEFINE n == pending[t].sid
           advanced == sessions[n].status = "active"
           row(u) == IF u = n THEN [sessions[u] EXCEPT !.outdated = FALSE]
                     ELSE IF sessions[u].status = "active" THEN [sessions[u] EXCEPT !.status = "removed"]
                     ELSE sessions[u]
           k == IF advanced THEN "rotation" ELSE "failed"
           p == [pending[t] EXCEPT !.kind = k]
<1>1. TabTypes /\ SharedTypes BY Types DEF AuthInv
<1>2. UNCHANGED <<cookie, lock, store, boot, refresh, api, logout, inbox, orphans, world, ended, lost>>
  BY DEF AdvanceCurrentSession
<1>3. sessions' = (IF ~advanced THEN sessions ELSE [u \in Sids |-> row(u)]) BY DEF AdvanceCurrentSession
<1>4. ASSUME NEW u \in Sids
      PROVE  /\ row(u) \in SessionRow /\ row(u).gen = sessions[u].gen
             /\ row(u).status = sessions[u].status \/ (sessions[u].status = "active" /\ row(u).status = "removed")
  <2>1. sessions[u] \in SessionRow BY <1>1 DEF SharedTypes
  <2> QED BY <2>1 DEF SessionRow, Statuses
<1> HIDE DEF row
<1>5. /\ sessions' \in [Sids -> SessionRow]
      /\ \A u \in Sids: /\ sessions'[u].gen = sessions[u].gen
                        /\ \/ sessions'[u].status = sessions[u].status
                           \/ sessions[u].status = "active" /\ sessions'[u].status = "removed"
  BY <1>1, <1>3, <1>4 DEF SharedTypes
<1>6. p \in PendingRow /\ p.kind # "login" BY <1>1 DEF TabTypes, PendingRow
<1>7. pending' = [pending EXCEPT ![t] = p] BY <1>1 DEF AdvanceCurrentSession, TabTypes
<1> HIDE DEF p
<1>8. pending' \in [Tabs -> PendingRow] /\ NoNewLogin BY <1>1, <1>6, <1>7 DEF TabTypes, NoNewLogin
<1>9. OtherTypes' BY <1>1, <1>2, <1>5, <1>8 DEF OtherTypes, SharedTypes, TabTypes
<1>10. RowsAdvance BY <1>5 DEF RowsAdvance
<1> QED BY <1>2, <1>5, <1>8, <1>9, <1>10, RowsKept

LEMMA RotationAnsweredKept ==
  ASSUME AuthInv, NEW t \in Tabs, RotationAnswered(t)
  PROVE  AuthInv'
<1>1. TabTypes /\ SharedTypes BY Types DEF AuthInv
<1>2. /\ pending' = [pending EXCEPT ![t] = NothingPending] /\ UNCHANGED <<sessions, lock, api, logout, orphans, world, lost>>
  BY DEF RotationAnswered
<1>3. pending' \in [Tabs -> PendingRow] BY <1>1, <1>2, NothingTypes DEF TabTypes
<1>4. NoNewLogin
  <2>1. NothingPending.kind # "login" BY DEF NothingPending
  <2> QED BY <1>1, <1>2, <2>1 DEF TabTypes, NoNewLogin
<1>5. CASE /\ pending[t].sid = store[t] /\ pending[t].kind = "rotation" /\ ApplyAuthBundle(t, pending[t].sid, FALSE)
           /\ NextEpoch(t) /\ UNCHANGED <<cookie, ended>>
  <2>1. /\ store' = [store EXCEPT ![t] = store[t]] /\ boot' = [boot EXCEPT ![t] = "complete"] /\ inbox' = inbox
        /\ ended' = [ended EXCEPT ![t] = ended[t]]
    BY <1>1, <1>5 DEF ApplyAuthBundle, TabTypes
  <2>2. OtherTypes' BY <1>1, <1>2, <1>3, <1>5, <2>1 DEF OtherTypes, SharedTypes, TabTypes
  <2>3. cookie' = cookie /\ NextEpoch(t) BY <1>5
  <2> QED BY <1>2, <1>4, <2>1, <2>2, <2>3, DroppedKept
<1>6. CASE cookie' = Nil /\ ClearAuthentication(t, TRUE) /\ SawEnd(t) /\ NextEpoch(t)
  <2>1. /\ store' = [store EXCEPT ![t] = Nil] /\ boot' = [boot EXCEPT ![t] = "complete"]
        /\ ended' = [ended EXCEPT ![t] = SeenEnd(t)]
    BY <1>6 DEF ClearAuthentication, SawEnd, SeenEnd
  <2>2. inbox' \in [Tabs -> Seq(Event)] BY <1>6, ClearTypes
  <2>3. cookie' \in CookieOrNil BY <1>6 DEF CookieOrNil
  <2>4. OtherTypes' BY <1>1, <1>2, <1>3, <2>2, <2>3 DEF OtherTypes, SharedTypes, TabTypes
  <2> QED BY <1>2, <1>4, <1>6, <2>1, <2>4, DroppedKept
<1>7. CASE UNCHANGED <<cookie, store, boot, refresh, inbox, ended>>
  <2>1. OtherTypes' BY <1>1, <1>2, <1>3, <1>7 DEF OtherTypes, SharedTypes, TabTypes
  <2> QED BY <1>2, <1>4, <1>7, <2>1, StillKept
<1> QED BY <1>5, <1>6, <1>7 DEF RotationAnswered

LEMMA LogoutKept ==
  ASSUME AuthInv, NEW t \in Tabs, Logout(t)
  PROVE  AuthInv'
<1> DEFINE l == [NoLogout EXCEPT !.pc = "sent", !.sent = cookie, !.expect = store[t]]
<1>1. TabTypes /\ SharedTypes BY Types DEF AuthInv
<1>2. UNCHANGED <<sessions, cookie, lock, store, boot, refresh, api, pending, inbox, orphans, ended, lost>> BY DEF Logout
<1>3. world' \in [locks: BOOLEAN, left: [Outside -> Nat]] /\ world'.locks = world.locks
  BY <1>1, OutsideHas, SpendKeeps DEF Logout
<1>4. cookie \in CookieOrNil /\ store[t] \in SidOrNil BY <1>1 DEF TabTypes, SharedTypes
<1>5. l \in LogoutRow BY <1>4, NothingTypes DEF LogoutRow
<1> HIDE DEF l
<1>6. logout' \in [Tabs -> LogoutRow] BY <1>1, <1>5 DEF TabTypes, Logout, l
<1>7. OtherTypes' BY <1>1, <1>2, <1>3, <1>6 DEF OtherTypes, SharedTypes, TabTypes
<1>8. NoNewLogin BY <1>2 DEF NoNewLogin
<1> QED BY <1>2, <1>3, <1>7, <1>8, StillKept

LEMMA AuthLogoutKept ==
  ASSUME AuthInv, NEW t \in Tabs, AuthLogout(t)
  PROVE  AuthInv'
<1> DEFINE c == logout[t].sent
           e == logout[t].expect
           l(k) == [logout[t] EXCEPT !.pc = "answered", !.answer = Answer(k, Nil)]
<1>1. TabTypes /\ SharedTypes BY Types DEF AuthInv
<1>2. UNCHANGED <<cookie, lock, store, boot, refresh, api, pending, inbox, orphans, world, ended, lost>> BY DEF AuthLogout
<1>3. logout[t] \in LogoutRow /\ c \in CookieOrNil /\ e \in SidOrNil BY <1>1 DEF TabTypes, LogoutRow
<1>4. PICK k \in {"mismatch", "kept", "ok"}: logout' = [logout EXCEPT ![t].pc = "answered", ![t].answer = Answer(k, Nil)]
  BY DEF AuthLogout
<1>5. k \in Kinds /\ Nil \in CookieOrNil BY DEF Kinds, CookieOrNil
<1>6. Answer(k, Nil) \in AnswerRow BY <1>5, AnswerType
<1>7. l(k) \in LogoutRow BY <1>3, <1>6 DEF LogoutRow
<1>8. logout' = [logout EXCEPT ![t] = l(k)] BY <1>1, <1>4 DEF TabTypes
<1> HIDE DEF l
<1>9. logout' \in [Tabs -> LogoutRow] BY <1>1, <1>7, <1>8 DEF TabTypes
<1>10. /\ sessions' \in [Sids -> SessionRow] /\ RowsAdvance
       /\ \A s \in Sids: /\ sessions'[s].gen = sessions[s].gen
                         /\ sessions'[s].status = "reuse" => sessions[s].status = "reuse"
  <2>1. sessions' = sessions \/ \E s \in Sids: sessions' = Revoked(sessions, s, "logout")
    <3>1. (e # Nil => e \in Sids) /\ (c # Nil => c.sid \in Sids) BY <1>3 DEF CookieOrNil, Cookies, SidOrNil
    <3> QED BY <3>1 DEF AuthLogout
  <2>2. CASE sessions' = sessions BY <1>1, <2>2 DEF SharedTypes, RowsAdvance
  <2>3. CASE \E s \in Sids: sessions' = Revoked(sessions, s, "logout")
    <3>1. "logout" \in Statuses \ {"unused", "active"} BY DEF Statuses
    <3> QED BY <1>1, <2>3, <3>1, RevokedRows
  <2> QED BY <2>1, <2>2, <2>3
<1>11. OtherTypes' BY <1>1, <1>2, <1>9, <1>10 DEF OtherTypes, SharedTypes, TabTypes
<1>12. NoNewLogin BY <1>2 DEF NoNewLogin
<1> QED BY <1>2, <1>10, <1>11, <1>12, RowsKept

LEMMA LogoutAnsweredKept ==
  ASSUME AuthInv, NEW t \in Tabs, LogoutAnswered(t)
  PROVE  AuthInv'
<1>1. TabTypes /\ SharedTypes BY Types DEF AuthInv
<1>2. UNCHANGED <<sessions, lock, api, pending, orphans, world, lost>> BY DEF LogoutAnswered
<1>3. NoNewLogin BY <1>2 DEF NoNewLogin
<1>4. CASE /\ cookie' \in {cookie, Nil} /\ logout' = [logout EXCEPT ![t] = NoLogout]
           /\ ClearAuthentication(t, TRUE) /\ SawEnd(t) /\ NextEpoch(t)
  <2>1. /\ store' = [store EXCEPT ![t] = Nil] /\ boot' = [boot EXCEPT ![t] = "complete"]
        /\ ended' = [ended EXCEPT ![t] = SeenEnd(t)]
    BY <1>4 DEF ClearAuthentication, SawEnd, SeenEnd
  <2>2. inbox' \in [Tabs -> Seq(Event)] BY <1>4, ClearTypes
  <2>3. cookie' \in CookieOrNil /\ logout' \in [Tabs -> LogoutRow]
    BY <1>1, <1>4, NothingTypes DEF CookieOrNil, SharedTypes, TabTypes
  <2>4. OtherTypes' BY <1>1, <1>2, <2>2, <2>3 DEF OtherTypes, SharedTypes, TabTypes
  <2> QED BY <1>2, <1>3, <1>4, <2>1, <2>4, DroppedKept
<1>5. CASE /\ logout' = [logout EXCEPT ![t].pc = "refreshing"] /\ RefreshAuthentication(t)
           /\ UNCHANGED <<cookie, store, boot, inbox, ended>>
  <2> DEFINE l == [logout[t] EXCEPT !.pc = "refreshing"]
  <2>1. l \in LogoutRow BY <1>1 DEF TabTypes, LogoutRow
  <2>2. logout' = [logout EXCEPT ![t] = l] BY <1>1, <1>5 DEF TabTypes
  <2> HIDE DEF l
  <2>3. logout' \in [Tabs -> LogoutRow] BY <1>1, <2>1, <2>2 DEF TabTypes
  <2>4. OtherTypes' BY <1>1, <1>2, <1>5, <2>3 DEF OtherTypes, SharedTypes, TabTypes
  <2> QED BY <1>2, <1>5, <2>4, NeededKept
<1>6. CASE /\ logout' = [logout EXCEPT ![t] = NoLogout] /\ UNCHANGED <<cookie, refresh, store, boot, inbox, ended>>
  <2>1. logout' \in [Tabs -> LogoutRow] BY <1>1, <1>6, NothingTypes DEF TabTypes
  <2>2. OtherTypes' BY <1>1, <1>2, <1>6, <2>1 DEF OtherTypes, SharedTypes, TabTypes
  <2> QED BY <1>2, <1>3, <1>6, <2>2, StillKept
<1> QED BY <1>4, <1>5, <1>6 DEF LogoutAnswered

-----------------------------------------------------------------------------
(* The server on its own.                                                   *)

LEMMA GraceEndsKept ==
  ASSUME AuthInv, NEW s \in Sids, GraceEnds(s)
  PROVE  AuthInv'
<1> DEFINE row == [sessions[s] EXCEPT !.grace = FALSE]
<1>1. TabTypes /\ SharedTypes BY Types DEF AuthInv
<1>2. UNCHANGED <<cookie, lock, store, boot, api, logout, pending, ended, refresh, inbox, orphans, world, lost>>
  BY DEF GraceEnds, tabVars
<1>3. sessions' = [sessions EXCEPT ![s] = row] BY <1>1 DEF GraceEnds, SharedTypes
<1>4. row \in SessionRow /\ row.gen = sessions[s].gen /\ row.status = sessions[s].status
  BY <1>1 DEF SharedTypes, SessionRow
<1> HIDE DEF row
<1>5. /\ sessions' \in [Sids -> SessionRow]
      /\ \A u \in Sids: sessions'[u].gen = sessions[u].gen /\ sessions'[u].status = sessions[u].status
  BY <1>1, <1>3, <1>4 DEF SharedTypes
<1>6. RowsAdvance BY <1>5 DEF RowsAdvance
<1>7. OtherTypes' BY <1>1, <1>2, <1>5 DEF OtherTypes, SharedTypes, TabTypes
<1>8. NoNewLogin BY <1>2 DEF NoNewLogin
<1> QED BY <1>2, <1>5, <1>6, <1>7, <1>8, RowsKept

LEMMA RevokedElsewhereKept ==
  ASSUME AuthInv, NEW s \in Sids, RevokedElsewhere(s)
  PROVE  AuthInv'
<1>1. TabTypes /\ SharedTypes BY Types DEF AuthInv
<1>2. UNCHANGED <<cookie, lock, store, boot, api, logout, pending, ended, refresh, inbox, orphans, lost>>
  BY DEF RevokedElsewhere, tabVars
<1>3. world' \in [locks: BOOLEAN, left: [Outside -> Nat]] /\ world'.locks = world.locks
  BY <1>1, OutsideHas, SpendKeeps DEF RevokedElsewhere
<1>4. "removed" \in Statuses \ {"unused", "active"} /\ sessions' = Revoked(sessions, s, "removed")
  BY DEF Statuses, RevokedElsewhere
<1>5. /\ sessions' \in [Sids -> SessionRow] /\ RowsAdvance
      /\ \A u \in Sids: /\ sessions'[u].gen = sessions[u].gen
                        /\ sessions'[u].status # sessions[u].status => u = s /\ sessions'[u].status = "removed"
  BY <1>1, <1>4, RevokedRows
<1>6. OtherTypes' BY <1>1, <1>2, <1>3, <1>5 DEF OtherTypes, SharedTypes, TabTypes
<1>7. NoNewLogin BY <1>2 DEF NoNewLogin
<1> QED BY <1>2, <1>3, <1>5, <1>6, <1>7, RowsKept

LEMMA UnheardKept ==
  ASSUME AuthInv, NEW o \in orphans, RefreshAuthUnheard(o)
  PROVE  AuthInv'
<1> DEFINE c == o.sent
           v == Verdict(c, o.expect)
<1>1. TabTypes /\ SharedTypes BY Types DEF AuthInv
<1>2. UNCHANGED <<cookie, lock, store, boot, api, logout, pending, ended, refresh, inbox, world, lost>>
  BY DEF RefreshAuthUnheard, tabVars
<1>3. c \in CookieOrNil /\ o.expect \in SidOrNil /\ sessions' = Rotated(c, v) /\ orphans' \subseteq orphans
  BY <1>1 DEF SharedTypes, RefreshAuthUnheard
<1>4. v \in {"rotate", "race", "reuse", "changed"} => c # Nil BY <1>1, <1>3, VerdictSays
<1>5. /\ sessions' \in [Sids -> SessionRow] /\ RowsAdvance
      /\ \A s \in Sids:
           /\ sessions'[s].gen # sessions[s].gen => v = "rotate" /\ c.sid = s
           /\ sessions'[s].status = "reuse" /\ sessions[s].status # "reuse" => v = "reuse" /\ c.sid = s
  BY <1>1, <1>3, RotatedRows
<1> HIDE DEF v
<1>6. Quiet BY <1>2, <1>3, <1>4, <1>5 DEF Quiet, Touches
<1>7. OtherTypes' BY <1>1, <1>2, <1>3, <1>5 DEF OtherTypes, SharedTypes, TabTypes
<1>8. NoNewLogin /\ Steady BY <1>2, <1>5 DEF NoNewLogin, Steady
<1> QED BY <1>6, <1>7, <1>8, QuietKept

-----------------------------------------------------------------------------
(* The invariant.                                                           *)

LEMMA AuthInit == Init => AuthInv
<1> SUFFICES ASSUME Init PROVE AuthInv
  OBVIOUS
<1>1. cookie \in CookieOrNil /\ (cookie # Nil => cookie.gen = 0) BY DEF Init, CookieOrNil, Cookies
<1> DEFINE st(s) == IF cookie # Nil /\ cookie.sid = s THEN "active" ELSE "unused"
<1>2. sessions = [s \in Sids |-> [status |-> st(s), gen |-> 0, grace |-> FALSE, outdated |-> FALSE]] BY DEF Init
<1>3. \A s \in Sids: st(s) \in Statuses /\ (st(s) = "unused" <=> ~Touches(cookie, s)) /\ st(s) # "reuse"
  BY DEF Statuses, Touches
<1> HIDE DEF st
<1>4. /\ sessions \in [Sids -> SessionRow]
      /\ \A s \in Sids: sessions[s].gen = 0 /\ sessions[s].status = st(s)
  BY <1>2, <1>3 DEF SessionRow
<1>5. \A t \in Tabs: refresh[t] = Idle /\ store[t] = Nil /\ boot[t] = "idle" /\ ended[t] = {} /\ pending[t] = NothingPending
  BY DEF Init
<1>6. /\ Idle.pc = "none" /\ Idle.current /\ Idle.sent = Nil /\ Idle.answer.kind = "none"
      /\ NothingPending.kind = "none"
  BY NothingTypes DEF NothingPending
<1>7. TypeOK
  <2>1. store \in [Tabs -> SidOrNil] /\ boot \in [Tabs -> BootStates] /\ api \in [Tabs -> ApiStates]
    BY DEF Init, SidOrNil, BootStates, ApiStates
  <2>2. refresh \in [Tabs -> RefreshRow] /\ logout \in [Tabs -> LogoutRow] /\ pending \in [Tabs -> PendingRow]
    BY NothingTypes DEF Init
  <2>3. ended \in [Tabs -> SUBSET Sids] /\ lost \subseteq Sids BY DEF Init
  <2>4. inbox \in [Tabs -> Seq(Event)]
    <3>1. <<>> \in Seq(Event) OBVIOUS
    <3> QED BY <3>1 DEF Init
  <2>5. /\ orphans \subseteq [sent: CookieOrNil, expect: SidOrNil] /\ lock \in Tabs \cup {Nil} BY DEF Init
  <2>6. world \in [locks: BOOLEAN, left: [Outside -> Nat]] BY AuthAssumption DEF Init
  <2> QED BY <1>1, <1>4, <2>1, <2>2, <2>3, <2>4, <2>5, <2>6, Types DEF TabTypes, SharedTypes
<1>8. EpochInv BY <1>5, <1>6 DEF EpochInv
<1>9. AnswerInv BY <1>5, <1>6 DEF AnswerInv, InFlight
<1>10. EndInv BY <1>5 DEF EndInv
<1>11. FreshInv
  <2>1. \A s \in Sids: Fresh(s) => ~Touches(cookie, s) BY <1>3, <1>4, <1>5, <1>6 DEF Fresh
  <2>2. \A s: ~Touches(Nil, s) BY DEF Touches
  <2>3. orphans = {} BY DEF Init
  <2> QED BY <1>4, <1>5, <1>6, <2>1, <2>2, <2>3, NilIsNothing DEF FreshInv
<1>12. LockInv
  <2>1. \A t \in Tabs: refresh[t].pc \notin HasLock BY <1>5, <1>6 DEF HasLock
  <2>2. ASSUME NEW s \in Sids PROVE SecretInv(s)
    <3>1. \A t \in Tabs: SecretFits(refresh[t], s, sessions[s].gen) BY <1>5, <1>6 DEF SecretFits, Touches
    <3>2. Touches(cookie, s) => cookie.gen = sessions[s].gen BY <1>1, <1>4 DEF Touches
    <3>3. orphans = {} /\ sessions[s].status # "reuse" BY <1>3, <1>4 DEF Init
    <3> QED BY <3>1, <3>2, <3>3, SecretWords
  <2> QED BY <2>1, <2>2 DEF LockInv
<1> QED BY <1>7, <1>8, <1>9, <1>10, <1>11, <1>12 DEF AuthInv

LEMMA AuthStep == AuthInv /\ [Next]_vars => AuthInv'
<1> SUFFICES ASSUME AuthInv, [Next]_vars PROVE AuthInv'
  OBVIOUS
<1>1. ASSUME NEW t \in Tabs, TabStep(t) PROVE AuthInv'
  <2>1. CASE RefreshAuth(t) BY <2>1, RefreshAuthKept
  <2>2. CASE RecoverUserSessionRefresh(t) BY <2>2, RecoverKept
  <2>3. CASE RefreshRejected(t) \/ SessionLookupFails(t) BY <2>3, RefusedKept
  <2>4. CASE RefreshNotIssued(t) BY <2>4, NotIssuedKept
  <2>5. CASE LockGranted(t) BY <2>5, LockGrantedKept
  <2>6. CASE RefreshAnswered(t) BY <2>6, RefreshAnsweredKept
  <2>7. CASE RaceDelayOver(t) BY <2>7, RaceDelayOverKept
  <2>8. CASE Deadline(t) BY <2>8, DeadlineKept
  <2>9. CASE BootstrapAuthentication(t) BY <2>9, BootstrapKept
  <2>10. CASE GetFreshAuthHeaders(t) BY <2>10, FreshHeadersKept
  <2>11. CASE Unauthorized(t) BY <2>11, UnauthorizedKept
  <2>12. CASE RetrySucceeds(t) BY <2>12, RetrySucceedsKept
  <2>13. CASE RetryUnauthorized(t) BY <2>13, RetryUnauthorizedKept
  <2>14. CASE RedirectToSignIn(t) BY <2>14, RedirectKept
  <2>15. CASE Leave(t) BY <2>15, LeaveKept
  <2>16. CASE SessionEvent(t) BY <2>16, SessionEventKept
  <2>17. CASE EventTooOld(t) BY <2>17, EventTooOldKept
  <2>18. CASE Login(t) BY <2>18, LoginKept
  <2>19. CASE LoginAnswered(t) BY <2>19, LoginAnsweredKept
  <2>20. CASE SecurityChange(t) BY <2>20, SecurityChangeKept
  <2>21. CASE AdvanceCurrentSession(t) BY <2>21, AdvanceKept
  <2>22. CASE RotationAnswered(t) BY <2>22, RotationAnsweredKept
  <2>23. CASE Logout(t) BY <2>23, LogoutKept
  <2>24. CASE AuthLogout(t) BY <2>24, AuthLogoutKept
  <2>25. CASE LogoutAnswered(t) BY <2>25, LogoutAnsweredKept
  <2> QED BY <1>1, <2>1, <2>2, <2>3, <2>4, <2>5, <2>6, <2>7, <2>8, <2>9, <2>10, <2>11, <2>12, <2>13, <2>14, <2>15,
             <2>16, <2>17, <2>18, <2>19, <2>20, <2>21, <2>22, <2>23, <2>24, <2>25 DEF TabStep
<1>2. ASSUME NEW s \in Sids, GraceEnds(s) \/ RevokedElsewhere(s) PROVE AuthInv'
  BY <1>2, GraceEndsKept, RevokedElsewhereKept
<1>3. ASSUME NEW o \in orphans, RefreshAuthUnheard(o) PROVE AuthInv'
  BY <1>3, UnheardKept
<1>4. CASE UNCHANGED vars
  <2>1. OtherTypes' BY <1>4, Types DEF AuthInv, vars, OtherTypes, TabTypes, SharedTypes
  <2>2. NoNewLogin BY <1>4 DEF vars, NoNewLogin
  <2> QED BY <1>4, <2>1, <2>2, StillKept DEF vars
<1> QED BY <1>1, <1>2, <1>3, <1>4 DEF Next

(* What a page shows from one step to the next: the sessions it saw end are *)
(* remembered as long as the page lives, and another session appears in     *)
(* place of one only through a login.                                       *)
PageMoves(u) ==
  /\ ended[u] \subseteq ended'[u] \/ store'[u] = Nil
  /\ store[u] # Nil /\ store'[u] \notin {store[u], Nil} => pending[u].kind = "login"

LEMMA MovesAlone ==
  ASSUME TabTypes, NEW t \in Tabs, NEW x, NEW e,
         store' = [store EXCEPT ![t] = x], ended' = [ended EXCEPT ![t] = e],
         ended[t] \subseteq e \/ x = Nil, x \in {Nil, store[t]} \/ store[t] = Nil \/ pending[t].kind = "login"
  PROVE  \A u \in Tabs: PageMoves(u)
<1> SUFFICES ASSUME NEW u \in Tabs PROVE PageMoves(u)
  OBVIOUS
<1>1. CASE u = t
  <2>1. store'[u] = x /\ ended'[u] = e BY <1>1 DEF TabTypes
  <2> QED BY <1>1, <2>1 DEF PageMoves
<1>2. CASE u # t
  <2>1. store'[u] = store[u] /\ ended'[u] = ended[u] BY <1>2 DEF TabTypes
  <2> QED BY <2>1 DEF PageMoves
<1> QED BY <1>1, <1>2

LEMMA PageSteps == AuthInv /\ [Next]_vars => \A u \in Tabs: PageMoves(u)
<1> SUFFICES ASSUME AuthInv, [Next]_vars PROVE \A u \in Tabs: PageMoves(u)
  OBVIOUS
<1>1. TabTypes BY Types DEF AuthInv
<1>2. CASE UNCHANGED <<store, ended>> BY <1>2 DEF PageMoves
<1>3. ASSUME NEW t \in Tabs, TabStep(t) PROVE \A u \in Tabs: PageMoves(u)
  <2>0. ended = [ended EXCEPT ![t] = ended[t]] BY <1>1 DEF TabTypes
  <2>1. ASSUME UNCHANGED ended, store' = [store EXCEPT ![t] = Nil] PROVE \A u \in Tabs: PageMoves(u)
    BY <1>1, <2>0, <2>1, MovesAlone
  <2>2. ASSUME SawEnd(t), store' = [store EXCEPT ![t] = Nil] PROVE \A u \in Tabs: PageMoves(u)
    BY <1>1, <2>2, MovesAlone DEF SawEnd
  <2>3. ASSUME PageLoad(t) PROVE \A u \in Tabs: PageMoves(u)
    BY <1>1, <2>3, MovesAlone DEF PageLoad
  <2>4. CASE RefreshAnswered(t)
    <3>1. CASE IsCurrent(t) /\ refresh[t].answer.kind = "ok"
      <4> DEFINE s == refresh[t].answer.cookie.sid
      <4>1. store' = [store EXCEPT ![t] = s] /\ UNCHANGED ended BY <2>4, <3>1 DEF RefreshAnswered, ApplyAuthBundle
      <4>2. /\ refresh[t].answer.cookie = NextSecret(refresh[t].sent) /\ refresh[t].sent # Nil
            /\ refresh[t].expect \in {Nil, refresh[t].sent.sid} /\ refresh[t].expect = store[t]
        BY <2>4, <3>1 DEF AuthInv, AnswerInv, InFlight, IsCurrent, RefreshAnswered
      <4>3. refresh[t].sent \in Cookies BY <1>1, <4>2 DEF TabTypes, RefreshRow, CookieOrNil
      <4>4. s = refresh[t].sent.sid BY <4>2, <4>3, SecretType
      <4>5. s = store[t] \/ store[t] = Nil BY <4>2, <4>4
      <4> HIDE DEF s
      <4> QED BY <1>1, <2>0, <4>1, <4>5, MovesAlone
    <3>2. CASE ~(IsCurrent(t) /\ refresh[t].answer.kind = "ok")
      <4>1. \/ UNCHANGED <<store, ended>>
            \/ UNCHANGED ended /\ store' = [store EXCEPT ![t] = Nil]
            \/ SawEnd(t) /\ store' = [store EXCEPT ![t] = Nil]
        BY <2>4, <3>2 DEF RefreshAnswered, ClearAuthentication
      <4> QED BY <1>2, <2>1, <2>2, <4>1
    <3> QED BY <3>1, <3>2
  <2>5. CASE RetryUnauthorized(t) BY <2>1, <2>5 DEF RetryUnauthorized, ClearAuthentication
  <2>6. CASE RedirectToSignIn(t) BY <1>2, <2>3, <2>6 DEF RedirectToSignIn
  <2>7. CASE Leave(t) BY <2>3, <2>7 DEF Leave
  <2>8. CASE SessionEvent(t) BY <1>2, <2>2, <2>3, <2>8 DEF SessionEvent, tabVars
  <2>9. CASE LoginAnswered(t)
    BY <1>1, <2>0, <2>9, MovesAlone DEF LoginAnswered, ApplyAuthBundle
  <2>10. CASE RotationAnswered(t)
    <3>1. \/ UNCHANGED ended /\ store' = [store EXCEPT ![t] = store[t]]
          \/ SawEnd(t) /\ store' = [store EXCEPT ![t] = Nil]
          \/ UNCHANGED <<store, ended>>
      BY <2>10 DEF RotationAnswered, ApplyAuthBundle, ClearAuthentication
    <3>2. [store EXCEPT ![t] = store[t]] = store BY <1>1 DEF TabTypes
    <3> QED BY <1>2, <2>2, <3>1, <3>2
  <2>11. CASE LogoutAnswered(t)
    BY <1>2, <2>2, <2>11 DEF LogoutAnswered, ClearAuthentication
  <2>12. CASE \/ RefreshAuth(t) \/ RecoverUserSessionRefresh(t) \/ RefreshRejected(t) \/ RefreshNotIssued(t)
              \/ SessionLookupFails(t) \/ LockGranted(t) \/ RaceDelayOver(t) \/ Deadline(t)
    BY <1>2, <2>12 DEF RefreshAuth, RecoverUserSessionRefresh, RefreshRejected, RefreshNotIssued, SessionLookupFails,
                       LockGranted, RaceDelayOver, Deadline, tabVars
  <2>13. CASE \/ BootstrapAuthentication(t) \/ GetFreshAuthHeaders(t) \/ Unauthorized(t) \/ RetrySucceeds(t)
              \/ EventTooOld(t) \/ Login(t) \/ SecurityChange(t) \/ AdvanceCurrentSession(t) \/ Logout(t)
              \/ AuthLogout(t)
    BY <1>2, <2>13 DEF BootstrapAuthentication, GetFreshAuthHeaders, Unauthorized, RetrySucceeds, EventTooOld, Login,
                       SecurityChange, AdvanceCurrentSession, Logout, AuthLogout, tabVars
  <2> QED BY <1>3, <2>4, <2>5, <2>6, <2>7, <2>8, <2>9, <2>10, <2>11, <2>12, <2>13 DEF TabStep
<1>4. ASSUME NEW s \in Sids, GraceEnds(s) \/ RevokedElsewhere(s) PROVE \A u \in Tabs: PageMoves(u)
  BY <1>2, <1>4 DEF GraceEnds, RevokedElsewhere, tabVars
<1>5. ASSUME NEW o \in orphans, RefreshAuthUnheard(o) PROVE \A u \in Tabs: PageMoves(u)
  BY <1>2, <1>5 DEF RefreshAuthUnheard, tabVars
<1>6. CASE UNCHANGED vars BY <1>2, <1>6 DEF vars
<1> QED BY <1>3, <1>4, <1>5, <1>6 DEF Next

-----------------------------------------------------------------------------
(* The theorems.                                                            *)

LEMMA AuthInvariant == Spec => []AuthInv
<1>1. Init => AuthInv BY AuthInit
<1>2. AuthInv /\ [Next]_vars => AuthInv' BY AuthStep
<1> QED BY <1>1, <1>2, PTL DEF Spec

(* However many tabs, logins and faults there are, the state of the tabs,   *)
(* of the cookie and of the user_sessions rows keeps its type.              *)
THEOREM AuthTypes == Spec => []TypeOK
<1>1. AuthInv => TypeOK BY DEF AuthInv
<1> QED BY <1>1, AuthInvariant, PTL

(* A page whose bootstrapState is "checking" has a refresh of the current   *)
(* epoch under way: neither a joined refresh, a sign-out during the start   *)
(* nor the catch of performRefreshWithBrowserLock leaves it checking.       *)
THEOREM CheckingHasARefresh == Spec => []CheckingIsUnderWay
<1>1. AuthInv => CheckingIsUnderWay BY DEF AuthInv, EpochInv, CheckingIsUnderWay
<1> QED BY <1>1, AuthInvariant, PTL

(* With navigator.locks, RotateUserSessionRefresh takes a replay for theft  *)
(* only for a session of which an answer was lost, however the tabs, their  *)
(* reloads and their logins interleave.                                     *)
THEOREM LockPreventsReuse == Spec => []ReuseNeedsALostAnswer
<1>1. AuthInv => ReuseNeedsALostAnswer
  BY SecretWords DEF AuthInv, LockInv, ReuseNeedsALostAnswer
<1> QED BY <1>1, AuthInvariant, PTL

(* A page that dropped a revoked session does not show it again, whatever   *)
(* answer, event or login arrives later.                                    *)
THEOREM SignOutIsFinal == Spec => SignedOutStaysOut
<1>1. AuthInv /\ AuthInv' /\ [Next]_vars => [\A t \in Tabs: \A s \in ended[t]: store'[t] # s]_vars
  <2> SUFFICES ASSUME AuthInv, AuthInv', [Next]_vars, NEW t \in Tabs, NEW s \in ended[t] PROVE store'[t] # s
    OBVIOUS
  <2>1. s \in Sids /\ Nil # s BY SeenEndSays, NilIsNothing
  <2>2. PageMoves(t) BY PageSteps
  <2>3. CASE s \in ended'[t] BY <2>3 DEF AuthInv, EndInv
  <2>4. CASE store'[t] = Nil BY <2>1, <2>4
  <2> QED BY <2>2, <2>3, <2>4 DEF PageMoves
<1> QED BY <1>1, AuthInvariant, PTL DEF Spec, SignedOutStaysOut

(* A refresh never replaces the session a page shows by another one: only a *)
(* login of that page does.                                                 *)
THEOREM SwitchNeedsALogin == Spec => NoSilentSwitch
<1>1. AuthInv /\ [Next]_vars =>
        [\A t \in Tabs: store[t] # Nil /\ store'[t] \notin {store[t], Nil} => pending[t].kind = "login"]_vars
  BY PageSteps DEF PageMoves
<1> QED BY <1>1, AuthInvariant, PTL DEF Spec, NoSilentSwitch
=============================================================================
