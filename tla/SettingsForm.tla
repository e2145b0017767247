---------------------------- MODULE SettingsForm ----------------------------
(***************************************************************************)
(* A form of the system settings (web/src/features/system-settings).  Its   *)
(* fields start from the options in the query cache; a submit sends the     *)
(* fields that were changed, one request after the other, and every request *)
(* that succeeds has the options fetched again.  Requests for the options   *)
(* that are under way are shared (lib/http-client.ts), and when the page    *)
(* renders with other options than the ones the form started from, the form *)
(* starts over.                                                             *)
(*                                                                          *)
(* While the query has no data, the page shows a form with the default      *)
(* settings of the client if the request failed or waits for a connection,  *)
(* and no form at all while it is under way.                                *)
(***************************************************************************)
EXTENDS Naturals, FiniteSets

CONSTANTS
  Keys,         \* the options of the form
  Values,
  Normalized,   \* what system-info-section makes of a value before it sends it
  Skipped,      \* undefined and null, which pricing-section does not send
  Unreadable,   \* values that GetOptions leaves out (credentials) or the client cannot parse
  Defaults,     \* defaultSettings of the page
  First,        \* the options at the start
  Sections,     \* the sections the form may be: "quota", "pricing" or "info"
  Nil,
  MaxTyped, MaxSubmits, MaxOthers, MaxFaults, MaxLeaves   \* bounds: how often each may happen

ASSUME SettingsAssumption ==
  /\ Normalized \in [Values -> Values]
  /\ Skipped \subseteq Values /\ Unreadable \subseteq Values
  /\ First \in [Keys -> Values] /\ Defaults \in [Keys -> Values]
  /\ Sections \subseteq {"quota", "pricing", "info"}
  /\ Nil \notin [Keys -> Values]
  /\ \A n \in {MaxTyped, MaxSubmits, MaxOthers, MaxFaults, MaxLeaves}: n \in Nat

VARIABLES
  server,      \* the options as the server has them
  cache,       \* the data of the query system-options, Nil before the first answer
  get,         \* the request for the options: its state, and the options it has read
  effect,      \* the page is to render with new default values, and the effect of the form to run
  section,     \* which section the form is; "info" builds new default values whenever it renders
  stale,       \* the query was never answered, was invalidated, or is older than staleTime
  mount,       \* which opening of the form is on the page
  values,      \* the fields
  baseline,    \* baselineRef, defaultValuesRef and the default values of the form, which always agree
  submitting,  \* isSubmitting
  subs,        \* running submits: opening, data, keys to send, and the key and state of the request
  left,        \* what is left of the bounds
  held,        \* history: the values the server has had for a key
  typed        \* history: what was typed into the form since it was opened

formVars == <<mount, values, baseline, submitting, typed>>
vars == <<server, cache, get, effect, section, stale, subs, left, held, formVars>>

Options == [Keys -> Values]
Submits == [id: 1..MaxSubmits, mount: Nat, data: Options, todo: SUBSET Keys, key: Keys,
            put: {"sent", "done", "refused"}]

TypeOK ==
  /\ server \in Options /\ cache \in Options \cup {Nil}
  /\ get \in [state: {"none", "sent"}, options: {Nil}] \cup [state: {"read"}, options: Options]
  /\ effect \in BOOLEAN /\ stale \in BOOLEAN
  /\ section \in Sections
  /\ mount \in Nat
  /\ values \in Options /\ baseline \in Options
  /\ submitting \in BOOLEAN
  /\ subs \subseteq Submits
  /\ left \in [type: 0..MaxTyped, submit: 0..MaxSubmits, other: 0..MaxOthers, fault: 0..MaxFaults,
               leave: 0..MaxLeaves]
  /\ held \in [Keys -> SUBSET Values]
  /\ typed \subseteq Keys \X Values

NoGet == [state |-> "none", options |-> Nil]
Sending == [state |-> "sent", options |-> Nil]

(* getOptionValue: the settings of the page.                                *)
Settings(o) == [k \in Keys |-> IF o = Nil THEN Defaults[k] ELSE IF o[k] \in Unreadable THEN Defaults[k] ELSE o[k]]

(* The page is opened and asks for the options.                             *)
Init ==
  /\ server = First
  /\ cache = Nil
  /\ get = Sending
  /\ effect = FALSE
  /\ section \in Sections
  /\ stale = TRUE
  /\ mount = 0
  /\ values = Defaults /\ baseline = Defaults
  /\ submitting = FALSE
  /\ subs = {}
  /\ left = [type |-> MaxTyped, submit |-> MaxSubmits, other |-> MaxOthers, fault |-> MaxFaults,
             leave |-> MaxLeaves]
  /\ held = [k \in Keys |-> {server[k]}]
  /\ typed = {}

Spend(what) ==
  /\ left[what] > 0
  /\ left' = [left EXCEPT ![what] = @ - 1]

Stored(k, v) ==
  /\ server' = [server EXCEPT ![k] = v]
  /\ held' = [held EXCEPT ![k] = @ \cup {v}]

ResetTo(o) ==
  /\ values' = o
  /\ baseline' = o
  /\ submitting' = FALSE

(* A new form is mounted, with default values from the options o.           *)
Opened(o) ==
  /\ mount' = mount + 1
  /\ ResetTo(Settings(o))
  /\ typed' = {}
  /\ effect' = FALSE

(* The form is on the page: the query is not loading.                       *)
Shown == cache # Nil \/ get = NoGet

-----------------------------------------------------------------------------
(* The options and their query.                                             *)

(* The answer of the server: the options of that moment.                    *)
GetRead ==
  /\ get.state = "sent"
  /\ get' = [state |-> "read", options |-> server]
  /\ UNCHANGED <<server, cache, effect, section, stale, subs, left, held, formVars>>

(* The query takes the answer and is fresh for staleTime.  The first answer *)
(* opens the form; after a later one the page renders if any option, also   *)
(* of another form, has changed.                                            *)
GetAnswered ==
  /\ get.state = "read"
  /\ cache' = get.options
  /\ get' = NoGet
  /\ stale' = FALSE
  /\ \/ cache = Nil /\ Opened(get.options)
     \/ cache # Nil /\ effect' = TRUE /\ UNCHANGED formVars
     \/ cache = get.options /\ UNCHANGED <<effect, formVars>>
  /\ UNCHANGED <<server, section, subs, left, held>>

(* The request and its retries fail, or wait for a connection; the query    *)
(* keeps its data, and without data the form is opened with the defaults.   *)
GetFails ==
  /\ get.state # "none"
  /\ Spend("fault")
  /\ get' = NoGet
  /\ IF cache = Nil THEN Opened(Nil) ELSE UNCHANGED <<effect, formVars>>
  /\ UNCHANGED <<server, cache, section, stale, subs, held>>

(* A fetch of the query: api.get joins a request that is under way.         *)
Fetch == get' = IF get = NoGet THEN Sending ELSE get

(* The connection comes back: a stale query is fetched.                     *)
Reconnect ==
  /\ stale /\ get = NoGet
  /\ Fetch
  /\ UNCHANGED <<server, cache, effect, section, stale, subs, left, held, formVars>>

(* Another administrator changes an option.                                 *)
OtherUpdate(k, v) ==
  /\ v # server[k] /\ v \notin Skipped
  /\ Spend("other")
  /\ Stored(k, v)
  /\ UNCHANGED <<cache, get, effect, section, stale, subs, formVars>>

-----------------------------------------------------------------------------
(* The form.                                                                *)

(* The user changes a field.  Only an optional field can be emptied.        *)
TypeValue(k, v) ==
  /\ Shown
  /\ v # values[k]
  /\ v \in Skipped => section = "pricing"
  /\ Spend("type")
  /\ values' = [values EXCEPT ![k] = v]
  /\ typed' = typed \cup {<<k, v>>}
  /\ UNCHANGED <<server, cache, get, effect, section, stale, subs, held, mount, baseline, submitting>>

(* The effect after a render, whose default values are built from the       *)
(* cache: the form starts over when they are not the ones it knows.         *)
RunEffect ==
  /\ Shown /\ effect
  /\ effect' = FALSE
  /\ IF Settings(cache) # baseline THEN ResetTo(Settings(cache)) ELSE UNCHANGED <<values, baseline, submitting>>
  /\ UNCHANGED <<server, cache, get, section, stale, subs, left, held, mount, typed>>

(* Mutant: everything that differs from the options in the cache is sent.   *)
ChangedFromCache == {k \in Keys: values[k] # Settings(cache)[k]}

(* The dirty fields whose value is not the one of the baseline.             *)
Changed == {k \in Keys: values[k] # baseline[k]}

IsPending == \E s \in subs: s.mount = mount

(* Mutant: the button looks at the form only.                               *)
OnlySubmitting == submitting

(* isSaving, which disables the buttons.                                    *)
IsSaving == IsPending \/ submitting

(* The loop of onSubmit skips what has no value in the pricing section.     *)
ToSend == {k \in Changed: section = "pricing" => values[k] \notin Skipped}

(* handleSubmit up to its first request, or to its end if none is sent.     *)
Submit ==
  /\ Shown /\ ~IsSaving
  /\ Changed # {}
  /\ Spend("submit")
  /\ \/ /\ \E k \in ToSend:
             subs' = subs \cup {[id |-> left.submit, mount |-> mount, data |-> values, todo |-> ToSend \ {k}, key |-> k,
                                 put |-> "sent"]}
        /\ submitting' = TRUE
        /\ UNCHANGED <<values, baseline>>
     \/ /\ ToSend = {}
        /\ ResetTo(values)
        /\ UNCHANGED subs
  /\ UNCHANGED <<server, cache, get, effect, section, stale, held, mount, typed>>

(* handleReset; the quota section has no button for it.                     *)
HandleReset ==
  /\ section # "quota"
  /\ Shown /\ ~IsSaving
  /\ Changed # {}
  /\ ResetTo(baseline)
  /\ UNCHANGED <<server, cache, get, effect, section, stale, subs, left, held, mount, typed>>

Putting(s, how) == subs' = (subs \ {s}) \cup {[s EXCEPT !.put = how]}

Sent(s) == IF section = "info" THEN Normalized[s.data[s.key]] ELSE s.data[s.key]

(* UpdateOption of the server.                                              *)
PutApplied(s) ==
  /\ s.put = "sent"
  /\ Stored(s.key, Sent(s))
  /\ Putting(s, "done")
  /\ UNCHANGED <<cache, get, effect, section, stale, left, formVars>>

(* The server refuses the value, or the request fails before it or after.   *)
PutFails(s) ==
  /\ s.put = "sent"
  /\ Spend("fault")
  /\ \/ UNCHANGED <<server, held>>
     \/ Stored(s.key, Sent(s))
  /\ Putting(s, "refused")
  /\ UNCHANGED <<cache, get, effect, section, stale, formVars>>

(* Mutant: the last lines of handleSubmit are in a finally.                 *)
EndedAnyway(s, ok) ==
  IF s.mount = mount
    THEN ResetTo(s.data) /\ effect' = (effect \/ section = "info")
    ELSE UNCHANGED <<values, baseline, submitting, effect>>

(* The end of handleSubmit, if its form is still there.  The render that    *)
(* follows the reset runs the effect where it has new default values.       *)
Ended(s, ok) ==
  \/ s.mount = mount /\ ok /\ ResetTo(s.data) /\ effect' = (effect \/ section = "info")
  \/ s.mount = mount /\ ~ok /\ submitting' = FALSE /\ UNCHANGED <<values, baseline, effect>>
  \/ s.mount # mount /\ UNCHANGED <<values, baseline, submitting, effect>>

(* A request was successful: the options are fetched again, and the loop of *)
(* onSubmit goes on.                                                        *)
PutAnswered(s) ==
  /\ s.put = "done"
  /\ stale' = TRUE
  /\ Fetch
  /\ IF s.todo = {}
       THEN /\ subs' = subs \ {s}
            /\ Ended(s, TRUE)
       ELSE /\ \E k \in s.todo:
                 subs' = (subs \ {s}) \cup {[s EXCEPT !.todo = @ \ {k}, !.key = k, !.put = "sent"]}
            /\ UNCHANGED <<values, baseline, submitting, effect>>
  /\ UNCHANGED <<server, cache, section, left, held, mount, typed>>

(* A request was not: mutateAsync throws and the loop ends.                 *)
PutRefused(s) ==
  /\ s.put = "refused"
  /\ subs' = subs \ {s}
  /\ Ended(s, FALSE)
  /\ UNCHANGED <<server, cache, get, section, stale, left, held, mount, typed>>

(* The user leaves the page (a form with changes asks first) and comes      *)
(* back: a new form, and a fetch if the query is stale.                     *)
Leave ==
  /\ Shown
  /\ Spend("leave")
  /\ Opened(cache)
  /\ IF stale THEN Fetch ELSE UNCHANGED get
  /\ UNCHANGED <<server, cache, section, stale, subs, held>>

(* staleTime passes.                                                        *)
StaleTimePasses ==
  /\ ~stale
  /\ stale' = TRUE
  /\ UNCHANGED <<server, cache, get, effect, section, subs, left, held, formVars>>

Next ==
  \/ GetRead \/ GetAnswered \/ GetFails \/ Reconnect
  \/ \E k \in Keys, v \in Values: OtherUpdate(k, v) \/ TypeValue(k, v)
  \/ RunEffect \/ Submit \/ HandleReset \/ Leave \/ StaleTimePasses
  \/ \E s \in subs: PutApplied(s) \/ PutFails(s) \/ PutAnswered(s) \/ PutRefused(s)

Spec == Init /\ [][Next]_vars

-----------------------------------------------------------------------------
(* One form saves one change at a time, although the refreshed options of   *)
(* its first request reset the form, and isSubmitting with it, while it     *)
(* sends the others.                                                        *)
OneSaveAtATime ==
  \A s, u \in subs: s.mount = u.mount => s = u

(* A submit sends only what the user has typed into this form, whatever the *)
(* options in the cache have become: it never writes an old value back over *)
(* the change of somebody else.                                             *)
OnlyTypedIsSent ==
  \A s \in subs: s.mount = mount => \A k \in s.todo \cup {s.key}: <<k, s.data[k]>> \in typed

(* A value the form may take for saved: one that the server has had; in     *)
(* the info section, one that was saved without the slashes at its end;     *)
(* the default where the page was not given the option; and, in the pricing *)
(* section, no value at all.                                                *)
Accounted(k, v) ==
  \/ v \in held[k]
  \/ section = "info" /\ Normalized[v] \in held[k]
  \/ v = Defaults[k] /\ (cache = Nil \/ held[k] \cap Unreadable # {})
  \/ section = "pricing" /\ v \in Skipped

(* What the form takes for saved was saved at some time, up to the cases of *)
(* Accounted, also after a submit that ended half-way and after the answers *)
(* of requests that others have overtaken: an input that was not saved is   *)
(* still one to save.                                                       *)
BaselineIsAccountedFor ==
  \A k \in Keys: Accounted(k, baseline[k])

(* The comment of useSettingsForm, "No automatic resets that could          *)
(* overwrite user input": a field that was changed keeps its value until    *)
(* the user types, saves, resets or leaves.  (Refuted: the options that are *)
(* fetched after the first request of a submit reset the fields that are    *)
(* still to be sent.)                                                       *)
NoAutomaticReset ==
  [][\/ \A k \in Changed: values'[k] = values[k]
     \/ \E k \in Keys, v \in Values: TypeValue(k, v)
     \/ HandleReset \/ Leave
     \/ \E s \in subs: PutAnswered(s)]_vars
=============================================================================
