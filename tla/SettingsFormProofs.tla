------------------------- MODULE SettingsFormProofs -------------------------
(***************************************************************************)
(* The settings form never saves two changes at a time, sends only what was *)
(* typed and keeps a baseline that is accounted for, for any options,       *)
(* values and order of answers.                                             *)
(***************************************************************************)
EXTENDS SettingsForm, TLAPS

(* What the client has of the options, the server has had.                  *)
OptionsWereSaved ==
  \A k \in Keys:
    /\ server[k] \in held[k]
    /\ cache # Nil => cache[k] \in held[k]
    /\ get.state = "read" => get.options[k] \in held[k]

(* What a submit of this form has not to send any more is accounted for.    *)
DataWasSaved ==
  \A s \in subs, k \in Keys:
    s.mount = mount /\ k \notin s.todo /\ (k = s.key => s.put = "done") => Accounted(k, s.data[k])

ChangedWasTyped == \A k \in Changed: <<k, values[k]>> \in typed

SubmitsAreOlder == \A s \in subs: s.mount <= mount

FormInv ==
  /\ TypeOK /\ OptionsWereSaved /\ DataWasSaved /\ ChangedWasTyped /\ SubmitsAreOlder
  /\ OneSaveAtATime /\ OnlyTypedIsSent /\ BaselineIsAccountedFor

(* What the invariant says of the submits alone.                            *)
SubsInv ==
  /\ subs \subseteq Submits
  /\ DataWasSaved /\ SubmitsAreOlder /\ OneSaveAtATime /\ OnlyTypedIsSent

GetType == [state: {"none", "sent"}, options: {Nil}] \cup [state: {"read"}, options: Options]
LeftType == [type: 0..MaxTyped, submit: 0..MaxSubmits, other: 0..MaxOthers, fault: 0..MaxFaults,
             leave: 0..MaxLeaves]

(* What it says of the rest.                                                *)
PageInv ==
  /\ server \in Options /\ cache \in Options \cup {Nil}
  /\ get \in GetType
  /\ effect \in BOOLEAN /\ stale \in BOOLEAN
  /\ section \in Sections
  /\ mount \in Nat
  /\ values \in Options /\ baseline \in Options
  /\ submitting \in BOOLEAN
  /\ left \in LeftType
  /\ held \in [Keys -> SUBSET Values]
  /\ typed \subseteq Keys \X Values
  /\ OptionsWereSaved /\ ChangedWasTyped /\ BaselineIsAccountedFor

LEMMA Parts == FormInv <=> PageInv /\ SubsInv
BY DEF FormInv, PageInv, SubsInv, TypeOK, GetType, LeftType

LEMMA PartsNext == PageInv' /\ SubsInv' => FormInv'
BY DEF FormInv, PageInv, SubsInv, TypeOK, GetType, LeftType

(* The settings of a page are options, and what they show is what the       *)
(* options say or the default.                                              *)
LEMMA SettingsShown ==
  ASSUME NEW o \in Options \cup {Nil}
  PROVE  /\ Settings(o) \in Options
         /\ \A k \in Keys: \/ o # Nil /\ Settings(o)[k] = o[k]
                           \/ Settings(o)[k] = Defaults[k] /\ (o = Nil \/ o[k] \in Unreadable)
BY SettingsAssumption DEF Settings, Options

LEMMA FormInit == Init => FormInv
<1> SUFFICES ASSUME Init PROVE FormInv
  OBVIOUS
<1>0. First \in Options /\ Defaults \in Options /\ server = First /\ values = Defaults /\ baseline = Defaults
  BY SettingsAssumption DEF Init, Options
<1>1. held \in [Keys -> SUBSET Values] /\ \A k \in Keys: First[k] \in held[k]
  BY <1>0 DEF Init, Options
<1>2. left \in LeftType /\ mount \in Nat
  BY SettingsAssumption DEF Init, LeftType
<1>3. SubsInv
  BY DEF Init, SubsInv, DataWasSaved, SubmitsAreOlder, OneSaveAtATime, OnlyTypedIsSent
<1>4. effect \in BOOLEAN /\ stale \in BOOLEAN /\ submitting \in BOOLEAN /\ typed = {} /\ cache = Nil
  BY DEF Init
<1>5. section \in Sections
  BY DEF Init
<1>6. get \in GetType /\ get.state # "read"
  BY DEF Init, Sending, GetType
<1>7. OptionsWereSaved /\ ChangedWasTyped /\ BaselineIsAccountedFor
  BY <1>0, <1>1, <1>4, <1>6 DEF OptionsWereSaved, ChangedWasTyped, Changed, BaselineIsAccountedFor, Accounted
<1>8. PageInv
  BY <1>0, <1>1, <1>2, <1>4, <1>5, <1>6, <1>7 DEF PageInv
<1> QED  BY <1>3, <1>8, Parts

LEMMA SpendKeeps ==
  ASSUME PageInv, NEW what \in {"type", "submit", "other", "fault", "leave"}, Spend(what)
  PROVE  left' \in LeftType
BY SettingsAssumption DEF PageInv, Spend, LeftType

(* The values the server has had only grow.                                 *)
LEMMA StoredKeeps ==
  ASSUME PageInv, NEW k \in Keys, NEW v \in Values, Stored(k, v)
  PROVE  /\ server' \in Options /\ held' \in [Keys -> SUBSET Values]
         /\ \A j \in Keys: held[j] \subseteq held'[j] /\ server'[j] \in held'[j]
         /\ v \in held'[k]
BY DEF PageInv, Stored, Options, OptionsWereSaved

(* The submits are not concerned by a step that leaves them and their       *)
(* opening alone and only adds to the history.                              *)
LEMMA SubsUntouched ==
  ASSUME FormInv, UNCHANGED <<subs, section, mount>>, typed \subseteq typed',
         \A k \in Keys: held[k] \subseteq held'[k], cache = Nil => cache' = Nil
  PROVE  SubsInv'
<1>1. SubsInv
  BY Parts
<1>2. subs' \subseteq Submits /\ SubmitsAreOlder' /\ OneSaveAtATime'
  BY <1>1 DEF SubsInv, SubmitsAreOlder, OneSaveAtATime
<1>3. OnlyTypedIsSent'
  BY <1>1 DEF SubsInv, OnlyTypedIsSent
<1>4. DataWasSaved'
  BY <1>1 DEF SubsInv, DataWasSaved, Accounted
<1> QED  BY <1>2, <1>3, <1>4 DEF SubsInv

(* A submit is replaced by one of the same opening and data, with no more   *)
(* to send, and nothing it has to send is taken for saved.                  *)
LEMMA SubReplaced ==
  ASSUME FormInv, NEW s \in subs, NEW t \in Submits,
         subs' = (subs \ {s}) \cup {t}, UNCHANGED <<section, mount, typed, cache>>,
         \A k \in Keys: held[k] \subseteq held'[k],
         t.mount = s.mount, t.data = s.data, t.todo \cup {t.key} \subseteq s.todo \cup {s.key},
         \A k \in Keys: s.mount = mount /\ k \notin t.todo /\ (k = t.key => t.put = "done") => Accounted(k, s.data[k])'
  PROVE  SubsInv'
<1>1. SubsInv
  BY Parts
<1>2. subs' \subseteq Submits
  BY <1>1 DEF SubsInv
<1>3. SubmitsAreOlder'
  BY <1>1 DEF SubsInv, SubmitsAreOlder
<1>4. OneSaveAtATime'
  BY <1>1 DEF SubsInv, OneSaveAtATime
<1>5. OnlyTypedIsSent'
  BY <1>1 DEF SubsInv, OnlyTypedIsSent
<1>6. DataWasSaved'
  BY <1>1 DEF SubsInv, DataWasSaved, Accounted
<1> QED  BY <1>2, <1>3, <1>4, <1>5, <1>6 DEF SubsInv

LEMMA SubRemoved ==
  ASSUME FormInv, NEW s \in subs, subs' = subs \ {s}, UNCHANGED <<section, mount, typed, held, cache>>
  PROVE  SubsInv'
<1>1. SubsInv
  BY Parts
<1>2. subs' \subseteq Submits /\ SubmitsAreOlder' /\ OneSaveAtATime'
  BY <1>1 DEF SubsInv, SubmitsAreOlder, OneSaveAtATime
<1>3. OnlyTypedIsSent'
  BY <1>1 DEF SubsInv, OnlyTypedIsSent
<1>4. DataWasSaved'
  BY <1>1 DEF SubsInv, DataWasSaved, Accounted
<1> QED  BY <1>2, <1>3, <1>4 DEF SubsInv

(* The page after a step that leaves the form alone.                        *)
LEMMA PageKept ==
  ASSUME PageInv, UNCHANGED <<mount, values, baseline, typed, section>>,
         server' \in Options, cache' \in Options \cup {Nil}, cache = Nil => cache' = Nil,
         get' \in GetType,
         effect' \in BOOLEAN, stale' \in BOOLEAN, submitting' \in BOOLEAN,
         left' \in LeftType,
         held' \in [Keys -> SUBSET Values],
         \A k \in Keys: held[k] \subseteq held'[k],
         OptionsWereSaved'
  PROVE  PageInv'
<1>1. ChangedWasTyped'
  BY DEF PageInv, ChangedWasTyped, Changed
<1>2. BaselineIsAccountedFor'
  BY DEF PageInv, BaselineIsAccountedFor, Accounted
<1> QED  BY <1>1, <1>2 DEF PageInv

(* The page after a step that starts the form over from values that are     *)
(* accounted for.                                                           *)
LEMMA FormReset ==
  ASSUME PageInv, NEW o \in Options, ResetTo(o), \A k \in Keys: Accounted(k, o[k]),
         UNCHANGED <<server, cache, section, held, mount, typed>>,
         get' \in GetType, left' \in LeftType,
         effect' \in BOOLEAN, stale' \in BOOLEAN, OptionsWereSaved'
  PROVE  PageInv'
<1>1. values' = o /\ baseline' = o /\ submitting' = FALSE
  BY DEF ResetTo
<1>2. ChangedWasTyped' /\ BaselineIsAccountedFor'
  BY <1>1 DEF ChangedWasTyped, Changed, BaselineIsAccountedFor, Accounted
<1> QED  BY <1>1, <1>2 DEF PageInv

(* A new form: its values are accounted for by the options it was opened    *)
(* with, and the submits of the earlier ones are not its own.               *)
LEMMA OpenedKeeps ==
  ASSUME FormInv, NEW o \in Options \cup {Nil}, Opened(o), cache' = o,
         o # Nil => \A k \in Keys: o[k] \in held[k],
         UNCHANGED <<server, section, subs, held>>,
         get' \in GetType, left' \in LeftType, stale' \in BOOLEAN, OptionsWereSaved'
  PROVE  FormInv'
<1>0. PageInv /\ SubsInv
  BY Parts
<1>1. mount' = mount + 1 /\ typed' = {} /\ effect' = FALSE /\ submitting' = FALSE
      /\ values' = Settings(o) /\ baseline' = Settings(o)
  BY DEF Opened, ResetTo
<1>2. ChangedWasTyped'
  BY <1>1 DEF ChangedWasTyped, Changed
<1>3. BaselineIsAccountedFor'
  <2> SUFFICES ASSUME NEW k \in Keys
               PROVE  \/ Settings(o)[k] \in held[k]
                      \/ Settings(o)[k] = Defaults[k] /\ (o = Nil \/ held[k] \cap Unreadable # {})
    BY <1>1 DEF BaselineIsAccountedFor, Accounted
  <2> QED  BY SettingsShown
<1>4. PageInv'
  <2>1. values' \in Options /\ baseline' \in Options /\ mount' \in Nat
    BY <1>0, <1>1, SettingsShown DEF PageInv
  <2>2. typed' \subseteq Keys \X Values /\ effect' \in BOOLEAN /\ submitting' \in BOOLEAN
    BY <1>1
  <2>3. server' \in Options /\ cache' \in Options \cup {Nil} /\ section' \in Sections
        /\ held' \in [Keys -> SUBSET Values]
    BY <1>0 DEF PageInv
  <2> QED  BY <1>2, <1>3, <2>1, <2>2, <2>3 DEF PageInv
<1>5. \A s \in subs: s.mount \in Nat /\ s.mount <= mount
  BY <1>0 DEF SubsInv, Submits, SubmitsAreOlder
<1>6. mount \in Nat
  BY <1>0 DEF PageInv
<1>7. SubmitsAreOlder' /\ OnlyTypedIsSent' /\ DataWasSaved'
  BY <1>1, <1>5, <1>6 DEF SubmitsAreOlder, OnlyTypedIsSent, DataWasSaved
<1>8. OneSaveAtATime' /\ subs' \subseteq Submits
  BY <1>0 DEF SubsInv, OneSaveAtATime
<1>9. SubsInv'
  BY <1>7, <1>8 DEF SubsInv
<1> QED  BY <1>4, <1>9, PartsNext

LEMMA FetchKeeps ==
  ASSUME PageInv, Fetch, UNCHANGED <<server, cache, held>>
  PROVE  /\ get' \in GetType
         /\ OptionsWereSaved'
<1>1. CASE get = NoGet
  <2>1. get' = [state |-> "sent", options |-> Nil]
    BY <1>1 DEF Fetch, Sending
  <2> QED  BY <2>1 DEF PageInv, OptionsWereSaved, GetType
<1>2. CASE get # NoGet
  BY <1>2 DEF Fetch, PageInv, OptionsWereSaved
<1> QED  BY <1>1, <1>2

-----------------------------------------------------------------------------
(* The steps.                                                               *)

LEMMA QueryStep ==
  ASSUME FormInv, GetRead \/ Reconnect \/ StaleTimePasses
  PROVE  FormInv'
<1>0. PageInv
  BY Parts
<1>1. UNCHANGED <<server, cache, effect, section, subs, left, held, mount, values, baseline, submitting, typed>>
  BY DEF GetRead, Reconnect, StaleTimePasses, formVars
<1>2. SubsInv'
  BY <1>1, SubsUntouched
<1>3. get' \in GetType /\ stale' \in BOOLEAN /\ OptionsWereSaved'
  <2>1. CASE GetRead
    BY <1>0, <1>1, <2>1 DEF GetRead, PageInv, OptionsWereSaved, GetType
  <2>2. CASE Reconnect
    BY <1>0, <1>1, <2>2, FetchKeeps DEF Reconnect, PageInv
  <2>3. CASE StaleTimePasses
    BY <1>0, <1>1, <2>3 DEF StaleTimePasses, PageInv, OptionsWereSaved
  <2> QED  BY <2>1, <2>2, <2>3
<1> QED  BY <1>0, <1>1, <1>2, <1>3, PageKept, PartsNext DEF PageInv

LEMMA GetAnsweredStep ==
  ASSUME FormInv, GetAnswered
  PROVE  FormInv'
<1>0. PageInv
  BY Parts
<1>1. /\ get.state = "read" /\ cache' = get.options /\ get' = NoGet /\ stale' = FALSE
      /\ UNCHANGED <<server, section, subs, left, held>>
  BY DEF GetAnswered
<1>2. get.options \in Options /\ get.options # Nil /\ \A k \in Keys: get.options[k] \in held[k]
  BY <1>0, <1>1, SettingsAssumption DEF PageInv, GetType, OptionsWereSaved, Options
<1>3. get' \in GetType /\ OptionsWereSaved'
  BY <1>0, <1>1, <1>2 DEF PageInv, OptionsWereSaved, NoGet, GetType
<1>4. CASE cache = Nil /\ Opened(get.options)
  BY <1>0, <1>1, <1>2, <1>3, <1>4, OpenedKeeps DEF PageInv
<1>5. CASE cache # Nil /\ effect' \in BOOLEAN /\ UNCHANGED formVars
  <2>1. UNCHANGED <<mount, values, baseline, submitting, typed>>
    BY <1>5 DEF formVars
  <2>2. SubsInv'
    BY <1>1, <1>5, <2>1, SubsUntouched
  <2> QED  BY <1>0, <1>1, <1>2, <1>3, <1>5, <2>1, <2>2, PageKept, PartsNext DEF PageInv
<1> QED  BY <1>0, <1>2, <1>4, <1>5 DEF GetAnswered, PageInv

LEMMA GetFailsStep ==
  ASSUME FormInv, GetFails
  PROVE  FormInv'
<1>0. PageInv
  BY Parts
<1>1. get' = NoGet /\ Spend("fault") /\ UNCHANGED <<server, cache, section, stale, subs, held>>
  BY DEF GetFails
<1>2. get' \in GetType /\ OptionsWereSaved' /\ left' \in LeftType
  BY <1>0, <1>1, SpendKeeps DEF PageInv, OptionsWereSaved, NoGet, GetType
<1>3. CASE cache = Nil
  <2>1. Opened(Nil)
    BY <1>3 DEF GetFails
  <2> QED  BY <1>0, <1>1, <1>2, <1>3, <2>1, OpenedKeeps DEF PageInv
<1>4. CASE cache # Nil
  <2>1. UNCHANGED <<effect, mount, values, baseline, submitting, typed>>
    BY <1>4 DEF GetFails, formVars
  <2>2. SubsInv'
    BY <1>1, <2>1, SubsUntouched
  <2> QED  BY <1>0, <1>1, <1>2, <2>1, <2>2, PageKept, PartsNext DEF PageInv
<1> QED  BY <1>3, <1>4

LEMMA OtherUpdateStep ==
  ASSUME FormInv, NEW k \in Keys, NEW v \in Values, OtherUpdate(k, v)
  PROVE  FormInv'
<1>0. PageInv
  BY Parts
<1>1. Stored(k, v) /\ Spend("other")
      /\ UNCHANGED <<cache, get, effect, section, stale, subs, mount, values, baseline, submitting, typed>>
  BY DEF OtherUpdate, formVars
<1>2. /\ server' \in Options /\ held' \in [Keys -> SUBSET Values]
      /\ \A j \in Keys: held[j] \subseteq held'[j] /\ server'[j] \in held'[j]
  BY <1>0, <1>1, StoredKeeps
<1>3. OptionsWereSaved'
  BY <1>0, <1>1, <1>2 DEF PageInv, OptionsWereSaved
<1>4. SubsInv'
  BY <1>1, <1>2, SubsUntouched
<1> QED  BY <1>0, <1>1, <1>2, <1>3, <1>4, SpendKeeps, PageKept, PartsNext DEF PageInv

LEMMA TypeValueStep ==
  ASSUME FormInv, NEW k \in Keys, NEW v \in Values, TypeValue(k, v)
  PROVE  FormInv'
<1>0. PageInv
  BY Parts
<1>1. /\ values' = [values EXCEPT ![k] = v] /\ typed' = typed \cup {<<k, v>>} /\ Spend("type")
      /\ UNCHANGED <<server, cache, get, effect, section, stale, subs, held, mount, baseline, submitting>>
  BY DEF TypeValue
<1>2. values' \in Options /\ typed' \subseteq Keys \X Values
  BY <1>0, <1>1 DEF PageInv, Options
<1>3. ChangedWasTyped'
  BY <1>0, <1>1 DEF PageInv, Options, ChangedWasTyped, Changed
<1>4. OptionsWereSaved' /\ BaselineIsAccountedFor'
  BY <1>0, <1>1 DEF PageInv, OptionsWereSaved, BaselineIsAccountedFor, Accounted
<1>5. left' \in LeftType
  BY <1>0, <1>1, SpendKeeps
<1>6. PageInv'
  BY <1>0, <1>1, <1>2, <1>3, <1>4, <1>5 DEF PageInv
<1>7. SubsInv'
  BY <1>1, SubsUntouched
<1> QED  BY <1>6, <1>7, PartsNext

LEMMA ResetStep ==
  ASSUME FormInv, RunEffect \/ HandleReset
  PROVE  FormInv'
<1>0. PageInv
  BY Parts
<1>1. UNCHANGED <<server, cache, get, section, stale, subs, left, held, mount, typed>> /\ effect' \in BOOLEAN
  BY <1>0 DEF RunEffect, HandleReset, PageInv
<1>2. SubsInv'
  BY <1>1, SubsUntouched
<1>3. OptionsWereSaved'
  BY <1>0, <1>1 DEF PageInv, OptionsWereSaved
<1>4. CASE ResetTo(Settings(cache)) \/ ResetTo(baseline)
  <2>1. PICK o \in {Settings(cache), baseline}: ResetTo(o)
    BY <1>4
  <2>2. Settings(cache) \in Options /\ \A k \in Keys: Accounted(k, Settings(cache)[k])
    BY <1>0, SettingsShown DEF PageInv, OptionsWereSaved, Accounted
  <2>3. o \in Options /\ \A k \in Keys: Accounted(k, o[k])
    BY <1>0, <2>1, <2>2 DEF PageInv, BaselineIsAccountedFor
  <2> QED  BY <1>0, <1>1, <1>2, <1>3, <2>1, <2>3, FormReset, PartsNext DEF PageInv
<1>5. CASE UNCHANGED <<values, baseline, submitting>>
  BY <1>0, <1>1, <1>2, <1>3, <1>5, PageKept, PartsNext DEF PageInv
<1> QED  BY <1>4, <1>5 DEF RunEffect, HandleReset

(* What a submit does not send is what it was, or no value.                 *)
LEMMA NotSentIsAccountedFor ==
  ASSUME PageInv, NEW k \in Keys, k \notin ToSend
  PROVE  Accounted(k, values[k])
<1>1. CASE k \notin Changed
  BY <1>1 DEF PageInv, BaselineIsAccountedFor, Changed
<1>2. CASE k \in Changed
  BY <1>2 DEF ToSend, Accounted
<1> QED  BY <1>1, <1>2

LEMMA SubmitStep ==
  ASSUME FormInv, Submit
  PROVE  FormInv'
<1>0. PageInv /\ SubsInv
  BY Parts
<1>1. ~IsPending /\ Spend("submit")
      /\ UNCHANGED <<server, cache, get, effect, section, stale, held, mount, typed>>
  BY DEF Submit, IsSaving
<1>2. OptionsWereSaved' /\ left' \in LeftType
  BY <1>0, <1>1, SpendKeeps DEF PageInv, OptionsWereSaved
<1>3. ASSUME NEW k \in ToSend,
             subs' = subs \cup {[id |-> left.submit, mount |-> mount, data |-> values, todo |-> ToSend \ {k}, key |-> k,
                                 put |-> "sent"]},
             submitting' = TRUE, UNCHANGED <<values, baseline>>
      PROVE  FormInv'
  <2> DEFINE new == [id |-> left.submit, mount |-> mount, data |-> values, todo |-> ToSend \ {k}, key |-> k,
                     put |-> "sent"]
  <2>1. left.submit \in 1..MaxSubmits
    BY <1>0, <1>1, SettingsAssumption DEF PageInv, Spend, LeftType
  <2>2. new \in Submits
    BY <1>0, <2>1 DEF PageInv, Submits, ToSend, Changed
  <2>3. SubmitsAreOlder'
    BY <1>0, <1>1, <1>3 DEF PageInv, SubsInv, SubmitsAreOlder
  <2>4. OneSaveAtATime'
    <3> SUFFICES ASSUME NEW s \in subs', NEW u \in subs', s.mount = u.mount
                 PROVE  s = u
      BY DEF OneSaveAtATime
    <3>1. \A x \in subs: x.mount # new.mount
      BY <1>1 DEF IsPending
    <3>2. CASE s \in subs /\ u \in subs
      BY <1>0, <3>2 DEF SubsInv, OneSaveAtATime
    <3> QED  BY <1>3, <3>1, <3>2
  <2>5. \A s \in subs': s.mount = mount' => s = new
    BY <1>1, <1>3 DEF IsPending
  <2>6. OnlyTypedIsSent'
    <3> SUFFICES ASSUME NEW s \in subs', s.mount = mount', NEW j \in s.todo \cup {s.key}
                 PROVE  <<j, s.data[j]>> \in typed'
      BY DEF OnlyTypedIsSent
    <3>1. j \in Changed /\ s.data = values
      BY <2>5 DEF ToSend
    <3> QED  BY <1>0, <1>1, <3>1 DEF PageInv, ChangedWasTyped
  <2>7. DataWasSaved'
    <3> SUFFICES ASSUME NEW s \in subs', NEW j \in Keys, s.mount = mount',
                        j \notin s.todo, j = s.key => s.put = "done"
                 PROVE  Accounted(j, s.data[j])'
      BY DEF DataWasSaved
    <3>1. j \notin ToSend /\ s.data = values
      BY <2>5
    <3>2. Accounted(j, values[j])
      BY <1>0, <3>1, NotSentIsAccountedFor
    <3> QED  BY <1>1, <3>1, <3>2 DEF Accounted
  <2>8. SubsInv'
    BY <1>0, <1>3, <2>2, <2>3, <2>4, <2>6, <2>7 DEF SubsInv
  <2> QED  BY <1>0, <1>1, <1>2, <1>3, <2>8, PageKept, PartsNext DEF PageInv
<1>4. CASE ToSend = {} /\ ResetTo(values) /\ UNCHANGED subs
  <2>1. SubsInv'
    BY <1>1, <1>4, SubsUntouched
  <2>2. \A k \in Keys: Accounted(k, values[k])
    BY <1>0, <1>4, NotSentIsAccountedFor
  <2> QED  BY <1>0, <1>1, <1>2, <1>4, <2>1, <2>2, FormReset, PartsNext DEF PageInv
<1> QED  BY <1>3, <1>4 DEF Submit

(* What a submit sends is an option value.                                  *)
LEMMA SentType ==
  ASSUME FormInv, NEW s \in subs
  PROVE  s \in Submits /\ s.key \in Keys /\ s.data \in Options /\ Sent(s) \in Values
BY SettingsAssumption DEF FormInv, TypeOK, Submits, Options, Sent

LEMMA PutAppliedStep ==
  ASSUME FormInv, NEW s \in subs, PutApplied(s)
  PROVE  FormInv'
<1>0. PageInv /\ SubsInv
  BY Parts
<1> DEFINE t == [s EXCEPT !.put = "done"]
<1>1. /\ s.put = "sent" /\ Stored(s.key, Sent(s)) /\ subs' = (subs \ {s}) \cup {t}
      /\ UNCHANGED <<cache, get, effect, section, stale, left, mount, values, baseline, submitting, typed>>
  BY DEF PutApplied, Putting, formVars
<1>2. t \in Submits /\ t.mount = s.mount /\ t.data = s.data /\ t.todo = s.todo /\ t.key = s.key
  BY SentType DEF Submits
<1>3. /\ server' \in Options /\ held' \in [Keys -> SUBSET Values]
      /\ \A j \in Keys: held[j] \subseteq held'[j] /\ server'[j] \in held'[j]
      /\ Sent(s) \in held'[s.key]
  BY <1>0, <1>1, SentType, StoredKeeps
<1>4. ASSUME NEW j \in Keys, s.mount = mount, j \notin t.todo
      PROVE  Accounted(j, s.data[j])'
  <2>1. CASE j = s.key
    BY <1>1, <1>3, <2>1 DEF Sent, Accounted
  <2>2. CASE j # s.key
    <3>1. Accounted(j, s.data[j])
      BY <1>0, <1>2, <1>4, <2>2 DEF SubsInv, DataWasSaved
    <3> QED  BY <1>1, <1>3, <3>1 DEF Accounted
  <2> QED  BY <2>1, <2>2
<1>5. SubsInv'
  <2> HIDE DEF t
  <2> QED  BY <1>1, <1>2, <1>3, <1>4, SubReplaced
<1>6. OptionsWereSaved'
  BY <1>0, <1>1, <1>3 DEF PageInv, OptionsWereSaved
<1> QED  BY <1>0, <1>1, <1>3, <1>5, <1>6, PageKept, PartsNext DEF PageInv

LEMMA PutFailsStep ==
  ASSUME FormInv, NEW s \in subs, PutFails(s)
  PROVE  FormInv'
<1>0. PageInv /\ SubsInv
  BY Parts
<1> DEFINE t == [s EXCEPT !.put = "refused"]
<1>1. /\ s.put = "sent" /\ Spend("fault") /\ subs' = (subs \ {s}) \cup {t}
      /\ UNCHANGED <<cache, get, effect, section, stale, mount, values, baseline, submitting, typed>>
  BY DEF PutFails, Putting, formVars
<1>2. t \in Submits /\ t.mount = s.mount /\ t.data = s.data /\ t.todo = s.todo /\ t.key = s.key /\ t.put = "refused"
  BY SentType DEF Submits
<1>3. /\ server' \in Options /\ held' \in [Keys -> SUBSET Values]
      /\ \A j \in Keys: held[j] \subseteq held'[j] /\ server'[j] \in held'[j]
  <2>1. CASE UNCHANGED <<server, held>>
    BY <1>0, <2>1 DEF PageInv, OptionsWereSaved
  <2>2. CASE Stored(s.key, Sent(s))
    BY <1>0, <2>2, SentType, StoredKeeps
  <2> QED  BY <2>1, <2>2 DEF PutFails
<1>4. ASSUME NEW j \in Keys, s.mount = mount, j \notin t.todo, j = t.key => t.put = "done"
      PROVE  Accounted(j, s.data[j])'
  <2>1. Accounted(j, s.data[j])
    BY <1>0, <1>2, <1>4 DEF SubsInv, DataWasSaved
  <2> QED  BY <1>1, <1>3, <2>1 DEF Accounted
<1>5. SubsInv'
  <2> HIDE DEF t
  <2> QED  BY <1>1, <1>2, <1>3, <1>4, SubReplaced
<1>6. OptionsWereSaved'
  BY <1>0, <1>1, <1>3 DEF PageInv, OptionsWereSaved
<1> QED  BY <1>0, <1>1, <1>3, <1>5, <1>6, SpendKeeps, PageKept, PartsNext DEF PageInv

LEMMA PutAnsweredStep ==
  ASSUME FormInv, NEW s \in subs, PutAnswered(s)
  PROVE  FormInv'
<1>0. PageInv /\ SubsInv
  BY Parts
<1>1. s.put = "done" /\ stale' = TRUE /\ Fetch /\ UNCHANGED <<server, cache, section, left, held, mount, typed>>
  BY DEF PutAnswered
<1>2. /\ get' \in GetType
      /\ OptionsWereSaved'
  BY <1>0, <1>1, FetchKeeps
<1>3. CASE s.todo = {}
  <2>1. subs' = subs \ {s} /\ Ended(s, TRUE)
    BY <1>3 DEF PutAnswered
  <2>2. SubsInv'
    BY <1>1, <2>1, SubRemoved
  <2>3. CASE s.mount = mount
    <3>1. ResetTo(s.data) /\ effect' \in BOOLEAN
      BY <1>0, <2>1, <2>3 DEF Ended, PageInv
    <3>2. s.data \in Options
      BY SentType
    <3>3. \A k \in Keys: Accounted(k, s.data[k])
      BY <1>0, <1>1, <1>3, <2>3 DEF SubsInv, DataWasSaved
    <3> QED  BY <1>0, <1>1, <1>2, <2>2, <3>1, <3>2, <3>3, FormReset, PartsNext DEF PageInv
  <2>4. CASE s.mount # mount
    <3>1. UNCHANGED <<values, baseline, submitting, effect>>
      BY <2>1, <2>4 DEF Ended
    <3> QED  BY <1>0, <1>1, <1>2, <2>2, <3>1, PageKept, PartsNext DEF PageInv
  <2> QED  BY <2>3, <2>4
<1>4. CASE s.todo # {}
  <2>1. PICK k \in s.todo: subs' = (subs \ {s}) \cup {[s EXCEPT !.todo = @ \ {k}, !.key = k, !.put = "sent"]}
    BY <1>4 DEF PutAnswered
  <2>2. UNCHANGED <<values, baseline, submitting, effect>>
    BY <1>4 DEF PutAnswered
  <2> DEFINE t == [s EXCEPT !.todo = @ \ {k}, !.key = k, !.put = "sent"]
  <2>3. t \in Submits /\ t.mount = s.mount /\ t.data = s.data /\ t.todo = s.todo \ {k} /\ t.key = k /\ t.put = "sent"
    BY SentType DEF Submits
  <2>4. ASSUME NEW j \in Keys, s.mount = mount, j \notin t.todo, j = t.key => t.put = "done"
        PROVE  Accounted(j, s.data[j])'
    <3>1. Accounted(j, s.data[j])
      BY <1>0, <1>1, <2>3, <2>4 DEF SubsInv, DataWasSaved
    <3> QED  BY <1>1, <3>1 DEF Accounted
  <2>5. subs' = (subs \ {s}) \cup {t} /\ t.todo \cup {t.key} \subseteq s.todo \cup {s.key}
    BY <2>1, <2>3
  <2>6. SubsInv'
    <3> HIDE DEF t
    <3> QED  BY <1>1, <2>3, <2>4, <2>5, SubReplaced
  <2> QED  BY <1>0, <1>1, <1>2, <2>2, <2>6, PageKept, PartsNext DEF PageInv
<1> QED  BY <1>3, <1>4

LEMMA PutRefusedStep ==
  ASSUME FormInv, NEW s \in subs, PutRefused(s)
  PROVE  FormInv'
<1>0. PageInv
  BY Parts
<1>1. subs' = subs \ {s} /\ UNCHANGED <<server, cache, get, effect, section, stale, left, held, mount, typed>>
      /\ UNCHANGED <<values, baseline>>
  BY DEF PutRefused, Ended
<1>2. submitting' \in BOOLEAN
  BY <1>0 DEF PutRefused, Ended, PageInv
<1>3. SubsInv'
  BY <1>1, SubRemoved
<1>4. OptionsWereSaved'
  BY <1>0, <1>1 DEF PageInv, OptionsWereSaved
<1> QED  BY <1>0, <1>1, <1>2, <1>3, <1>4, PageKept, PartsNext DEF PageInv

LEMMA LeaveStep ==
  ASSUME FormInv, Leave
  PROVE  FormInv'
<1>0. PageInv
  BY Parts
<1>1. Spend("leave") /\ Opened(cache) /\ UNCHANGED <<server, cache, section, stale, subs, held>>
  BY DEF Leave
<1>2. get' \in GetType /\ OptionsWereSaved'
  <2>1. CASE Fetch
    BY <1>0, <1>1, <2>1, FetchKeeps
  <2>2. CASE UNCHANGED get
    BY <1>0, <1>1, <2>2 DEF PageInv, OptionsWereSaved
  <2> QED  BY <2>1, <2>2 DEF Leave
<1>3. cache \in Options \cup {Nil} /\ (cache # Nil => \A k \in Keys: cache[k] \in held[k])
  BY <1>0 DEF PageInv, OptionsWereSaved
<1> QED  BY <1>0, <1>1, <1>2, <1>3, SpendKeeps, OpenedKeeps DEF PageInv

-----------------------------------------------------------------------------
LEMMA FormStutter == FormInv /\ UNCHANGED vars => FormInv'
BY DEF vars, formVars, FormInv, TypeOK, OptionsWereSaved, DataWasSaved, ChangedWasTyped, Changed, SubmitsAreOlder,
       OneSaveAtATime, OnlyTypedIsSent, BaselineIsAccountedFor, Accounted

(* The inductive invariant of the settings form.                            *)
THEOREM FormInvariant == Spec => []FormInv
<1>1. FormInv /\ [Next]_vars => FormInv'
  <2> SUFFICES ASSUME FormInv, [Next]_vars PROVE FormInv'
    OBVIOUS
  <2>1. CASE GetRead \/ GetAnswered \/ GetFails \/ Reconnect \/ StaleTimePasses
    BY <2>1, QueryStep, GetAnsweredStep, GetFailsStep
  <2>2. ASSUME NEW k \in Keys, NEW v \in Values, OtherUpdate(k, v) \/ TypeValue(k, v) PROVE FormInv'
    BY <2>2, OtherUpdateStep, TypeValueStep
  <2>3. CASE RunEffect \/ HandleReset
    BY <2>3, ResetStep
  <2>4. CASE Submit
    BY <2>4, SubmitStep
  <2>5. CASE Leave
    BY <2>5, LeaveStep
  <2>6. ASSUME NEW s \in subs, PutApplied(s) \/ PutFails(s) \/ PutAnswered(s) \/ PutRefused(s) PROVE FormInv'
    BY <2>6, PutAppliedStep, PutFailsStep, PutAnsweredStep, PutRefusedStep
  <2>7. CASE UNCHANGED vars
    BY <2>7, FormStutter
  <2> QED  BY <2>1, <2>2, <2>3, <2>4, <2>5, <2>6, <2>7 DEF Next
<1> QED  BY <1>1, FormInit, PTL DEF Spec

(* The Save button, which looks at the form and at its pending requests,    *)
(* never starts a second submit of one form while the first one runs.       *)
THEOREM SavesOneByOne == Spec => []OneSaveAtATime
<1>1. FormInv => OneSaveAtATime
  BY DEF FormInv
<1> QED  BY <1>1, FormInvariant, PTL

(* The comparison with the baseline in the submit handlers: a value that    *)
(* was not typed into this form is never sent, whatever others have saved.  *)
THEOREM SendsOnlyTyped == Spec => []OnlyTypedIsSent
<1>1. FormInv => OnlyTypedIsSent
  BY DEF FormInv
<1> QED  BY <1>1, FormInvariant, PTL

(* The baseline is advanced only by values that were saved, by this form or *)
(* by others, also when a submit fails half-way, but for the defaults of a  *)
(* page that was not given an option (SettingsPage), the slashes that the   *)
(* info section removes, and the fields that the pricing section skips.     *)
THEOREM BaselineIsSaved == Spec => []BaselineIsAccountedFor
<1>1. FormInv => BaselineIsAccountedFor
  BY DEF FormInv
<1> QED  BY <1>1, FormInvariant, PTL
=============================================================================
