----------------------------- MODULE Playground -----------------------------
(***************************************************************************)
(* The chat of the playground page (web/src/features/playground).  One      *)
(* request at a time streams chunks into the last assistant message:        *)
(* useStreamRequest owns the event source, useChatHandler buffers chunks    *)
(* and flushes them on a timer, usePlaygroundState keeps the messages in    *)
(* React state and saves them to localStorage after a pause.  A state       *)
(* update made by a timer or by the network is a function that React runs   *)
(* at the next render, or at once when nothing is queued; an update made by *)
(* a click is rendered before the next event.  A number, the generation,    *)
(* tells a live request from a stopped or superseded one.                   *)
(***************************************************************************)
EXTENDS Naturals, Sequences, FiniteSets, SequencesExt

CONSTANTS
  Users,      \* the accounts used in this browser
  Nil,        \* nobody, nothing stored
  MaxGen,     \* bound: how far requestGenerationRef may count
  MaxChunks,  \* bound: chunks of one answer
  MaxOps      \* bound: messages opened for editing or deleted, lists cleared, sign-outs

ASSUME PlaygroundAssumption ==
  /\ Nil \notin Users
  /\ {MaxGen, MaxChunks, MaxOps} \subseteq Nat

VARIABLES
  user,        \* who is signed in
  mounted,     \* the page is open
  gen,         \* requestGenerationRef
  stream,      \* the request of createStreamRequestController: its generation and stage
  call,        \* the generation of a request without streaming, 0 when none
  buf,         \* pendingStreamChunksRef
  timer,       \* the generation streamFlushTimerRef was set for, 0 when not set
  requesting,  \* the state isRequesting, as last set
  streaming,   \* the state isStreaming, as last set
  messages,    \* the messages after the updates that were run
  queue,       \* updates of the messages that React has not run yet
  shown,       \* what the last render saw: messages and isGenerating
  editing,     \* editingMessageKey
  dirty,       \* the save timer is set
  saved,       \* localStorage
  answer,      \* per request: how many chunks the server sent
  done,        \* history: requests that got [DONE] or their whole answer
  ops,         \* how many of MaxOps were used
  cut,         \* history: requests stopped or left, answers edited
  dropped      \* history: requests hit by an edited list that replaced an update

vars == <<user, mounted, gen, stream, call, buf, timer, requesting, streaming, messages, queue, shown, editing,
          dirty, saved, answer, done, ops, cut, dropped>>

Gens == 0..MaxGen
(* A piece of text: the n-th chunk of a request's answer, or n = 0 for a    *)
(* text typed by the user.                                                  *)
Chunk == [req: Gens, n: 0..MaxChunks]
Status == {"loading", "streaming", "complete", "error"}
Message == [from: {"user", "assistant"}, req: Gens, user: Users, status: Status, content: Seq(Chunk)]
Key(m) == <<m.from, m.req>>
Typed(g) == <<[req |-> g, n |-> 0]>>
Update == [kind: {"flush", "complete", "error", "response", "stop"}, gen: Gens, chunks: Seq(Chunk)]

NoStream == [gen |-> 0, stage |-> "none"]
NoChunks(g) == [gen |-> g, chunks |-> <<>>]

(* Mutant: the buffer gets the new generation but is not emptied.           *)
Retagged(g) == [buf EXCEPT !.gen = g]

(* discardPendingStreamUpdates.                                             *)
Discarded(g) == NoChunks(g)

TypeOK ==
  /\ user \in Users \cup {Nil}
  /\ mounted \in BOOLEAN
  /\ gen \in Gens
  /\ stream \in [gen: Gens, stage: {"none", "headers", "open"}]
  /\ call \in Gens
  /\ buf \in [gen: Gens, chunks: Seq(Chunk)]
  /\ timer \in Gens
  /\ {requesting, streaming, dirty} \subseteq BOOLEAN
  /\ messages \in Seq(Message)
  /\ queue \in Seq(Update)
  /\ shown \in [messages: Seq(Message), generating: BOOLEAN]
  /\ editing = Nil \/ editing \in {"user", "assistant"} \X Gens
  /\ saved = Nil \/ saved \in Seq(Message)
  /\ answer \in [Gens -> 0..MaxChunks]
  /\ done \subseteq Gens /\ cut \subseteq Gens /\ dropped \subseteq Gens
  /\ ops \in 0..MaxOps

Init ==
  /\ user \in Users
  /\ mounted = FALSE
  /\ gen = 0
  /\ stream = NoStream
  /\ call = 0
  /\ buf = NoChunks(0)
  /\ timer = 0
  /\ requesting = FALSE /\ streaming = FALSE
  /\ messages = <<>>
  /\ queue = <<>>
  /\ shown = [messages |-> <<>>, generating |-> FALSE]
  /\ editing = Nil
  /\ dirty = FALSE
  /\ saved = Nil
  /\ answer = [g \in Gens |-> 0]
  /\ done = {} /\ cut = {} /\ dropped = {}
  /\ ops = 0

-----------------------------------------------------------------------------
(* The updates of the last assistant message.                               *)

Pending(m) == m.status \in {"loading", "streaming"}

(* Each update looks at the generation again when it is run.                *)
Changed(u, m) ==
  CASE u.kind = "flush" -> IF m.status = "error" THEN m
                           ELSE [m EXCEPT !.content = @ \o u.chunks, !.status = "streaming"]
    [] u.kind = "complete" -> IF Pending(m) THEN [m EXCEPT !.status = "complete"] ELSE m
    [] u.kind = "error" -> [m EXCEPT !.content = <<>>, !.status = "error"]
    [] u.kind = "response" -> [m EXCEPT !.content = u.chunks, !.status = "complete"]
    [] u.kind = "stop" -> IF Pending(m) THEN [m EXCEPT !.status = "complete"] ELSE m

Run(ms, u, g) ==
  IF u.gen # g \/ ms = <<>> \/ Last(ms).from # "assistant" THEN ms ELSE [ms EXCEPT ![Len(ms)] = Changed(u, @)]

(* React runs the queued updates in order, each on the list before it.      *)
RunAll(ms, us, g) ==
  LET run[k \in 0..Len(us)] == IF k = 0 THEN ms ELSE Run(run[k - 1], us[k], g)
  IN run[Len(us)]

Updater(kind, g, chunks) == [kind |-> kind, gen |-> g, chunks |-> chunks]

(* setMessages with a list us of updates: queued for the next render; React *)
(* runs the first one at once when it has nothing queued.  Running an       *)
(* update calls persistMessages.                                            *)
Enqueue(us) ==
  \/ /\ queue' = queue \o us
     /\ UNCHANGED <<messages, dirty>>
  \/ /\ queue = <<>> /\ us # <<>>
     /\ messages' = Run(messages, Head(us), gen)
     /\ queue' = Tail(us)
     /\ dirty' = TRUE

(* flushStreamUpdates(g): the update it makes, if any.                      *)
Flushed(g) ==
  IF g = gen /\ buf.gen = g /\ buf.chunks # <<>> THEN <<Updater("flush", g, buf.chunks)>> ELSE <<>>

(* A render: the queued updates are run.                                    *)
Render ==
  /\ mounted
  /\ queue # <<>> \/ shown # [messages |-> messages, generating |-> requesting \/ streaming]
  /\ messages' = RunAll(messages, queue, gen)
  /\ queue' = <<>>
  /\ dirty' = (dirty \/ queue # <<>>)
  /\ shown' = [messages |-> messages', generating |-> requesting \/ streaming]
  /\ UNCHANGED <<ops, user, mounted, gen, stream, call, buf, timer, requesting, streaming, editing, saved, answer,
                 done, cut, dropped>>

-----------------------------------------------------------------------------
(* The user.  A click is handled with the messages of the last render; the  *)
(* list it sets replaces what the queued updates would make.                *)

Replaced(ms) ==
  /\ messages' = ms
  /\ queue' = <<>>
  /\ dirty' = TRUE

NewMessage(from, g, status, content) ==
  [from |-> from, req |-> g, user |-> user, status |-> status, content |-> content]
Prompt(g) == NewMessage("user", g, "complete", Typed(g))
Loading(g) == NewMessage("assistant", g, "loading", <<>>)
HasContent(m) == m.content # <<>> \/ m.status = "error"

(* sendChat with a list ms and a new loading message: as a stream           *)
(* (sendStreamingChat) or as one call (sendNonStreamingChat).               *)
SendChat(ms) ==
  /\ gen < MaxGen
  /\ gen' = gen + 1
  /\ Replaced(Append(ms, Loading(gen + 1)))
  /\ shown' = [messages |-> messages', generating |-> TRUE]
  /\ \/ stream' = [gen |-> gen + 1, stage |-> "headers"] /\ call' = 0
     \/ stream' = NoStream /\ call' = gen + 1
  /\ buf' = Discarded(gen + 1)
  /\ timer' = 0
  /\ requesting' = TRUE /\ streaming' = FALSE
  /\ UNCHANGED <<ops, user, mounted, saved, answer, done>>

CanUse == mounted /\ user # Nil
Operation == ops < MaxOps /\ ops' = ops + 1

(* handleSendMessage.                                                       *)
SendMessage ==
  /\ CanUse /\ ~shown.generating
  /\ SendChat(Append(shown.messages, Prompt(gen + 1)))
  /\ UNCHANGED <<editing, cut, dropped>>

(* A user message is kept, an assistant message is made again.              *)
UpTo(ms, i) == SubSeq(ms, 1, IF ms[i].from = "user" THEN i ELSE i - 1)

(* handleRegenerateMessage.                                                 *)
RegenerateMessage(i) ==
  /\ CanUse /\ ~shown.generating
  /\ i \in DOMAIN shown.messages /\ HasContent(shown.messages[i])
  /\ SendChat(UpTo(shown.messages, i))
  /\ UNCHANGED <<editing, cut, dropped>>

Unedited == <<user, mounted, gen, stream, call, buf, timer, requesting, streaming, messages, queue, shown, dirty,
              saved, answer, done, cut, dropped>>

EditMessage(i) ==
  /\ Operation
  /\ CanUse /\ ~shown.generating
  /\ i \in DOMAIN shown.messages /\ HasContent(shown.messages[i])
  /\ editing' = Key(shown.messages[i])
  /\ UNCHANGED Unedited

CancelEdit ==
  /\ CanUse /\ editing # Nil
  /\ editing' = Nil
  /\ UNCHANGED <<ops, Unedited>>

(* The requests whose updates a list set by an edit throws away.            *)
Dropped ==
  {u.gen: u \in {queue[k]: k \in DOMAIN queue}} \cup (IF messages # shown.messages THEN {gen} ELSE {})

(* applyMessageEdit: the text of message i is replaced.                     *)
Edited(ms, i) == [ms EXCEPT ![i].content = Typed(ms[i].req)]

(* applyEdit with Save & Submit on a user message: the editor stays usable  *)
(* during a request.                                                        *)
SubmitEdit(i) ==
  /\ CanUse
  /\ i \in DOMAIN shown.messages /\ Key(shown.messages[i]) = editing
  /\ shown.messages[i].from = "user"
  /\ editing' = Nil
  /\ SendChat(UpTo(Edited(shown.messages, i), i))
  /\ dropped' = dropped \cup Dropped
  /\ UNCHANGED cut

(* applyEdit with Save.                                                     *)
SaveEdit(i) ==
  /\ CanUse
  /\ i \in DOMAIN shown.messages /\ Key(shown.messages[i]) = editing
  /\ editing' = Nil
  /\ Replaced(Edited(shown.messages, i))
  /\ shown' = [messages |-> messages', generating |-> requesting \/ streaming]
  /\ dropped' = dropped \cup Dropped
  /\ cut' = cut \cup (IF shown.messages[i].from = "assistant" THEN {shown.messages[i].req} ELSE {})
  /\ UNCHANGED <<ops, user, mounted, gen, stream, call, buf, timer, requesting, streaming, saved, answer, done>>

(* removeMessageByKey.                                                      *)
RemoveMessageByKey(ms, key) ==
  LET kept[k \in 0..Len(ms)] ==
        IF k = 0 THEN <<>> ELSE IF Key(ms[k]) = key THEN kept[k - 1] ELSE Append(kept[k - 1], ms[k])
  IN kept[Len(ms)]

(* handleDeleteMessage.                                                     *)
DeleteMessage(i) ==
  /\ Operation
  /\ CanUse /\ ~shown.generating
  /\ i \in DOMAIN shown.messages
  /\ messages' = RemoveMessageByKey(RunAll(messages, queue, gen), Key(shown.messages[i]))
  /\ queue' = <<>> /\ dirty' = TRUE
  /\ shown' = [messages |-> messages', generating |-> requesting \/ streaming]
  /\ UNCHANGED <<user, mounted, gen, stream, call, buf, timer, requesting, streaming, editing, saved, answer, done, cut, dropped>>

(* handleClearMessages.                                                     *)
ClearMessages ==
  /\ Operation
  /\ CanUse /\ ~shown.generating
  /\ shown.messages # <<>>
  /\ Replaced(<<>>)
  /\ shown' = [messages |-> <<>>, generating |-> requesting \/ streaming]
  /\ editing' = Nil
  /\ UNCHANGED <<user, mounted, gen, stream, call, buf, timer, requesting, streaming, saved, answer, done, cut, dropped>>

(* stopGeneration: what is buffered is flushed first, but its update is run *)
(* under the new generation unless React runs it at once.                   *)
StopGeneration ==
  /\ CanUse /\ shown.generating
  /\ gen < MaxGen
  /\ gen' = gen + 1
  /\ LET flush == Flushed(gen)
         last == Updater("stop", gen + 1, <<>>)
     IN \/ messages' = RunAll(messages, queue \o flush \o <<last>>, gen + 1)
        \/ /\ queue = <<>> /\ flush # <<>>
           /\ messages' = Run(Run(messages, Head(flush), gen), last, gen + 1)
  /\ queue' = <<>> /\ dirty' = TRUE
  /\ shown' = [messages |-> messages', generating |-> FALSE]
  /\ cut' = cut \cup {gen}
  /\ buf' = Discarded(gen + 1)
  /\ timer' = 0
  /\ stream' = NoStream /\ call' = 0
  /\ requesting' = FALSE /\ streaming' = FALSE
  /\ UNCHANGED <<ops, user, mounted, editing, saved, answer, done, dropped>>

-----------------------------------------------------------------------------
(* The network and the timers.                                              *)

(* getFreshAuthHeaders is done and the event source is opened.              *)
HeadersReady ==
  /\ stream.stage = "headers"
  /\ stream' = [stream EXCEPT !.stage = "open"]
  /\ streaming' = TRUE
  /\ UNCHANGED <<ops, user, mounted, gen, call, buf, timer, requesting, messages, queue, shown, editing, dirty, saved,
                 answer, done, cut, dropped>>

(* A message event with a delta: handleStreamUpdate, scheduleStreamFlush.   *)
StreamUpdate ==
  /\ stream.stage = "open"
  /\ answer[stream.gen] < MaxChunks
  /\ answer' = [answer EXCEPT ![stream.gen] = @ + 1]
  /\ IF stream.gen = gen /\ buf.gen = gen
       THEN /\ buf' = [buf EXCEPT !.chunks = Append(@, [req |-> stream.gen, n |-> answer'[stream.gen]])]
            /\ timer' = IF timer = 0 THEN gen ELSE timer
       ELSE UNCHANGED <<buf, timer>>
  /\ UNCHANGED <<ops, user, mounted, gen, stream, call, requesting, streaming, messages, queue, shown, editing, dirty,
                 saved, done, cut, dropped>>

(* The flush timer.                                                         *)
FlushTimer ==
  /\ timer # 0
  /\ timer' = 0
  /\ IF Flushed(timer) = <<>> THEN UNCHANGED <<messages, queue, dirty>> ELSE Enqueue(Flushed(timer))
  /\ buf' = IF timer = gen THEN NoChunks(gen) ELSE buf
  /\ UNCHANGED <<ops, user, mounted, gen, stream, call, requesting, streaming, shown, editing, saved, answer, done, cut, dropped>>

(* The end of a stream or of a call of generation g: the rest is flushed,   *)
(* then the message gets its final state.                                   *)
Ends(g, last) ==
  /\ IF g = gen
       THEN /\ Enqueue(Flushed(g) \o <<last>>)
            /\ buf' = IF buf.gen = g THEN NoChunks(g) ELSE buf
            /\ timer' = 0
            /\ requesting' = FALSE
       ELSE UNCHANGED <<messages, queue, dirty, buf, timer, requesting>>
  /\ streaming' = FALSE
  /\ UNCHANGED <<user, mounted, gen, shown, editing, saved, cut, dropped>>

(* Mutant: the rest of the buffer is not flushed at [DONE].                 *)
CompleteWithoutFlush ==
  /\ stream.stage = "open"
  /\ stream' = NoStream
  /\ Enqueue(<<Updater("complete", stream.gen, <<>>)>>)
  /\ buf' = NoChunks(gen)
  /\ timer' = 0
  /\ requesting' = FALSE /\ streaming' = FALSE
  /\ done' = done \cup {stream.gen}
  /\ UNCHANGED <<ops, user, mounted, gen, call, shown, editing, saved, cut, answer, dropped>>

(* [DONE]: handleStreamComplete.                                            *)
StreamComplete ==
  /\ stream.stage = "open"
  /\ stream' = NoStream
  /\ done' = done \cup {stream.gen}
  /\ Ends(stream.gen, Updater("complete", stream.gen, <<>>))
  /\ UNCHANGED <<ops, call, answer>>

(* No headers, a broken connection or a message that cannot be parsed:      *)
(* handleStreamError.                                                       *)
StreamError ==
  /\ stream.stage # "none"
  /\ stream' = NoStream
  /\ Ends(stream.gen, Updater("error", stream.gen, <<>>))
  /\ UNCHANGED <<ops, call, answer, done>>

Whole(g, k) == [i \in 1..k |-> [req |-> g, n |-> i]]

(* Mutant: an answered call leaves isRequesting set.                        *)
AnsweredStillRequesting ==
  /\ call # 0
  /\ call' = 0
  /\ answer' = [answer EXCEPT ![call] = MaxChunks]
  /\ done' = done \cup {call}
  /\ Enqueue(<<Updater("response", call, Whole(call, MaxChunks))>>)
  /\ UNCHANGED <<ops, user, mounted, gen, stream, buf, timer, requesting, streaming, shown, editing, saved, cut, dropped>>

(* A call is answered with the whole text.                                  *)
CallAnswered ==
  /\ call # 0
  /\ call' = 0
  /\ answer' = [answer EXCEPT ![call] = MaxChunks]
  /\ done' = done \cup {call}
  /\ IF call = gen
       THEN /\ Enqueue(<<Updater("response", call, Whole(call, MaxChunks))>>)
            /\ requesting' = FALSE
       ELSE UNCHANGED <<messages, queue, dirty, requesting>>
  /\ UNCHANGED <<ops, user, mounted, gen, stream, buf, timer, streaming, shown, editing, saved, cut, dropped>>

(* A call fails, or its answer has no choice.                               *)
CallFails ==
  /\ call # 0
  /\ call' = 0
  /\ Ends(call, Updater("error", call, <<>>))
  /\ UNCHANGED <<ops, stream, answer, done>>

(* MESSAGE_SAVE_DEBOUNCE_MS after the last update.                          *)
SaveMessages ==
  /\ dirty
  /\ dirty' = FALSE
  /\ saved' = messages
  /\ UNCHANGED <<ops, user, mounted, gen, stream, call, buf, timer, requesting, streaming, messages, queue, shown, editing,
                 answer, done, cut, dropped>>

-----------------------------------------------------------------------------
(* The life of the page.                                                    *)

(* The page is left: requests are dropped, an outstanding save is done.     *)
Unmount ==
  /\ mounted
  /\ gen < MaxGen
  /\ mounted' = FALSE
  /\ gen' = gen + 1
  /\ stream' = NoStream /\ call' = 0
  /\ timer' = 0
  /\ saved' = IF dirty THEN messages ELSE saved
  /\ dirty' = FALSE
  /\ cut' = cut \cup {gen}
  /\ UNCHANGED <<ops, user, buf, requesting, streaming, messages, queue, shown, editing, answer, done, dropped>>

(* normalizeStoredMessageForLoad: what was interrupted and has content is   *)
(* complete.                                                                *)
NormalizeStoredMessageForLoad(m) ==
  IF Pending(m) /\ m.content # <<>> THEN [m EXCEPT !.status = "complete"] ELSE m

(* Mutant: what was interrupted is left as it is.                           *)
LeftAsSaved(ms) == ms

(* The last message that is still pending becomes an error.                 *)
SanitizeMessagesOnLoad(ms) ==
  LET open == {i \in DOMAIN ms: Pending(ms[i])}
  IN IF open = {} THEN ms
     ELSE [ms EXCEPT ![CHOOSE i \in open: \A j \in open: j <= i].status = "error"]

Loaded(ms) == SanitizeMessagesOnLoad([i \in DOMAIN ms |-> NormalizeStoredMessageForLoad(ms[i])])

(* The page is opened and loads what is stored.                             *)
Mount ==
  /\ ~mounted /\ user # Nil
  /\ mounted' = TRUE
  /\ messages' = IF saved = Nil THEN <<>> ELSE Loaded(saved)
  /\ saved' = IF saved = Nil THEN Nil ELSE messages'
  /\ queue' = <<>> /\ dirty' = FALSE
  /\ shown' = [messages |-> messages', generating |-> FALSE]
  /\ requesting' = FALSE /\ streaming' = FALSE
  /\ buf' = NoChunks(gen)
  /\ editing' = Nil
  /\ UNCHANGED <<ops, user, gen, stream, call, timer, answer, done, cut, dropped>>

(* clearAuthentication, in this tab or for a sign-out in another one: the   *)
(* stored conversations are removed; the page is left afterwards.           *)
SignOut ==
  /\ Operation
  /\ user # Nil
  /\ user' = Nil
  /\ saved' = Nil
  /\ UNCHANGED <<mounted, gen, stream, call, buf, timer, requesting, streaming, messages, queue, shown, editing,
                 dirty, answer, done, cut, dropped>>

(* Somebody signs in on the sign-in page.                                   *)
SignIn(u) ==
  /\ user = Nil /\ ~mounted
  /\ user' = u
  /\ UNCHANGED <<ops, mounted, gen, stream, call, buf, timer, requesting, streaming, messages, queue, shown, editing, dirty,
                 saved, answer, done, cut, dropped>>

Next ==
  \/ Render
  \/ SendMessage
  \/ \E i \in DOMAIN shown.messages:
       RegenerateMessage(i) \/ EditMessage(i) \/ SubmitEdit(i) \/ SaveEdit(i) \/ DeleteMessage(i)
  \/ CancelEdit \/ ClearMessages \/ StopGeneration
  \/ HeadersReady \/ StreamUpdate \/ FlushTimer \/ StreamComplete \/ StreamError
  \/ CallAnswered \/ CallFails
  \/ SaveMessages \/ Unmount \/ Mount \/ SignOut
  \/ \E u \in Users: SignIn(u)

(* React renders what is scheduled and timers fire; requests are answered,  *)
(* or fail, in the end.                                                     *)
Fairness ==
  /\ WF_vars(Render) /\ WF_vars(FlushTimer) /\ WF_vars(SaveMessages)
  /\ WF_vars(HeadersReady \/ StreamError)
  /\ WF_vars(StreamComplete \/ StreamError)
  /\ WF_vars(CallAnswered \/ CallFails)

Spec == Init /\ [][Next]_vars /\ Fairness

-----------------------------------------------------------------------------
(* A chunk never ends up in the message of another request, whatever was    *)
(* stopped, edited, deleted, answered twice or reloaded in between.         *)
NoForeignChunks ==
  \A i \in DOMAIN messages: \A k \in DOMAIN messages[i].content: messages[i].content[k].req = messages[i].req

(* The text of an answer is its chunks in order and without a gap, unless a *)
(* saved edit replaced the list while an update was queued; and once its    *)
(* request got [DONE] and every update was run, it is the whole answer      *)
(* unless the user cut it short.                                            *)
AnswersAreWhole ==
  \A i \in {k \in DOMAIN messages: messages[k].from = "assistant"}:
    LET m == messages[i]
    IN /\ m.req \notin cut \cup dropped => m.content = Whole(m.req, Len(m.content))
       /\ (m.req \in done /\ m.req \notin cut \cup dropped /\ m.status = "complete" /\ queue = <<>>)
            => m.content = Whole(m.req, answer[m.req])

(* Only the message of the live request may look unfinished, once React is  *)
(* up to date; the exception is a list that a saved edit brought back.      *)
PendingIsLive ==
  mounted /\ queue = <<>> =>
    \A i \in DOMAIN messages:
      Pending(messages[i]) /\ messages[i].req \notin dropped
        => i = Len(messages) /\ messages[i].req = gen /\ gen \in {stream.gen, call}

(* A request ends: the page that shows a generation under way stops showing *)
(* it, or is left.                                                          *)
GenerationEnds ==
  (mounted /\ shown.generating) ~> (~mounted \/ ~shown.generating)

(* The comment of clearAuthentication: stored conversations are removed     *)
(* when the session ends, so that the next user of the browser does not     *)
(* read them.                                                               *)
ChatsStayWithTheirUser ==
  mounted /\ user # Nil => \A i \in DOMAIN messages: messages[i].user = user
=============================================================================
