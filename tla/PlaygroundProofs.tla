-------------------------- MODULE PlaygroundProofs --------------------------
(***************************************************************************)
(* The chat of the playground for any number of requests, chunks and        *)
(* operations: a chunk stays in the message of its request, an answer is    *)
(* whole and in order, and only the message of the live request looks       *)
(* unfinished.                                                              *)
(***************************************************************************)
EXTENDS Playground, Integers, SequenceTheorems, WellFoundedInduction, TLAPS

-----------------------------------------------------------------------------
(* Induction over the natural numbers, for a set instead of a predicate.    *)

(* A set with 0 that is closed under successor has every natural number.    *)
LEMMA SetInduction ==
  ASSUME NEW S, 0 \in S, \A n \in Nat: n \in S => n + 1 \in S
  PROVE  Nat \subseteq S
<1> DEFINE T == Nat \ S
           R == OpToRel(<, Nat)
<1> SUFFICES ASSUME T # {} PROVE FALSE
  OBVIOUS
<1>1. IsWellFoundedOn(R, Nat)
  BY NatLessThanWellFounded
<1> HIDE DEF T
<1>2. T \subseteq Nat
  BY DEF T
<1>3. PICK x \in T: \A y \in T: ~(<<y, x>> \in R)
  BY <1>1, <1>2, WFMin
<1>4. x \in Nat /\ x # 0
  BY <1>2 DEF T
<1>5. x - 1 \in Nat /\ x - 1 < x
  BY <1>4
<1>6. <<x - 1, x>> \in R
  BY <1>4, <1>5 DEF OpToRel
<1>7. x - 1 \in S
  BY <1>3, <1>5, <1>6 DEF T
<1>8. x \in S
  BY <1>4, <1>5, <1>7
<1> QED
  BY <1>8 DEF T

-----------------------------------------------------------------------------
(* RunAll: what React makes of a list when it runs the queued updates.      *)

(* f lists what is left after each of the first n updates.                  *)
IsRun(f, ms, us, g, n) == f = [k \in 0..n |-> IF k = 0 THEN ms ELSE Run(f[k - 1], us[k], g)]

(* RunAll picks such a list of results.                                     *)
LEMMA RunAllDef ==
  ASSUME NEW ms, NEW us, NEW g
  PROVE  RunAll(ms, us, g) = (CHOOSE f: IsRun(f, ms, us, g, Len(us)))[Len(us)]
BY DEF RunAll, IsRun

(* Any number of updates can be run.                                        *)
LEMMA RunExists ==
  ASSUME NEW ms, NEW us, NEW g, NEW n \in Nat
  PROVE  \E f: IsRun(f, ms, us, g, n)
<1> DEFINE S == {k \in Nat: \E f: IsRun(f, ms, us, g, k)}
<1>1. 0 \in S
  <2> DEFINE f == [k \in 0..0 |-> ms]
  <2>1. IsRun(f, ms, us, g, 0)
    BY DEF IsRun
  <2> QED
    BY <2>1
<1>2. \A k \in Nat: k \in S => k + 1 \in S
  <2> SUFFICES ASSUME NEW k \in Nat, k \in S PROVE k + 1 \in S
    OBVIOUS
  <2> PICK f: IsRun(f, ms, us, g, k)
    OBVIOUS
  <2> DEFINE h == [j \in 0..(k + 1) |-> IF j = k + 1 THEN Run(f[k], us[k + 1], g) ELSE f[j]]
  <2>1. \A j \in 0..k: f[j] = IF j = 0 THEN ms ELSE Run(f[j - 1], us[j], g)
    BY DEF IsRun
  <2>2. \A j \in 0..(k + 1): h[j] = IF j = 0 THEN ms ELSE Run(h[j - 1], us[j], g)
    <3> SUFFICES ASSUME NEW j \in 0..(k + 1) PROVE h[j] = IF j = 0 THEN ms ELSE Run(h[j - 1], us[j], g)
      OBVIOUS
    <3>1. CASE j = 0
      BY <2>1, <3>1
    <3>2. CASE j # 0 /\ j # k + 1
      <4>1. j - 1 \in 0..(k + 1) /\ j - 1 # k + 1 /\ j \in 0..k
        BY <3>2
      <4>2. h[j] = f[j] /\ h[j - 1] = f[j - 1]
        BY <3>2, <4>1
      <4> QED
        BY <2>1, <3>2, <4>1, <4>2
    <3>3. CASE j = k + 1
      <4>1. j - 1 = k /\ k \in 0..(k + 1) /\ k # k + 1 /\ j # 0
        BY <3>3
      <4> QED
        BY <3>3, <4>1
    <3> QED
      BY <3>1, <3>2, <3>3
  <2>3. IsRun(h, ms, us, g, k + 1)
    BY <2>2 DEF IsRun
  <2> QED
    BY <2>3
<1>3. Nat \subseteq S
  <2> HIDE DEF S
  <2> QED
    BY <1>1, <1>2, SetInduction
<1> QED
  BY <1>3

(* The results after the first n updates depend on those updates alone.     *)
LEMMA RunUnique ==
  ASSUME NEW ms, NEW us, NEW vs, NEW g, NEW n \in Nat,
         \A k \in 1..n: us[k] = vs[k],
         NEW f, IsRun(f, ms, us, g, n), NEW h, IsRun(h, ms, vs, g, n + 1)
  PROVE  \A k \in 0..n: f[k] = h[k]
<1> DEFINE S == {k \in Nat: k <= n => f[k] = h[k]}
<1>1. \A j \in 0..n: f[j] = IF j = 0 THEN ms ELSE Run(f[j - 1], us[j], g)
  BY DEF IsRun
<1>2. \A j \in 0..(n + 1): h[j] = IF j = 0 THEN ms ELSE Run(h[j - 1], vs[j], g)
  BY DEF IsRun
<1>3. 0 \in S
  BY <1>1, <1>2
<1>4. \A k \in Nat: k \in S => k + 1 \in S
  <2> SUFFICES ASSUME NEW k \in Nat, k \in S, k + 1 <= n PROVE f[k + 1] = h[k + 1]
    OBVIOUS
  <2>1. f[k] = h[k] /\ us[k + 1] = vs[k + 1]
    OBVIOUS
  <2>2. k + 1 \in 0..n /\ k + 1 \in 0..(n + 1) /\ k + 1 # 0 /\ (k + 1) - 1 = k
    OBVIOUS
  <2> QED
    BY <1>1, <1>2, <2>1, <2>2
<1>5. Nat \subseteq S
  <2> HIDE DEF S
  <2> QED
    BY <1>3, <1>4, SetInduction
<1> QED
  BY <1>5

(* A list that is run and picked is one of the lists of results.            *)
LEMMA RunAllIs ==
  ASSUME NEW ms, NEW us, NEW g, Len(us) \in Nat
  PROVE  \E f: IsRun(f, ms, us, g, Len(us)) /\ RunAll(ms, us, g) = f[Len(us)]
<1> DEFINE P(f) == IsRun(f, ms, us, g, Len(us))
<1>1. \E f: P(f)
  BY RunExists
<1> HIDE DEF P
<1>2. P(CHOOSE f: P(f))
  BY <1>1
<1> QED
  BY <1>2, RunAllDef DEF P

(* With nothing queued the list stays.                                      *)
LEMMA RunNothing ==
  ASSUME NEW ms, NEW g
  PROVE  RunAll(ms, <<>>, g) = ms
<1>1. Len(<<>>) = 0
  OBVIOUS
<1>2. PICK f: IsRun(f, ms, <<>>, g, 0) /\ RunAll(ms, <<>>, g) = f[0]
  BY <1>1, RunAllIs
<1> QED
  BY <1>2 DEF IsRun

(* An update that is queued last is run last.                               *)
LEMMA RunOneMore ==
  ASSUME NEW ms, NEW us \in Seq(Update), NEW u \in Update, NEW g
  PROVE  RunAll(ms, Append(us, u), g) = Run(RunAll(ms, us, g), u, g)
<1> DEFINE vs == Append(us, u)
           n == Len(us)
<1>1. /\ n \in Nat /\ Len(vs) = n + 1
      /\ \A k \in 1..n: us[k] = vs[k]
      /\ vs[n + 1] = u
  BY AppendProperties, LenProperties
<1> HIDE DEF vs
<1>2. PICK f: IsRun(f, ms, us, g, n) /\ RunAll(ms, us, g) = f[n]
  BY <1>1, RunAllIs
<1>3. PICK h: IsRun(h, ms, vs, g, n + 1) /\ RunAll(ms, vs, g) = h[n + 1]
  BY <1>1, RunAllIs
<1> HIDE DEF n
<1>4. f[n] = h[n]
  <2>1. n \in 0..n
    BY <1>1
  <2>2. n \in Nat /\ \A k \in 1..n: us[k] = vs[k]
    BY <1>1
  <2>3. \A k \in 0..n: f[k] = h[k]
    BY <1>2, <1>3, <2>2, RunUnique
  <2> QED
    BY <2>1, <2>3
<1>5. h[n + 1] = Run(h[n], vs[n + 1], g)
  <2>1. \A j \in 0..(n + 1): h[j] = IF j = 0 THEN ms ELSE Run(h[j - 1], vs[j], g)
    BY <1>1, <1>3 DEF IsRun
  <2>2. n + 1 \in 0..(n + 1) /\ n + 1 # 0 /\ (n + 1) - 1 = n
    BY <1>1
  <2> QED
    BY <2>1, <2>2
<1> QED
  BY <1>1, <1>2, <1>3, <1>4, <1>5 DEF vs

(* Updates of other generations change nothing.                             *)
LEMMA RunStale ==
  ASSUME NEW ms, NEW us, NEW g, Len(us) \in Nat, \A k \in 1..Len(us): us[k].gen # g
  PROVE  RunAll(ms, us, g) = ms
<1> DEFINE n == Len(us)
<1>1. PICK f: IsRun(f, ms, us, g, n) /\ RunAll(ms, us, g) = f[n]
  BY RunAllIs
<1> HIDE DEF n
<1>2. n \in Nat /\ \A k \in 1..n: us[k].gen # g
  BY DEF n
<1> DEFINE S == {k \in Nat: k <= n => f[k] = ms}
<1>3. \A j \in 0..n: f[j] = IF j = 0 THEN ms ELSE Run(f[j - 1], us[j], g)
  BY <1>1 DEF IsRun
<1>4. 0 \in S
  BY <1>2, <1>3
<1>5. \A k \in Nat: k \in S => k + 1 \in S
  <2> SUFFICES ASSUME NEW k \in Nat, k \in S, k + 1 <= n PROVE f[k + 1] = ms
    OBVIOUS
  <2>1. k + 1 \in 0..n /\ k + 1 # 0 /\ (k + 1) - 1 = k /\ k <= n /\ k + 1 \in 1..n
    BY <1>2
  <2>2. f[k + 1] = Run(ms, us[k + 1], g)
    BY <1>3, <2>1
  <2> QED
    BY <1>2, <2>1, <2>2 DEF Run
<1>6. Nat \subseteq S
  <2> HIDE DEF S
  <2> QED
    BY <1>4, <1>5, SetInduction
<1> QED
  BY <1>1, <1>2, <1>6

-----------------------------------------------------------------------------
(* RemoveMessageByKey: the list of handleDeleteMessage.                     *)

(* f lists what is kept of the first n messages.                            *)
IsKept(f, ms, key, n) ==
  f = [k \in 0..n |-> IF k = 0 THEN <<>> ELSE IF Key(ms[k]) = key THEN f[k - 1] ELSE Append(f[k - 1], ms[k])]

(* RemoveMessageByKey picks such a list.                                    *)
LEMMA WithoutDef ==
  ASSUME NEW ms, NEW key
  PROVE  RemoveMessageByKey(ms, key) = (CHOOSE f: IsKept(f, ms, key, Len(ms)))[Len(ms)]
BY DEF RemoveMessageByKey, IsKept

(* A message that is kept was in the list.                                  *)
LEMMA WithoutKeeps ==
  ASSUME NEW M, NEW ms \in Seq(M), NEW key
  PROVE  RemoveMessageByKey(ms, key) \in Seq(M)
<1> DEFINE n == Len(ms)
           S == {k \in Nat: \E f: IsKept(f, ms, key, k)}
<1>1. n \in Nat /\ \A k \in 1..n: ms[k] \in M
  BY LenProperties
<1> HIDE DEF n
<1>2. 0 \in S
  <2> DEFINE f == [k \in 0..0 |-> <<>>]
  <2>1. IsKept(f, ms, key, 0)
    BY DEF IsKept
  <2> HIDE DEF f
  <2> QED
    BY <2>1
<1>3. \A k \in Nat: k \in S => k + 1 \in S
  <2> SUFFICES ASSUME NEW k \in Nat, k \in S
               PROVE  \E f: IsKept(f, ms, key, k + 1)
    OBVIOUS
  <2>1. PICK f: IsKept(f, ms, key, k)
    OBVIOUS
  <2> DEFINE next == IF Key(ms[k + 1]) = key THEN f[k] ELSE Append(f[k], ms[k + 1])
             h == [j \in 0..(k + 1) |-> IF j = k + 1 THEN next ELSE f[j]]
             Is(q, j) == q[j] = IF j = 0 THEN <<>> ELSE IF Key(ms[j]) = key THEN q[j - 1] ELSE Append(q[j - 1], ms[j])
  <2>2. \A j \in 0..k: Is(f, j)
    BY <2>1 DEF IsKept
  <2>3. \A j \in 0..k: h[j] = f[j]
    OBVIOUS
  <2>4. h[k + 1] = next
    OBVIOUS
  <2>7. \A j \in 0..(k + 1): Is(h, j)
    <3> SUFFICES ASSUME NEW j \in 0..(k + 1) PROVE Is(h, j)
      OBVIOUS
    <3> HIDE DEF h
    <3>1. CASE j = 0
      <4>1. Is(f, 0) /\ h[0] = f[0]
        BY <2>2, <2>3
      <4> QED
        BY <3>1, <4>1
    <3>2. CASE j # 0 /\ j # k + 1
      <4>1. j - 1 \in 0..k /\ j \in 0..k
        BY <3>2
      <4>2. h[j] = f[j] /\ h[j - 1] = f[j - 1] /\ Is(f, j)
        BY <2>2, <2>3, <4>1
      <4> QED
        BY <3>2, <4>2
    <3>3. CASE j = k + 1
      <4>1. j - 1 = k /\ j # 0 /\ h[k] = f[k]
        BY <2>3, <3>3
      <4> QED
        BY <2>4, <3>3, <4>1
    <3> QED
      BY <3>1, <3>2, <3>3
  <2>8. IsKept(h, ms, key, k + 1)
    <3>1. h = [j \in 0..(k + 1) |-> h[j]]
      OBVIOUS
    <3> HIDE DEF h
    <3> QED
      BY <2>7, <3>1 DEF IsKept
  <2> QED
    BY <2>8
<1>4. Nat \subseteq S
  <2> HIDE DEF S
  <2> QED
    BY <1>2, <1>3, SetInduction
<1>5. n \in S
  <2> HIDE DEF S
  <2> QED
    BY <1>1, <1>4
<1>6. \E f: IsKept(f, ms, key, n)
  BY <1>5
<1> DEFINE h == CHOOSE q: IsKept(q, ms, key, n)
<1>7. IsKept(h, ms, key, n)
  BY <1>6
<1>8. RemoveMessageByKey(ms, key) = h[n]
  BY WithoutDef DEF n
<1> HIDE DEF h
<1> DEFINE U == {k \in Nat: k <= n => h[k] \in Seq(M)}
<1>9. \A j \in 0..n: h[j] = IF j = 0 THEN <<>> ELSE IF Key(ms[j]) = key THEN h[j - 1] ELSE Append(h[j - 1], ms[j])
  BY <1>7 DEF IsKept
<1>10. 0 \in U
  <2>1. 0 \in 0..n
    BY <1>1
  <2>2. h[0] = <<>>
    BY <1>9, <2>1
  <2> QED
    BY <2>2, EmptySeq
<1>11. \A k \in Nat: k \in U => k + 1 \in U
  <2> SUFFICES ASSUME NEW k \in Nat, k \in U, k + 1 <= n PROVE h[k + 1] \in Seq(M)
    OBVIOUS
  <2>1. k + 1 \in 0..n /\ k + 1 # 0 /\ (k + 1) - 1 = k /\ h[k] \in Seq(M) /\ ms[k + 1] \in M
    BY <1>1
  <2>2. h[k + 1] = IF Key(ms[k + 1]) = key THEN h[k] ELSE Append(h[k], ms[k + 1])
    BY <1>9, <2>1
  <2> QED
    BY <2>1, <2>2, AppendProperties
<1>12. Nat \subseteq U
  <2> HIDE DEF U
  <2> QED
    BY <1>10, <1>11, SetInduction
<1> QED
  BY <1>1, <1>8, <1>12

-----------------------------------------------------------------------------
(* Sets of messages, and lists of them.  ex stands for the requests that    *)
(* were cut short or hit by an edit, d for the latter, a for answer and g   *)
(* for the generation.                                                      *)

(* A message whose pieces are its own, in order, and all there when it      *)
(* looks complete.                                                          *)
Fine(ex, a, g) ==
  {m \in Message:
     /\ m.req <= g
     /\ \A k \in DOMAIN m.content: m.content[k].req = m.req
     /\ m.from = "assistant" /\ m.req \notin ex =>
          /\ m.content = Whole(m.req, Len(m.content))
          /\ m.status = "complete" => m.content = Whole(m.req, a[m.req])}

(* A message no request is working on.                                      *)
Past(ex, d, a, g) == {m \in Fine(ex, a, g): Pending(m) => m.req \in d}

(* A message above the answer of request g.                                 *)
Earlier(ex, d, a, g) == {m \in Past(ex, d, a, g): m.from = "assistant" => m.req < g}

(* The answer of request g: at any time, while the request is live, and     *)
(* after its last update.                                                   *)
Current(ex, a, g) == {m \in Fine(ex, a, g): m.from = "assistant" /\ m.req = g}
Unfinished(ex, a, g) == {m \in Current(ex, a, g): Pending(m)}
Settled(ex, d, a, g) == {m \in Current(ex, a, g): Pending(m) => g \in d}

(* A list of messages of P that ends with one of C.                         *)
Ending(P, C) ==
  {ms \in Seq(Message): ms # <<>> /\ (\A i \in 1..(Len(ms) - 1): ms[i] \in P) /\ ms[Len(ms)] \in C}

(* The chunks of an answer are a sequence of tagged chunks.                 *)
LEMMA WholeIs ==
  ASSUME NEW g \in Gens, NEW k \in 0..MaxChunks
  PROVE  /\ Whole(g, k) \in Seq(Chunk) /\ Len(Whole(g, k)) = k
         /\ DOMAIN Whole(g, k) = 1..k
         /\ \A i \in 1..k: Whole(g, k)[i] = [req |-> g, n |-> i] /\ Whole(g, k)[i].req = g
<1>1. MaxChunks \in Nat /\ k \in Nat
  BY PlaygroundAssumption
<1>2. \A i \in 1..k: [req |-> g, n |-> i] \in Chunk
  BY <1>1 DEF Chunk
<1>3. Whole(g, k) \in [1..k -> Chunk]
  BY <1>2 DEF Whole
<1>4. Whole(g, k) \in Seq(Chunk)
  BY <1>1, <1>3, SeqDef
<1> QED
  BY <1>1, <1>4 DEF Whole

(* The next chunk makes the answer one longer.                              *)
LEMMA WholeGrows ==
  ASSUME NEW g \in Gens, NEW k \in 0..MaxChunks, k + 1 \in 0..MaxChunks
  PROVE  Append(Whole(g, k), [req |-> g, n |-> k + 1]) = Whole(g, k + 1)
<1>1. k \in Nat
  BY PlaygroundAssumption
<1>2. [req |-> g, n |-> k + 1] \in Chunk
  BY DEF Chunk
<1> DEFINE s == Whole(g, k)
           t == Whole(g, k + 1)
           c == [req |-> g, n |-> k + 1]
<1>3. /\ s \in Seq(Chunk) /\ Len(s) = k /\ t \in Seq(Chunk) /\ Len(t) = k + 1
      /\ \A i \in 1..k: s[i] = [req |-> g, n |-> i]
      /\ \A i \in 1..(k + 1): t[i] = [req |-> g, n |-> i]
  BY WholeIs
<1>4. c \in Chunk
  BY <1>2
<1> HIDE DEF s, t
<1>5. /\ Append(s, c) \in Seq(Chunk) /\ Len(Append(s, c)) = k + 1
      /\ \A i \in 1..k: Append(s, c)[i] = s[i]
      /\ Append(s, c)[k + 1] = c
  <2> HIDE DEF c
  <2> QED
    BY <1>3, <1>4, AppendProperties
<1>6. \A i \in 1..(k + 1): Append(s, c)[i] = t[i]
  <2> SUFFICES ASSUME NEW i \in 1..(k + 1) PROVE Append(s, c)[i] = t[i]
    OBVIOUS
  <2>1. i \in 1..k \/ i = k + 1
    BY <1>1
  <2>2. CASE i \in 1..k
    BY <1>3, <1>5, <2>2
  <2>3. CASE i = k + 1
    BY <1>3, <1>5, <2>3
  <2> QED
    BY <2>1, <2>2, <2>3
<1>7. Append(s, c) = t
  <2> HIDE DEF c
  <2> QED
    BY <1>3, <1>5, <1>6, SeqEqual
<1> QED
  BY <1>7 DEF s, t

(* What is known of a message stays true when requests are cut or hit and   *)
(* later ones start.                                                        *)
LEMMA MessagesGrow ==
  ASSUME NEW ex, NEW ex2, ex \subseteq ex2, NEW d, NEW d2, d \subseteq d2, NEW a, NEW g \in Nat, NEW g2 \in Nat, g <= g2
  PROVE  /\ Fine(ex, a, g) \subseteq Fine(ex2, a, g2)
         /\ Past(ex, d, a, g) \subseteq Past(ex2, d2, a, g2)
<1>1. \A m \in Message: m.req \in Nat
  BY PlaygroundAssumption DEF Message, Gens
<1>2. \A m \in Message: m.req <= g => m.req <= g2
  BY <1>1
<1>3. Fine(ex, a, g) \subseteq Fine(ex2, a, g2)
  BY <1>2 DEF Fine
<1> QED
  BY <1>3 DEF Past

(* The same for the list of a request.                                      *)
LEMMA AnswersGrow ==
  ASSUME NEW ex, NEW ex2, ex \subseteq ex2, NEW d, NEW d2, d \subseteq d2, NEW a, NEW g \in Nat
  PROVE  /\ Earlier(ex, d, a, g) \subseteq Earlier(ex2, d2, a, g)
         /\ Current(ex, a, g) \subseteq Current(ex2, a, g)
         /\ Unfinished(ex, a, g) \subseteq Unfinished(ex2, a, g)
         /\ Settled(ex, d, a, g) \subseteq Settled(ex2, d2, a, g)
<1>1. Fine(ex, a, g) \subseteq Fine(ex2, a, g) /\ Past(ex, d, a, g) \subseteq Past(ex2, d2, a, g)
  <2>1. g <= g
    OBVIOUS
  <2> QED
    BY <2>1, MessagesGrow
<1>2. Current(ex, a, g) \subseteq Current(ex2, a, g)
  BY <1>1 DEF Current
<1> QED
  BY <1>1, <1>2 DEF Earlier, Unfinished, Settled

(* Everything there is lies above the answer of the next request.           *)
LEMMA PastIsEarlier ==
  ASSUME NEW ex, NEW d, NEW a, NEW g \in Nat
  PROVE  Past(ex, d, a, g) \subseteq Earlier(ex, d, a, g + 1)
<1>1. Past(ex, d, a, g) \subseteq Past(ex, d, a, g + 1)
  BY MessagesGrow
<1>2. \A m \in Past(ex, d, a, g): m.req < g + 1
  <2>1. \A m \in Message: m.req \in Nat
    BY PlaygroundAssumption DEF Message, Gens
  <2>2. \A m \in Past(ex, d, a, g): m \in Message /\ m.req <= g
    BY DEF Past, Fine
  <2> QED
    BY <2>1, <2>2
<1> QED
  BY <1>1, <1>2 DEF Earlier

(* Which set is part of which.                                              *)
LEMMA Inclusions ==
  ASSUME NEW ex, NEW d, NEW a, NEW g
  PROVE  /\ Fine(ex, a, g) \subseteq Message
         /\ Past(ex, d, a, g) \subseteq Fine(ex, a, g) /\ Earlier(ex, d, a, g) \subseteq Past(ex, d, a, g)
         /\ Current(ex, a, g) \subseteq Fine(ex, a, g) /\ Unfinished(ex, a, g) \subseteq Current(ex, a, g)
         /\ Settled(ex, d, a, g) \subseteq Current(ex, a, g) /\ Settled(ex, d, a, g) \subseteq Past(ex, d, a, g)
<1>1. Fine(ex, a, g) \subseteq Message
  BY DEF Fine
<1>2. Past(ex, d, a, g) \subseteq Fine(ex, a, g) /\ Earlier(ex, d, a, g) \subseteq Past(ex, d, a, g)
  BY DEF Past, Earlier
<1>3. Current(ex, a, g) \subseteq Fine(ex, a, g) /\ Unfinished(ex, a, g) \subseteq Current(ex, a, g)
  BY DEF Current, Unfinished
<1>4. Settled(ex, d, a, g) \subseteq Current(ex, a, g) /\ Settled(ex, d, a, g) \subseteq Past(ex, d, a, g)
  BY DEF Settled, Current, Past
<1> QED
  BY <1>1, <1>2, <1>3, <1>4

(* A chunk more of request g says nothing about the messages above its      *)
(* answer, nor about the answer while it is unfinished.                     *)
LEMMA AnswerGrows ==
  ASSUME NEW ex, NEW d, NEW a, NEW b, NEW g \in Nat, \A h \in Gens: h # g => b[h] = a[h]
  PROVE  /\ Earlier(ex, d, a, g) \subseteq Earlier(ex, d, b, g)
         /\ Unfinished(ex, a, g) \subseteq Unfinished(ex, b, g)
<1>1. \A m \in Message: m.req \in Gens /\ m.req \in Nat
  BY PlaygroundAssumption DEF Message, Gens
<1>2. ASSUME NEW m \in Earlier(ex, d, a, g) PROVE m \in Earlier(ex, d, b, g)
  <2>1. m \in Message /\ m \in Fine(ex, a, g)
    BY DEF Earlier, Past, Fine
  <2>2. m.from = "assistant" => m.req < g
    BY DEF Earlier
  <2>3. m.from = "assistant" => b[m.req] = a[m.req]
    BY <1>1, <2>1, <2>2
  <2>4. m \in Fine(ex, b, g)
    BY <2>1, <2>3 DEF Fine
  <2> QED
    BY <2>4 DEF Earlier, Past
<1>3. ASSUME NEW m \in Unfinished(ex, a, g) PROVE m \in Unfinished(ex, b, g)
  <2>1. m \in Fine(ex, a, g) /\ Pending(m)
    BY DEF Unfinished, Current
  <2>2. m.status # "complete"
    BY <2>1 DEF Pending
  <2>3. m \in Fine(ex, b, g)
    BY <2>1, <2>2 DEF Fine
  <2> QED
    BY <2>3 DEF Unfinished, Current
<1> QED
  BY <1>2, <1>3

(* A list that ends with a message of C is a list of what P and C are       *)
(* part of.                                                                 *)
LEMMA EndingIsSeq ==
  ASSUME NEW P, NEW C, NEW S, P \subseteq S, C \subseteq S, NEW ms \in Ending(P, C)
  PROVE  ms \in Seq(S)
<1>1. ms \in Seq(Message) /\ ms # <<>> /\ Len(ms) \in Nat /\ Len(ms) # 0
  BY EmptySeq, LenProperties DEF Ending
<1>2. \A i \in 1..Len(ms): ms[i] \in S
  <2> SUFFICES ASSUME NEW i \in 1..Len(ms) PROVE ms[i] \in S
    OBVIOUS
  <2>1. CASE i = Len(ms)
    BY <2>1 DEF Ending
  <2>2. CASE i # Len(ms)
    <3>1. i \in 1..(Len(ms) - 1)
      BY <1>1, <2>2
    <3> QED
      BY <3>1 DEF Ending
  <2> QED
    BY <2>1, <2>2
<1>3. ms \in [1..Len(ms) -> S]
  BY <1>1, <1>2, LenProperties
<1> QED
  BY <1>1, <1>3, SeqDef

(* Weaker sets, weaker lists.                                               *)
LEMMA EndingGrows ==
  ASSUME NEW P, NEW C, NEW Q, NEW D, P \subseteq Q, C \subseteq D
  PROVE  Ending(P, C) \subseteq Ending(Q, D)
BY DEF Ending

(* A message added to a list.                                               *)
LEMMA EndingAppend ==
  ASSUME NEW P, NEW C, P \subseteq Message, C \subseteq Message, NEW ms \in Seq(P), NEW m \in C
  PROVE  Append(ms, m) \in Ending(P, C)
<1>1. ms \in Seq(Message) /\ m \in Message
  BY SeqMonotonic
<1>2. /\ Append(ms, m) \in Seq(Message) /\ Append(ms, m) # <<>> /\ Len(Append(ms, m)) = Len(ms) + 1
      /\ \A i \in 1..Len(ms): Append(ms, m)[i] = ms[i]
      /\ Append(ms, m)[Len(ms) + 1] = m
  BY <1>1, AppendProperties
<1>3. Len(ms) \in Nat /\ \A i \in 1..Len(ms): ms[i] \in P
  BY LenProperties
<1>4. (Len(ms) + 1) - 1 = Len(ms)
  BY <1>3
<1> QED
  BY <1>2, <1>3, <1>4 DEF Ending

(* An update of the live generation changes the answer at the end.          *)
LEMMA EndingRun ==
  ASSUME NEW P, NEW C, NEW D, C \subseteq Message, D \subseteq Message, \A m \in C: m.from = "assistant",
         NEW ms \in Ending(P, C), NEW u, NEW g, u.gen = g, Changed(u, ms[Len(ms)]) \in D
  PROVE  /\ Run(ms, u, g) \in Ending(P, D)
         /\ Last(Run(ms, u, g)) = Changed(u, Last(ms))
<1> DEFINE n == Len(ms)
           c == Changed(u, ms[n])
           r == [ms EXCEPT ![n] = c]
<1>1. ms \in Seq(Message) /\ ms # <<>> /\ n \in Nat /\ n # 0 /\ n \in 1..n
  BY EmptySeq, LenProperties DEF Ending
<1>2. ms[n] \in C /\ c \in Message /\ c \in D
  BY DEF Ending
<1>3. Run(ms, u, g) = r
  BY <1>1, <1>2 DEF Run, Last
<1>4. r \in Seq(Message) /\ Len(r) = n /\ \A j \in 1..n: r[j] = IF j = n THEN c ELSE ms[j]
  <2> HIDE DEF c
  <2> QED
    BY <1>1, <1>2, ExceptSeq
<1>5. r # <<>>
  BY <1>1, <1>4, EmptySeq
<1>6. r[Len(r)] = c
  BY <1>1, <1>4
<1>7. \A i \in 1..(Len(r) - 1): r[i] \in P
  <2> SUFFICES ASSUME NEW i \in 1..(n - 1) PROVE r[i] \in P
    BY <1>4
  <2>1. i \in 1..n /\ i # n
    BY <1>1
  <2>2. ms[i] \in P
    BY DEF Ending
  <2> QED
    BY <1>4, <2>1, <2>2
<1> QED
  BY <1>2, <1>3, <1>4, <1>5, <1>6, <1>7 DEF Ending, Last

-----------------------------------------------------------------------------
(* The updates of the answer.                                               *)

(* Sequences of chunks of request g.                                        *)
ChunksOf(g) == {s \in Seq(Chunk): \A k \in DOMAIN s: s[k].req = g}

(* flushStreamUpdates: the buffered chunks are added to a live answer.      *)
LEMMA FlushKeeps ==
  ASSUME NEW ex, NEW a, NEW g \in Gens, a[g] \in 0..MaxChunks, NEW m \in Unfinished(ex, a, g),
         NEW chunks \in ChunksOf(g),
         g \notin ex => m.content \o chunks = Whole(g, a[g])
  PROVE  /\ Changed(Updater("flush", g, chunks), m) \in Unfinished(ex, a, g)
         /\ Changed(Updater("flush", g, chunks), m).content = m.content \o chunks
<1> DEFINE c == [m EXCEPT !.content = m.content \o chunks, !.status = "streaming"]
<1>1. m \in Message /\ m \in Fine(ex, a, g) /\ Pending(m) /\ m.from = "assistant" /\ m.req = g /\ m.req <= g
  BY DEF Unfinished, Current, Fine
<1>2. Changed(Updater("flush", g, chunks), m) = c
  BY <1>1 DEF Changed, Updater, Pending
<1>3. m.content \in Seq(Chunk) /\ chunks \in Seq(Chunk) /\ \A k \in DOMAIN chunks: chunks[k].req = g
  BY <1>1 DEF Message, ChunksOf
<1>4. /\ m.content \o chunks \in Seq(Chunk)
      /\ Len(m.content \o chunks) = Len(m.content) + Len(chunks)
      /\ \A i \in 1..(Len(m.content) + Len(chunks)):
           (m.content \o chunks)[i] = IF i <= Len(m.content) THEN m.content[i] ELSE chunks[i - Len(m.content)]
  BY <1>3, ConcatProperties
<1>5. /\ c \in Message /\ c.from = "assistant" /\ c.req = g /\ c.status = "streaming"
      /\ c.content = m.content \o chunks
  BY <1>1, <1>4 DEF Message, Status
<1>6. \A k \in DOMAIN (m.content \o chunks): (m.content \o chunks)[k].req = g
  <2> SUFFICES ASSUME NEW k \in 1..(Len(m.content) + Len(chunks)) PROVE (m.content \o chunks)[k].req = g
    BY <1>4, LenProperties
  <2>1. Len(m.content) \in Nat /\ DOMAIN m.content = 1..Len(m.content)
    BY <1>3, LenProperties
  <2>2. Len(chunks) \in Nat /\ DOMAIN chunks = 1..Len(chunks)
    BY <1>3, LenProperties
  <2>3. \A j \in DOMAIN m.content: m.content[j].req = g
    BY <1>1 DEF Fine
  <2>4. CASE k <= Len(m.content)
    <3>1. k \in DOMAIN m.content
      BY <2>1, <2>4
    <3> QED
      BY <1>4, <2>3, <2>4, <3>1
  <2>5. CASE ~(k <= Len(m.content))
    <3>1. k - Len(m.content) \in DOMAIN chunks
      BY <2>1, <2>2, <2>5
    <3> QED
      BY <1>3, <1>4, <2>5, <3>1
  <2> QED
    BY <2>4, <2>5
<1>7. g \notin ex => m.content \o chunks = Whole(g, Len(m.content \o chunks))
  <2>1. Len(Whole(g, a[g])) = a[g]
    BY WholeIs
  <2>2. g \notin ex => m.content \o chunks = Whole(g, a[g])
    OBVIOUS
  <2> QED
    BY <2>1, <2>2
<1> HIDE DEF c
<1>8. c \in Fine(ex, a, g)
  BY <1>1, <1>5, <1>6, <1>7 DEF Fine
<1> QED
  BY <1>2, <1>5, <1>8 DEF Unfinished, Current, Pending

(* handleStreamComplete: a live answer that has all its chunks is complete. *)
LEMMA CompleteKeeps ==
  ASSUME NEW ex, NEW d, NEW a, NEW g \in Gens, NEW m \in Unfinished(ex, a, g),
         g \notin ex => m.content = Whole(g, a[g])
  PROVE  Changed(Updater("complete", g, <<>>), m) \in Settled(ex, d, a, g)
<1> DEFINE c == [m EXCEPT !.status = "complete"]
<1>1. m \in Message /\ m \in Fine(ex, a, g) /\ Pending(m) /\ m.from = "assistant" /\ m.req = g
  BY DEF Unfinished, Current, Fine
<1>2. Changed(Updater("complete", g, <<>>), m) = c
  BY <1>1 DEF Changed, Updater
<1>3. /\ c \in Message /\ c.from = "assistant" /\ c.req = g /\ c.status = "complete"
      /\ c.content = m.content
  BY <1>1 DEF Message, Status
<1> HIDE DEF c
<1>4. c \in Fine(ex, a, g)
  BY <1>1, <1>3 DEF Fine
<1> QED
  BY <1>2, <1>3, <1>4 DEF Settled, Current, Pending

(* handleStreamError: the answer gives way to the error.                    *)
LEMMA ErrorKeeps ==
  ASSUME NEW ex, NEW d, NEW a, NEW g \in Gens, NEW m \in Unfinished(ex, a, g)
  PROVE  Changed(Updater("error", g, <<>>), m) \in Settled(ex, d, a, g)
<1> DEFINE c == [m EXCEPT !.content = <<>>, !.status = "error"]
<1>1. m \in Message /\ m \in Fine(ex, a, g) /\ m.from = "assistant" /\ m.req = g
  BY DEF Unfinished, Current, Fine
<1>2. Changed(Updater("error", g, <<>>), m) = c
  BY DEF Changed, Updater
<1>3. <<>> \in Seq(Chunk) /\ Len(<<>>) = 0 /\ DOMAIN <<>> = {}
  BY EmptySeq
<1>4. /\ c \in Message /\ c.from = "assistant" /\ c.req = g /\ c.status = "error"
      /\ c.content = <<>>
  BY <1>1, <1>3 DEF Message, Status
<1>5. <<>> = Whole(g, 0)
  <2>1. 0 \in 0..MaxChunks
    BY PlaygroundAssumption
  <2> QED
    BY <2>1, WholeIs, EmptySeq
<1> HIDE DEF c
<1>6. c \in Fine(ex, a, g)
  BY <1>1, <1>3, <1>4, <1>5 DEF Fine
<1> QED
  BY <1>2, <1>4, <1>6 DEF Settled, Current, Pending

(* A response that is not streamed brings the whole answer.                 *)
LEMMA ResponseKeeps ==
  ASSUME NEW ex, NEW d, NEW a, NEW g \in Gens, a[g] \in 0..MaxChunks, NEW m \in Unfinished(ex, a, g)
  PROVE  Changed(Updater("response", g, Whole(g, a[g])), m) \in Settled(ex, d, a, g)
<1> DEFINE w == Whole(g, a[g])
           c == [m EXCEPT !.content = w, !.status = "complete"]
<1>1. m \in Message /\ m \in Fine(ex, a, g) /\ m.from = "assistant" /\ m.req = g
  BY DEF Unfinished, Current, Fine
<1>2. Changed(Updater("response", g, w), m) = c
  BY DEF Changed, Updater
<1>3. /\ w \in Seq(Chunk) /\ w = Whole(g, Len(w)) /\ \A k \in DOMAIN w: w[k].req = g
  <2>1. w \in Seq(Chunk) /\ Len(w) = a[g] /\ DOMAIN w = 1..a[g] /\ \A k \in 1..a[g]: w[k].req = g
    BY WholeIs
  <2> QED
    BY <2>1
<1>4. w = Whole(g, a[g])
  OBVIOUS
<1> HIDE DEF w
<1>5. /\ c \in Message /\ c.from = "assistant" /\ c.req = g /\ c.status = "complete"
      /\ c.content = w
  BY <1>1, <1>3 DEF Message, Status
<1> HIDE DEF c
<1>6. c \in Fine(ex, a, g)
  BY <1>1, <1>3, <1>4, <1>5 DEF Fine
<1>7. c \in Settled(ex, d, a, g)
  BY <1>5, <1>6 DEF Settled, Current, Pending
<1> QED
  BY <1>2, <1>7 DEF w

(* stopGeneration: what was live is complete and counts as cut.             *)
LEMMA StopKeeps ==
  ASSUME NEW ex, NEW d, NEW a, NEW g \in Gens, NEW h, NEW m \in Current(ex, a, g)
  PROVE  Changed(Updater("stop", h, <<>>), m) \in Past(ex \cup {g}, d, a, g)
<1> DEFINE c == IF Pending(m) THEN [m EXCEPT !.status = "complete"] ELSE m
<1>1. m \in Message /\ m \in Fine(ex, a, g) /\ m.from = "assistant" /\ m.req = g
  BY DEF Current, Fine
<1>2. Changed(Updater("stop", h, <<>>), m) = c
  BY DEF Changed, Updater
<1>3. /\ c \in Message /\ c.from = "assistant" /\ c.req = g /\ ~Pending(c)
      /\ c.content = m.content
  BY <1>1 DEF Message, Status, Pending
<1> HIDE DEF c
<1>4. c \in Fine(ex \cup {g}, a, g)
  BY <1>1, <1>3 DEF Fine
<1> QED
  BY <1>2, <1>3, <1>4 DEF Past

-----------------------------------------------------------------------------
(* The inductive invariant.                                                 *)

(* Requests whose answer may be short.                                      *)
Ex == cut \cup dropped

(* The messages as they will be when React has run what is queued.          *)
Final == RunAll(messages, queue, gen)

Live == stream.stage # "none" \/ call # 0

(* A request is live only in an open page that shows it, and only under the *)
(* current generation; chunks are buffered and the flush timer is set only  *)
(* while a stream is live; a page at rest has nothing queued.               *)
Control ==
  /\ stream.stage # "none" => stream.gen = gen /\ mounted /\ requesting /\ call = 0
  /\ call # 0 => call = gen /\ mounted /\ requesting
  /\ timer # 0 => timer = gen /\ stream.stage # "none"
  /\ mounted /\ stream.stage = "none" => buf.chunks = <<>>
  /\ mounted => buf.gen = gen
  /\ mounted /\ (requesting \/ streaming) => shown.generating
  /\ ~mounted => ~dirty
  /\ mounted /\ ~shown.generating => queue = <<>> /\ messages = shown.messages

(* Buffered chunks and queued updates are of the current generation.        *)
Tagged ==
  /\ \A k \in DOMAIN buf.chunks: buf.chunks[k].req = buf.gen
  /\ mounted => \A k \in DOMAIN queue: queue[k].gen = gen

(* A page at rest: no message waits for anything.                           *)
Quiet == mounted /\ ~shown.generating => messages \in Seq(Past(Ex, dropped, answer, gen))

(* A page with a request: the list ends with its answer, in what was run,   *)
(* what is shown and what will be; the chunks of the answer and the         *)
(* buffered ones are what the server sent.                                  *)
Busy ==
  mounted /\ shown.generating =>
    /\ Live => {messages, shown.messages, Final} \subseteq
                  Ending(Earlier(Ex, dropped, answer, gen), Unfinished(Ex, answer, gen))
    /\ ~Live => /\ {messages, shown.messages} \subseteq
                      Ending(Earlier(Ex, dropped, answer, gen), Current(Ex, answer, gen))
                /\ Final \in Ending(Earlier(Ex, dropped, answer, gen), Settled(Ex, dropped, answer, gen))
    /\ stream.stage # "none" /\ gen \notin Ex => Last(Final).content \o buf.chunks = Whole(gen, answer[gen])

(* A stored list: what is pending at its end was cut.                       *)
Resting(ex, d, c, a, g) ==
  {ms \in Seq(Fine(ex, a, g)):
     \A i \in DOMAIN ms: Pending(ms[i]) /\ ms[i].req \notin d => i = Len(ms) /\ ms[i].req \in c}

(* A page that is left.                                                     *)
Away ==
  ~mounted => /\ messages \in Seq(Fine(Ex, answer, gen))
              /\ saved = Nil \/ saved \in Resting(Ex, dropped, cut, answer, gen)

(* With no save outstanding, what is stored is what there is.               *)
Stored == mounted /\ ~dirty => saved = Nil \/ saved = messages

(* Nothing was sent yet for the requests to come.                           *)
Fresh == \A g \in Gens: g > gen => answer[g] = 0

Inv == TypeOK /\ Control /\ Tagged /\ Fresh /\ Quiet /\ Busy /\ Away /\ Stored

(* The parts of the type that the proofs use most.                          *)
LEMMA Types ==
  ASSUME TypeOK
  PROVE  /\ MaxGen \in Nat /\ MaxChunks \in Nat /\ MaxOps \in Nat
         /\ gen \in Gens /\ gen \in Nat
         /\ answer[gen] \in 0..MaxChunks
         /\ Len(queue) \in Nat /\ DOMAIN queue = 1..Len(queue)
         /\ buf.chunks \in Seq(Chunk) /\ buf.gen \in Gens
         /\ shown.messages \in Seq(Message)
<1>1. MaxGen \in Nat /\ MaxChunks \in Nat /\ MaxOps \in Nat
  BY PlaygroundAssumption
<1>2. gen \in Gens /\ gen \in Nat
  BY <1>1 DEF TypeOK, Gens
<1>3. answer[gen] \in 0..MaxChunks
  BY <1>2 DEF TypeOK
<1>4. Len(queue) \in Nat /\ DOMAIN queue = 1..Len(queue)
  BY LenProperties DEF TypeOK
<1> QED
  BY <1>1, <1>2, <1>3, <1>4 DEF TypeOK

(* The next generation, when there may be one.                              *)
LEMMA NextGen ==
  ASSUME TypeOK, gen < MaxGen
  PROVE  gen \in Nat /\ gen + 1 \in Gens /\ gen + 1 \in Nat /\ gen + 1 # 0 /\ 0 \in Gens
BY Types DEF Gens

(* An empty page.                                                           *)
LEMMA InitInv == Init => Inv
<1> SUFFICES ASSUME Init PROVE Inv
  OBVIOUS
<1>1. TypeOK
  BY PlaygroundAssumption, EmptySeq DEF Init, TypeOK, Gens, NoStream, NoChunks
<1>2. Control
  BY DEF Init, Control, NoStream, NoChunks
<1>3. Tagged
  BY DEF Init, Tagged, NoChunks
<1>4. Fresh /\ Quiet /\ Busy /\ Stored
  BY DEF Init, Fresh, Quiet, Busy, Stored
<1>5. Away
  BY EmptySeq DEF Init, Away
<1> QED
  BY <1>1, <1>2, <1>3, <1>4, <1>5 DEF Inv

-----------------------------------------------------------------------------
(* setMessages.                                                             *)

(* An update is run now or queued: it comes after what is queued already.   *)
LEMMA EnqueueOne ==
  ASSUME TypeOK, NEW u \in Update, Enqueue(<<u>>)
  PROVE  /\ RunAll(messages', queue', gen) = Run(Final, u, gen)
         /\ messages' = messages \/ messages' = Run(Final, u, gen)
         /\ dirty' \in BOOLEAN /\ (dirty \/ messages' # messages => dirty')
         /\ queue' \in Seq(Update)
         /\ u.gen = gen /\ (\A k \in DOMAIN queue: queue[k].gen = gen) => \A k \in DOMAIN queue': queue'[k].gen = gen
<1>1. CASE queue' = queue \o <<u>> /\ UNCHANGED <<messages, dirty>>
  <2>1. queue' = Append(queue, u) /\ queue \in Seq(Update)
    BY <1>1, AppendIsConcat DEF TypeOK
  <2>2. /\ queue' \in Seq(Update) /\ Len(queue') = Len(queue) + 1
        /\ \A i \in 1..Len(queue): queue'[i] = queue[i]
        /\ queue'[Len(queue) + 1] = u
    BY <2>1, AppendProperties
  <2>3. RunAll(messages', queue', gen) = Run(Final, u, gen)
    <3>1. RunAll(messages, Append(queue, u), gen) = Run(RunAll(messages, queue, gen), u, gen)
      BY <2>1, RunOneMore
    <3> QED
      BY <1>1, <2>1, <3>1 DEF Final
  <2>4. ASSUME u.gen = gen, \A k \in DOMAIN queue: queue[k].gen = gen, NEW k \in DOMAIN queue'
        PROVE  queue'[k].gen = gen
    <3>1. k \in 1..(Len(queue) + 1) /\ Len(queue) \in Nat
      BY <2>2, Types, LenProperties
    <3>2. k \in DOMAIN queue \/ k = Len(queue) + 1
      BY <3>1, Types
    <3> QED
      BY <2>2, <2>4, <3>2, Types
  <2> QED
    BY <1>1, <2>2, <2>3, <2>4 DEF TypeOK
<1>2. CASE queue = <<>> /\ messages' = Run(messages, u, gen) /\ queue' = <<>> /\ dirty' = TRUE
  <2>1. Final = messages /\ RunAll(messages', queue', gen) = messages'
    BY <1>2, RunNothing DEF Final
  <2> QED
    BY <1>2, <2>1, EmptySeq
<1>3. Head(<<u>>) = u /\ Tail(<<u>>) = <<>>
  OBVIOUS
<1> QED
  BY <1>1, <1>2, <1>3 DEF Enqueue

(* Two updates at once: only the first may be run now.                      *)
LEMMA EnqueueTwo ==
  ASSUME TypeOK, NEW u \in Update, NEW v \in Update, Enqueue(<<u>> \o <<v>>)
  PROVE  /\ RunAll(messages', queue', gen) = Run(Run(Final, u, gen), v, gen)
         /\ messages' = messages \/ messages' = Run(Final, u, gen)
         /\ dirty' \in BOOLEAN /\ (dirty \/ messages' # messages => dirty')
         /\ queue' \in Seq(Update)
         /\ u.gen = gen /\ v.gen = gen /\ (\A k \in DOMAIN queue: queue[k].gen = gen)
              => \A k \in DOMAIN queue': queue'[k].gen = gen
<1>1. CASE queue' = queue \o (<<u>> \o <<v>>) /\ UNCHANGED <<messages, dirty>>
  <2>1. queue \in Seq(Update) /\ <<u>> \in Seq(Update) /\ <<v>> \in Seq(Update)
    BY DEF TypeOK
  <2>2. queue' = (queue \o <<u>>) \o <<v>>
    BY <1>1, <2>1, ConcatAssociative
  <2> DEFINE q == Append(queue, u)
  <2>3. q = queue \o <<u>> /\ q \in Seq(Update)
    BY <2>1, AppendIsConcat, AppendProperties
  <2>4. queue' = Append(q, v)
    <3> HIDE DEF q
    <3> QED
      BY <2>2, <2>3, AppendIsConcat
  <2>5. /\ Len(q) = Len(queue) + 1 /\ \A i \in 1..Len(queue): q[i] = queue[i]
        /\ q[Len(queue) + 1] = u
    BY <2>1, AppendProperties
  <2>6. RunAll(messages, q, gen) = Run(Final, u, gen)
    BY <2>1, RunOneMore DEF Final
  <2> HIDE DEF q
  <2>7. /\ queue' \in Seq(Update) /\ Len(queue') = Len(q) + 1
        /\ \A i \in 1..Len(q): queue'[i] = q[i]
        /\ queue'[Len(q) + 1] = v
    BY <2>3, <2>4, AppendProperties
  <2>8. RunAll(messages', queue', gen) = Run(Run(Final, u, gen), v, gen)
    <3>1. RunAll(messages, Append(q, v), gen) = Run(RunAll(messages, q, gen), v, gen)
      BY <2>3, RunOneMore
    <3> QED
      BY <1>1, <2>4, <2>6, <3>1
  <2>9. ASSUME u.gen = gen, v.gen = gen, \A k \in DOMAIN queue: queue[k].gen = gen, NEW k \in DOMAIN queue'
        PROVE  queue'[k].gen = gen
    <3>1. k \in 1..(Len(queue) + 2) /\ Len(queue) \in Nat
      BY <2>5, <2>7, Types, LenProperties
    <3>2. k \in DOMAIN queue \/ k = Len(queue) + 1 \/ k = Len(queue) + 2
      BY <3>1, Types
    <3>3. CASE k \in DOMAIN queue
      BY <2>5, <2>7, <2>9, <3>1, <3>3, Types
    <3>4. CASE k = Len(queue) + 1
      BY <2>5, <2>7, <2>9, <3>1, <3>4
    <3>5. CASE k = Len(queue) + 2
      BY <2>5, <2>7, <2>9, <3>1, <3>5
    <3> QED
      BY <3>2, <3>3, <3>4, <3>5
  <2> QED
    BY <1>1, <2>7, <2>8, <2>9 DEF TypeOK
<1>2. CASE queue = <<>> /\ messages' = Run(messages, u, gen) /\ queue' = <<v>> /\ dirty' = TRUE
  <2>1. Final = messages
    BY <1>2, RunNothing DEF Final
  <2>2. queue' = Append(<<>>, v) /\ <<>> \in Seq(Update) /\ queue' \in Seq(Update)
    BY <1>2
  <2>3. RunAll(messages', queue', gen) = Run(messages', v, gen)
    <3>1. RunAll(messages', Append(<<>>, v), gen) = Run(RunAll(messages', <<>>, gen), v, gen)
      BY <2>2, RunOneMore
    <3>2. RunAll(messages', <<>>, gen) = messages'
      BY RunNothing
    <3> QED
      BY <2>2, <3>1, <3>2
  <2>4. \A k \in DOMAIN queue': queue'[k] = v
    BY <1>2
  <2> QED
    BY <1>2, <2>1, <2>2, <2>3, <2>4
<1>3. Head(<<u>> \o <<v>>) = u /\ Tail(<<u>> \o <<v>>) = <<v>>
  <2>1. <<u>> \in Seq(Update) /\ <<u>> # <<>> /\ Head(<<u>>) = u /\ Tail(<<u>>) = <<>> /\ Append(<<>>, v) = <<v>>
    OBVIOUS
  <2>2. <<u>> \o <<v>> = Append(<<u>>, v)
    BY <2>1, AppendIsConcat
  <2> QED
    BY <2>1, <2>2, HeadTailAppend
<1> QED
  BY <1>1, <1>2, <1>3 DEF Enqueue

-----------------------------------------------------------------------------
(* The actions that leave the lists alone.                                  *)

(* Whether the request is live or not, the three lists end with its answer. *)
LEMMA BusyLists ==
  ASSUME Busy, mounted, shown.generating
  PROVE  {messages, shown.messages, Final} \subseteq
           Ending(Earlier(Ex, dropped, answer, gen), Current(Ex, answer, gen))
<1>1. /\ Unfinished(Ex, answer, gen) \subseteq Current(Ex, answer, gen)
      /\ Settled(Ex, dropped, answer, gen) \subseteq Current(Ex, answer, gen)
  BY Inclusions
<1> DEFINE E == Earlier(Ex, dropped, answer, gen)
<1>2. /\ Ending(E, Unfinished(Ex, answer, gen)) \subseteq Ending(E, Current(Ex, answer, gen))
      /\ Ending(E, Settled(Ex, dropped, answer, gen)) \subseteq Ending(E, Current(Ex, answer, gen))
  BY <1>1, EndingGrows
<1> QED
  BY <1>2 DEF Busy

(* What is said of the lists depends on these variables only.               *)
LEMMA SameLists ==
  ASSUME UNCHANGED <<mounted, gen, stream, call, buf, messages, queue, shown, answer, cut, dropped>>
  PROVE  /\ Tagged => Tagged'
         /\ Fresh => Fresh'
         /\ Quiet => Quiet'
         /\ Busy => Busy'
<1>1. Ex' = Ex /\ Final' = Final /\ Live' = Live
  BY DEF Ex, Final, Live
<1>2. Tagged => Tagged'
  BY DEF Tagged
<1>3. Fresh => Fresh'
  BY DEF Fresh
<1>4. Quiet => Quiet'
  BY <1>1 DEF Quiet
<1>5. Busy => Busy'
  BY <1>1 DEF Busy
<1> QED
  BY <1>2, <1>3, <1>4, <1>5

(* A step that changes nothing.                                             *)
LEMMA StutterInv ==
  ASSUME Inv, UNCHANGED vars
  PROVE  Inv'
<1> USE DEF Inv, vars
<1>1. TypeOK'
  BY DEF TypeOK
<1>2. Control'
  BY DEF Control
<1>3. Tagged' /\ Fresh' /\ Quiet' /\ Busy'
  BY SameLists
<1>4. Away'
  BY DEF Away, Ex
<1>5. Stored'
  BY DEF Stored
<1> QED
  BY <1>1, <1>2, <1>3, <1>4, <1>5

(* handleEditMessage.                                                       *)
LEMMA EditMessageInv ==
  ASSUME Inv, NEW i \in DOMAIN shown.messages, EditMessage(i)
  PROVE  Inv'
<1> USE DEF Inv, EditMessage, Unedited
<1>1. TypeOK'
  <2>1. shown.messages[i] \in Message
    BY Types, LenProperties
  <2>2. editing' \in {"user", "assistant"} \X Gens
    BY <2>1 DEF Key, Message
  <2>3. ops' \in 0..MaxOps
    BY Types DEF Operation, TypeOK
  <2> QED
    BY <2>2, <2>3 DEF TypeOK
<1>2. Control'
  BY DEF Control
<1>3. Tagged' /\ Fresh' /\ Quiet' /\ Busy'
  BY SameLists
<1>4. Away'
  BY DEF Away, Ex
<1>5. Stored'
  BY DEF Stored
<1> QED
  BY <1>1, <1>2, <1>3, <1>4, <1>5

(* Closing the editor touches neither the list nor the request.             *)
LEMMA CancelEditInv ==
  ASSUME Inv, CancelEdit
  PROVE  Inv'
<1> USE DEF Inv, CancelEdit, Unedited
<1>1. TypeOK'
  BY DEF TypeOK
<1>2. Control'
  BY DEF Control
<1>3. Tagged' /\ Fresh' /\ Quiet' /\ Busy'
  BY SameLists
<1>4. Away'
  BY DEF Away, Ex
<1>5. Stored'
  BY DEF Stored
<1> QED
  BY <1>1, <1>2, <1>3, <1>4, <1>5

(* The save timer.                                                          *)
LEMMA SaveMessagesInv ==
  ASSUME Inv, SaveMessages
  PROVE  Inv'
<1> USE DEF Inv, SaveMessages
<1>1. TypeOK'
  BY DEF TypeOK
<1>2. Control'
  BY DEF Control
<1>3. Tagged' /\ Fresh' /\ Quiet' /\ Busy'
  BY SameLists
<1>4. mounted
  BY DEF Control
<1>5. Away'
  BY <1>4 DEF Away
<1>6. Stored'
  BY DEF Stored
<1> QED
  BY <1>1, <1>2, <1>3, <1>5, <1>6

(* Signing out clears what is stored and leaves the mounted chat as it is.  *)
LEMMA SignOutInv ==
  ASSUME Inv, SignOut
  PROVE  Inv'
<1> USE DEF Inv, SignOut
<1>1. TypeOK'
  <2>1. ops' \in 0..MaxOps
    BY Types DEF Operation, TypeOK
  <2> QED
    BY <2>1 DEF TypeOK
<1>2. Control'
  BY DEF Control
<1>3. Tagged' /\ Fresh' /\ Quiet' /\ Busy'
  BY SameLists
<1>4. Away'
  BY DEF Away, Ex
<1>5. Stored'
  BY DEF Stored
<1> QED
  BY <1>1, <1>2, <1>3, <1>4, <1>5

(* Somebody signs in, on a page where the chat is not mounted.              *)
LEMMA SignInInv ==
  ASSUME Inv, NEW u \in Users, SignIn(u)
  PROVE  Inv'
<1> USE DEF Inv, SignIn
<1>1. TypeOK'
  BY DEF TypeOK
<1>2. Control'
  BY DEF Control
<1>3. Tagged' /\ Fresh' /\ Quiet' /\ Busy'
  BY SameLists
<1>4. Away'
  BY DEF Away, Ex
<1>5. Stored'
  BY DEF Stored
<1> QED
  BY <1>1, <1>2, <1>3, <1>4, <1>5

(* The event source is opened.                                              *)
LEMMA HeadersReadyInv ==
  ASSUME Inv, HeadersReady
  PROVE  Inv'
<1> USE DEF Inv, HeadersReady
<1>1. /\ stream' \in [gen: Gens, stage: {"none", "headers", "open"}]
      /\ stream.stage # "none" /\ stream'.stage # "none" /\ stream'.gen = stream.gen
  BY DEF TypeOK
<1>2. TypeOK'
  BY <1>1 DEF TypeOK
<1>3. Control'
  BY <1>1 DEF Control
<1>4. Tagged' /\ Fresh'
  BY DEF Tagged, Fresh
<1>5. Ex' = Ex /\ Final' = Final /\ Live' /\ Live
  BY <1>1 DEF Ex, Final, Live
<1>6. Quiet'
  BY <1>5 DEF Quiet
<1>7. Busy'
  BY <1>1, <1>5 DEF Busy
<1>8. Away'
  BY <1>5 DEF Away
<1>9. Stored'
  BY DEF Stored
<1> QED
  BY <1>2, <1>3, <1>4, <1>6, <1>7, <1>8, <1>9

-----------------------------------------------------------------------------
(* A render.                                                                *)

(* The list of a request that is over has nothing left to wait for.         *)
LEMMA EndingIsPast ==
  ASSUME NEW ex, NEW d, NEW a, NEW g, NEW ms \in Ending(Earlier(ex, d, a, g), Settled(ex, d, a, g))
  PROVE  ms \in Seq(Past(ex, d, a, g))
<1>1. Earlier(ex, d, a, g) \subseteq Past(ex, d, a, g) /\ Settled(ex, d, a, g) \subseteq Past(ex, d, a, g)
  BY Inclusions
<1> QED
  BY <1>1, EndingIsSeq

(* React runs what is queued: the messages become what they had to become.  *)
LEMMA RenderInv ==
  ASSUME Inv, Render
  PROVE  Inv'
<1> USE DEF Inv
<1>1. /\ mounted /\ mounted' /\ messages' = Final /\ queue' = <<>> /\ shown'.messages = Final
      /\ shown'.generating = (requesting \/ streaming) /\ shown'.generating \in BOOLEAN
      /\ shown' = [messages |-> Final, generating |-> requesting \/ streaming]
      /\ UNCHANGED <<gen, stream, call, buf, timer, requesting, streaming, saved, answer, cut, dropped>>
  BY DEF Render, Final
<1>2. Ex' = Ex /\ Live' = Live /\ Final' = Final
  BY <1>1, RunNothing DEF Ex, Live, Final
<1>3. ~shown.generating => Final = messages /\ ~requesting /\ ~streaming
  BY <1>1, RunNothing DEF Control, Final
<1>4. Final \in Seq(Message)
  <2>1. CASE ~shown.generating
    BY <1>3, <2>1 DEF TypeOK
  <2>2. CASE shown.generating
    <3>1. Final \in Ending(Earlier(Ex, dropped, answer, gen), Current(Ex, answer, gen))
      BY <1>1, <2>2, BusyLists
    <3> QED
      BY <3>1 DEF Ending
  <2> QED
    BY <2>1, <2>2
<1>5. TypeOK'
  <2>1. messages' \in Seq(Message) /\ queue' \in Seq(Update)
    BY <1>1, <1>4, EmptySeq
  <2>2. shown' \in [messages: Seq(Message), generating: BOOLEAN]
    BY <1>1, <1>4
  <2>3. dirty' \in BOOLEAN
    BY DEF Render
  <2> QED
    BY <2>1, <2>2, <2>3 DEF TypeOK, Render
<1>6. Control'
  BY <1>1 DEF Control
<1>7. Tagged' /\ Fresh'
  BY <1>1 DEF Tagged, Fresh
<1>8. Quiet'
  <2> SUFFICES ASSUME ~shown'.generating PROVE messages' \in Seq(Past(Ex, dropped, answer, gen))
    BY <1>1, <1>2 DEF Quiet
  <2>1. CASE ~shown.generating
    BY <1>1, <1>3, <2>1 DEF Quiet
  <2>2. CASE shown.generating
    <3>1. ~Live
      BY <1>1 DEF Live, Control
    <3> QED
      BY <1>1, <2>2, <3>1, EndingIsPast DEF Busy
  <2> QED
    BY <2>1, <2>2
<1>9. Busy'
  <2> SUFFICES ASSUME shown'.generating PROVE Busy'
    BY DEF Busy
  <2>1. shown.generating
    BY <1>1, <1>3
  <2>2. Final \in Ending(Earlier(Ex, dropped, answer, gen), Current(Ex, answer, gen))
    BY <1>1, <2>1, BusyLists
  <2> QED
    BY <1>1, <1>2, <2>1, <2>2 DEF Busy
<1>10. Away'
  BY <1>1 DEF Away
<1>11. Stored'
  <2> SUFFICES ASSUME ~dirty' PROVE saved' = Nil \/ saved' = messages'
    BY DEF Stored
  <2>1. ~dirty /\ queue = <<>>
    BY DEF Render
  <2>2. messages' = messages
    BY <1>1, <2>1, RunNothing DEF Final
  <2> QED
    BY <1>1, <2>1, <2>2 DEF Stored
<1> QED
  BY <1>5, <1>6, <1>7, <1>8, <1>9, <1>10, <1>11

-----------------------------------------------------------------------------
(* The user.                                                                *)

(* The new message of a request, empty and waiting.                         *)
LEMMA LoadingIs ==
  ASSUME user \in Users, NEW ex, NEW a, NEW g \in Gens
  PROVE  Loading(g) \in Unfinished(ex, a, g) /\ Loading(g).content = <<>>
<1> DEFINE m == Loading(g)
<1>1. <<>> \in Seq(Chunk) /\ Len(<<>>) = 0 /\ DOMAIN <<>> = {}
  BY EmptySeq
<1>2. /\ m \in Message /\ m.from = "assistant" /\ m.req = g /\ m.status = "loading" /\ m.content = <<>>
  BY <1>1 DEF Loading, NewMessage, Message, Status
<1>3. <<>> = Whole(g, 0)
  <2>1. 0 \in 0..MaxChunks
    BY PlaygroundAssumption
  <2> QED
    BY <2>1, WholeIs, EmptySeq
<1>4. g <= g
  BY PlaygroundAssumption DEF Gens
<1> HIDE DEF m
<1>5. m \in Fine(ex, a, g)
  BY <1>1, <1>2, <1>3, <1>4 DEF Fine
<1>6. m \in Unfinished(ex, a, g)
  BY <1>2, <1>5 DEF Unfinished, Current, Pending
<1> QED
  BY <1>2, <1>6 DEF m

(* sendChat: the list it sends and the new message are all there is.        *)
LEMMA SendChatInv ==
  ASSUME Inv, CanUse, NEW ms, SendChat(ms),
         editing' = Nil \/ editing' \in {"user", "assistant"} \X Gens,
         cut' = cut, dropped \subseteq dropped', dropped' \subseteq Gens,
         ms \in Seq(Earlier(cut' \cup dropped', dropped', answer, gen + 1))
  PROVE  Inv'
<1> USE DEF Inv
<1>1. /\ mounted /\ mounted' /\ gen' = gen + 1 /\ queue' = <<>> /\ dirty' = TRUE
      /\ messages' = Append(ms, Loading(gen + 1))
      /\ shown' = [messages |-> messages', generating |-> TRUE]
      /\ shown'.messages = messages' /\ shown'.generating = TRUE
      /\ buf' = [gen |-> gen + 1, chunks |-> <<>>] /\ buf'.gen = gen + 1 /\ buf'.chunks = <<>>
      /\ timer' = 0 /\ requesting' = TRUE /\ streaming' = FALSE
      /\ UNCHANGED <<ops, user, saved, answer, done>>
  BY DEF SendChat, CanUse, Replaced, Discarded, NoChunks
<1>2. \/ stream' = [gen |-> gen + 1, stage |-> "headers"] /\ call' = 0
      \/ stream' = [gen |-> 0, stage |-> "none"] /\ call' = gen + 1
  BY DEF SendChat, NoStream
<1>3. gen + 1 \in Gens /\ gen + 1 \in Nat /\ gen + 1 # 0 /\ 0 \in Gens /\ user \in Users
  <2>1. user \in Users
    BY DEF CanUse, TypeOK
  <2>2. gen < MaxGen
    BY DEF SendChat
  <2> QED
    BY <2>1, <2>2, NextGen
<1> DEFINE E == Earlier(Ex', dropped', answer, gen + 1)
           U == Unfinished(Ex', answer, gen + 1)
<1>4. E \subseteq Message /\ U \subseteq Message
  BY Inclusions
<1>5. Loading(gen + 1) \in U /\ Loading(gen + 1).content = <<>>
  BY <1>3, LoadingIs
<1>6. ms \in Seq(E)
  BY DEF Ex
<1>7. messages' \in Ending(E, U) /\ messages' \in Seq(Message)
  <2>1. Append(ms, Loading(gen + 1)) \in Ending(E, U)
    <3> HIDE DEF E, U
    <3> QED
      BY <1>4, <1>5, <1>6, EndingAppend
  <2> QED
    BY <1>1, <2>1 DEF Ending
<1>8. Last(messages') = Loading(gen + 1)
  <2>1. ms \in Seq(Message) /\ Loading(gen + 1) \in Message
    BY <1>4, <1>5, <1>6, SeqMonotonic
  <2> QED
    BY <1>1, <2>1, AppendProperties DEF Last
<1>9. Final' = messages'
  BY <1>1, RunNothing DEF Final
<1>10. Live'
  BY <1>2, <1>3 DEF Live
<1>11. TypeOK'
  <2>1. stream' \in [gen: Gens, stage: {"none", "headers", "open"}] /\ call' \in Gens /\ timer' \in Gens
    BY <1>1, <1>2, <1>3
  <2>2. buf' \in [gen: Gens, chunks: Seq(Chunk)]
    BY <1>1, <1>3, EmptySeq
  <2>3. queue' \in Seq(Update) /\ shown' \in [messages: Seq(Message), generating: BOOLEAN]
    BY <1>1, <1>7, EmptySeq
  <2> QED
    BY <1>1, <1>3, <1>7, <2>1, <2>2, <2>3 DEF TypeOK
<1>12. Control'
  BY <1>1, <1>2, <1>3 DEF Control
<1>13. Tagged'
  BY <1>1 DEF Tagged
<1>14. Fresh'
  <2> SUFFICES ASSUME NEW g \in Gens, g > gen + 1 PROVE answer[g] = 0
    BY <1>1 DEF Fresh
  <2>1. g > gen
    BY Types DEF Gens
  <2> QED
    BY <2>1 DEF Fresh
<1>15. Quiet' /\ Away' /\ Stored'
  BY <1>1 DEF Quiet, Away, Stored
<1>16. Busy'
  <2>1. {messages', shown'.messages, Final'} \subseteq Ending(E, U)
    BY <1>1, <1>7, <1>9
  <2>2. Last(Final').content \o buf'.chunks = Whole(gen + 1, answer[gen + 1])
    <3>1. answer[gen + 1] = 0
      BY <1>3, Types DEF Fresh
    <3>2. Last(Final').content = <<>> /\ <<>> \o <<>> = <<>>
      BY <1>5, <1>8, <1>9
    <3>3. 0 \in 0..MaxChunks
      BY Types
    <3>4. Whole(gen + 1, 0) \in Seq(Chunk) /\ Len(Whole(gen + 1, 0)) = 0
      BY <1>3, <3>3, WholeIs
    <3>5. Whole(gen + 1, 0) = <<>>
      BY <3>4, EmptySeq
    <3> QED
      BY <1>1, <3>1, <3>2, <3>5
  <2> QED
    BY <1>1, <1>10, <2>1, <2>2 DEF Busy
<1> QED
  BY <1>11, <1>12, <1>13, <1>14, <1>15, <1>16

(* A message of the user that no request is waiting for.                    *)
LEMMA PromptIs ==
  ASSUME user \in Users, NEW ex, NEW d, NEW a, NEW g \in Gens
  PROVE  Prompt(g) \in Earlier(ex, d, a, g)
<1> DEFINE m == Prompt(g)
           c == [req |-> g, n |-> 0]
<1>1. 0 \in 0..MaxChunks /\ g <= g
  BY PlaygroundAssumption DEF Gens
<1>2. c \in Chunk /\ c.req = g
  BY <1>1 DEF Chunk
<1>3. <<c>> \in Seq(Chunk) /\ \A k \in DOMAIN <<c>>: <<c>>[k].req = g
  BY <1>2
<1>4. /\ m \in Message /\ m.from = "user" /\ m.req = g /\ m.status = "complete" /\ m.content = <<c>>
  BY <1>3 DEF Prompt, NewMessage, Message, Status, Typed
<1> HIDE DEF m, c
<1>5. m \in Fine(ex, a, g)
  BY <1>1, <1>3, <1>4 DEF Fine
<1>6. m \in Earlier(ex, d, a, g)
  BY <1>4, <1>5 DEF Earlier, Past, Pending
<1> QED
  BY <1>6 DEF m

(* handleSendMessage.                                                       *)
LEMMA SendMessageInv ==
  ASSUME Inv, SendMessage
  PROVE  Inv'
<1> USE DEF Inv
<1> DEFINE E == Earlier(Ex, dropped, answer, gen + 1)
           ms == Append(shown.messages, Prompt(gen + 1))
<1>1. CanUse /\ ~shown.generating /\ SendChat(ms) /\ UNCHANGED <<editing, cut, dropped>>
  BY DEF SendMessage
<1>2. gen \in Nat /\ gen + 1 \in Gens /\ user \in Users
  <2>1. user \in Users
    BY <1>1 DEF CanUse, TypeOK
  <2>2. gen < MaxGen
    BY <1>1 DEF SendChat
  <2> QED
    BY <2>1, <2>2, NextGen
<1>3. shown.messages \in Seq(Past(Ex, dropped, answer, gen))
  BY <1>1 DEF CanUse, Control, Quiet
<1>4. shown.messages \in Seq(E)
  BY <1>2, <1>3, PastIsEarlier, SeqMonotonic
<1>5. Prompt(gen + 1) \in E
  BY <1>2, PromptIs
<1>6. ms \in Seq(E)
  <2> HIDE DEF E
  <2> QED
    BY <1>4, <1>5, AppendProperties
<1>7. /\ dropped \subseteq dropped' /\ dropped' \subseteq Gens /\ cut' = cut
      /\ editing' = Nil \/ editing' \in {"user", "assistant"} \X Gens
  BY <1>1 DEF TypeOK
<1>8. ms \in Seq(Earlier(cut' \cup dropped', dropped', answer, gen + 1))
  BY <1>1, <1>6 DEF Ex
<1> HIDE DEF ms, Inv
<1> QED
  BY <1>1, <1>7, <1>8, SendChatInv

(* What is above a message, with it when it is the user's.                  *)
LEMMA UpToKeeps ==
  ASSUME NEW S, NEW ms \in Seq(Message), NEW i \in DOMAIN ms,
         \A j \in 1..(IF ms[i].from = "user" THEN i ELSE i - 1): ms[j] \in S
  PROVE  UpTo(ms, i) \in Seq(S)
<1> DEFINE n == IF ms[i].from = "user" THEN i ELSE i - 1
<1>1. i \in 1..Len(ms) /\ Len(ms) \in Nat
  BY LenProperties
<1>2. n \in Int /\ 1 \in Int
  BY <1>1
<1>3. \A j \in 1..n: ms[j] \in S
  OBVIOUS
<1>4. UpTo(ms, i) = SubSeq(ms, 1, n)
  BY DEF UpTo
<1> HIDE DEF n
<1> QED
  BY <1>2, <1>3, <1>4, SubSeqProperties

(* handleRegenerateMessage.                                                 *)
LEMMA RegenerateMessageInv ==
  ASSUME Inv, NEW i \in DOMAIN shown.messages, RegenerateMessage(i)
  PROVE  Inv'
<1> USE DEF Inv
<1> DEFINE E == Earlier(Ex, dropped, answer, gen + 1)
           ms == UpTo(shown.messages, i)
<1>1. CanUse /\ ~shown.generating /\ SendChat(ms) /\ UNCHANGED <<editing, cut, dropped>>
  BY DEF RegenerateMessage
<1>2. gen \in Nat /\ shown.messages \in Seq(Message)
  BY Types
<1>3. shown.messages \in Seq(Past(Ex, dropped, answer, gen))
  BY <1>1 DEF CanUse, Control, Quiet
<1>4. shown.messages \in Seq(E)
  BY <1>2, <1>3, PastIsEarlier, SeqMonotonic
<1>5. \A j \in 1..(IF shown.messages[i].from = "user" THEN i ELSE i - 1): shown.messages[j] \in E
  <2> HIDE DEF E
  <2>1. i \in 1..Len(shown.messages) /\ Len(shown.messages) \in Nat
    BY <1>2, LenProperties
  <2>2. \A j \in 1..Len(shown.messages): shown.messages[j] \in E
    BY <1>4, ElementOfSeq
  <2> QED
    BY <2>1, <2>2
<1>6. ms \in Seq(E)
  <2> HIDE DEF E
  <2> QED
    BY <1>2, <1>5, UpToKeeps
<1>7. /\ dropped \subseteq dropped' /\ dropped' \subseteq Gens /\ cut' = cut
      /\ editing' = Nil \/ editing' \in {"user", "assistant"} \X Gens
  BY <1>1 DEF TypeOK
<1>8. ms \in Seq(Earlier(cut' \cup dropped', dropped', answer, gen + 1))
  BY <1>1, <1>6 DEF Ex
<1> HIDE DEF ms, Inv
<1> QED
  BY <1>1, <1>7, <1>8, SendChatInv

(* The message with the text the user gave it.                              *)
Retyped(m) == [m EXCEPT !.content = Typed(m.req)]

(* A message with another text: an edited answer counts as cut.             *)
LEMMA EditedMessage ==
  ASSUME NEW ex, NEW ex2, ex \subseteq ex2, NEW a, NEW g \in Nat, NEW m \in Fine(ex, a, g),
         m.from = "assistant" => m.req \in ex2
  PROVE  /\ Retyped(m) \in Fine(ex2, a, g)
         /\ Retyped(m).from = m.from /\ Retyped(m).req = m.req /\ Retyped(m).status = m.status
<1> DEFINE c == [req |-> m.req, n |-> 0]
           e == Retyped(m)
<1>1. m \in Message /\ m.req \in Gens /\ m.req <= g
  BY DEF Fine, Message
<1>2. c \in Chunk /\ c.req = m.req
  <2>1. 0 \in 0..MaxChunks
    BY PlaygroundAssumption
  <2> QED
    BY <1>1, <2>1 DEF Chunk
<1>3. <<c>> \in Seq(Chunk) /\ \A k \in DOMAIN <<c>>: <<c>>[k].req = m.req
  BY <1>2
<1>4. Typed(m.req) = <<c>>
  BY DEF Typed
<1>5. e \in Message /\ e.from = m.from /\ e.req = m.req /\ e.status = m.status /\ e.content = <<c>>
  BY <1>1, <1>3, <1>4 DEF Message, Retyped
<1> HIDE DEF e, c
<1>6. e \in Fine(ex2, a, g)
  BY <1>1, <1>3, <1>5 DEF Fine
<1> QED
  BY <1>5, <1>6 DEF e

(* An edited message is where it was.                                       *)
LEMMA EditedSets ==
  ASSUME NEW ex, NEW ex2, ex \subseteq ex2, NEW d, NEW d2, d \subseteq d2, NEW a, NEW g \in Nat, NEW m,
         m.from = "assistant" => m.req \in ex2
  PROVE  LET e == Retyped(m)
         IN /\ m \in Past(ex, d, a, g) => e \in Past(ex2, d2, a, g)
            /\ m \in Earlier(ex, d, a, g) => e \in Earlier(ex2, d2, a, g)
            /\ m \in Current(ex, a, g) => e \in Current(ex2, a, g)
            /\ m \in Unfinished(ex, a, g) => e \in Unfinished(ex2, a, g)
            /\ m \in Settled(ex, d, a, g) => e \in Settled(ex2, d2, a, g)
<1> DEFINE e == Retyped(m)
<1>1. m \in Fine(ex, a, g) => /\ e \in Fine(ex2, a, g)
                              /\ e.from = m.from /\ e.req = m.req /\ e.status = m.status
  BY EditedMessage
<1> HIDE DEF e
<1>2. m \in Past(ex, d, a, g) => e \in Past(ex2, d2, a, g)
  BY <1>1 DEF Past, Pending
<1>3. m \in Earlier(ex, d, a, g) => e \in Earlier(ex2, d2, a, g)
  <2>1. m \in Earlier(ex, d, a, g) => m \in Past(ex, d, a, g) /\ m \in Fine(ex, a, g)
    BY Inclusions
  <2> QED
    BY <1>1, <1>2, <2>1 DEF Earlier
<1>4. m \in Current(ex, a, g) => e \in Current(ex2, a, g)
  BY <1>1 DEF Current
<1>5. m \in Current(ex, a, g) => m \in Fine(ex, a, g)
  BY Inclusions
<1>6. m \in Unfinished(ex, a, g) => e \in Unfinished(ex2, a, g)
  BY <1>1, <1>4, <1>5 DEF Unfinished, Pending
<1>7. m \in Settled(ex, d, a, g) => e \in Settled(ex2, d2, a, g)
  BY <1>1, <1>4, <1>5 DEF Settled, Pending
<1> QED
  BY <1>2, <1>3, <1>4, <1>6, <1>7 DEF e

(* applyMessageEdit: one message of the list is another, the others stay.   *)
LEMMA EditedIs ==
  ASSUME NEW ms \in Seq(Message), NEW i \in DOMAIN ms
  PROVE  /\ Edited(ms, i) \in Seq(Message) /\ Len(Edited(ms, i)) = Len(ms) /\ DOMAIN Edited(ms, i) = DOMAIN ms
         /\ Edited(ms, i)[i] = Retyped(ms[i])
         /\ \A j \in DOMAIN ms: j # i => Edited(ms, i)[j] = ms[j]
<1> DEFINE c == [req |-> ms[i].req, n |-> 0]
           e == Retyped(ms[i])
<1>1. Len(ms) \in Nat /\ DOMAIN ms = 1..Len(ms) /\ ms[i] \in Message
  BY LenProperties
<1>2. c \in Chunk
  <2>1. 0 \in 0..MaxChunks
    BY PlaygroundAssumption
  <2> QED
    BY <1>1, <2>1 DEF Chunk, Message
<1>3. Typed(ms[i].req) \in Seq(Chunk)
  BY <1>2 DEF Typed
<1>4. e \in Message
  BY <1>1, <1>3 DEF Message, Retyped
<1>5. Edited(ms, i) = [ms EXCEPT ![i] = e]
  BY DEF Edited, Retyped
<1> HIDE DEF e
<1>6. /\ Edited(ms, i) \in Seq(Message) /\ Len(Edited(ms, i)) = Len(ms)
      /\ \A j \in 1..Len(ms): Edited(ms, i)[j] = IF j = i THEN e ELSE ms[j]
  BY <1>1, <1>4, <1>5, ExceptSeq
<1>7. DOMAIN Edited(ms, i) = DOMAIN ms
  BY <1>5
<1> QED
  BY <1>1, <1>6, <1>7 DEF e

(* The requests whose updates an edit throws away.                          *)
LEMMA DroppedIs ==
  ASSUME TypeOK, Tagged, mounted
  PROVE  /\ Dropped \subseteq Gens
         /\ gen \notin Dropped => queue = <<>> /\ messages = shown.messages
<1>1. \A k \in DOMAIN queue: queue[k].gen = gen
  BY DEF Tagged
<1>2. Dropped \subseteq Gens
  BY <1>1, Types DEF Dropped
<1>3. ASSUME queue # <<>> PROVE gen \in Dropped
  <2>1. Len(queue) \in Nat \ {0}
    BY <1>3, EmptySeq DEF TypeOK
  <2>2. 1 \in DOMAIN queue
    BY <2>1, Types
  <2>3. queue[1].gen = gen /\ queue[1] \in {queue[k]: k \in DOMAIN queue}
    BY <1>1, <2>2
  <2> QED
    BY <2>3 DEF Dropped
<1>4. messages # shown.messages => gen \in Dropped
  BY DEF Dropped
<1> QED
  BY <1>2, <1>3, <1>4

(* applyEdit with Save & Submit: what is above the edited message is kept;  *)
(* the answer of a request that is still live is not.                       *)
LEMMA SubmitEditInv ==
  ASSUME Inv, NEW i \in DOMAIN shown.messages, SubmitEdit(i)
  PROVE  Inv'
<1> USE DEF Inv
<1> DEFINE sh == shown.messages
           X == cut' \cup dropped'
           P == Past(X, dropped', answer, gen)
           ms == UpTo(Edited(sh, i), i)
<1>1. /\ CanUse /\ mounted /\ sh[i].from = "user" /\ editing' = Nil /\ SendChat(ms)
      /\ dropped' = dropped \cup Dropped /\ cut' = cut
  BY DEF SubmitEdit, CanUse
<1>2. /\ sh \in Seq(Message) /\ gen \in Nat
      /\ Len(sh) \in Nat /\ DOMAIN sh = 1..Len(sh)
  BY Types, LenProperties
<1>3. dropped' \subseteq Gens /\ dropped \subseteq dropped' /\ Ex \subseteq X
  BY <1>1, DroppedIs DEF TypeOK, Ex
<1>4. Past(Ex, dropped, answer, gen) \subseteq P
  <2>1. gen <= gen
    BY <1>2
  <2> QED
    BY <1>2, <1>3, <2>1, MessagesGrow
<1>5. \A j \in 1..i: sh[j] \in Past(Ex, dropped, answer, gen)
  <2>1. CASE ~shown.generating
    <3>1. sh \in Seq(Past(Ex, dropped, answer, gen))
      BY <1>1, <2>1 DEF Control, Quiet
    <3>2. \A j \in 1..Len(sh): sh[j] \in Past(Ex, dropped, answer, gen)
      BY <3>1, ElementOfSeq
    <3> QED
      BY <1>2, <3>2
  <2>2. CASE shown.generating
    <3>1. sh \in Ending(Earlier(Ex, dropped, answer, gen), Current(Ex, answer, gen))
      BY <1>1, <2>2, BusyLists
    <3>2. i # Len(sh)
      BY <1>1, <3>1 DEF Ending, Current
    <3>3. \A j \in 1..i: j \in 1..(Len(sh) - 1)
      BY <1>2, <3>2
    <3>4. \A j \in 1..i: sh[j] \in Earlier(Ex, dropped, answer, gen)
      BY <3>1, <3>3 DEF Ending
    <3> QED
      BY <3>4, Inclusions
  <2> QED
    BY <2>1, <2>2
<1> DEFINE e == Retyped(sh[i])
<1> HIDE DEF X
<1>6. e \in P /\ e.from = "user"
  <2>1. i \in 1..i
    BY <1>2
  <2>2. sh[i] \in Past(Ex, dropped, answer, gen) /\ sh[i] \in Message
    BY <1>2, <1>5, <2>1, LenProperties
  <2>3. sh[i].from = "assistant" => sh[i].req \in X
    BY <1>1
  <2>4. e \in P
    BY <1>2, <1>3, <2>2, <2>3, EditedSets
  <2>5. e.from = sh[i].from
    BY <2>2 DEF Retyped, Message
  <2> QED
    BY <1>1, <2>4, <2>5
<1>7. /\ Edited(sh, i) \in Seq(Message) /\ DOMAIN Edited(sh, i) = DOMAIN sh
      /\ Edited(sh, i)[i] = e
      /\ \A j \in DOMAIN sh: j # i => Edited(sh, i)[j] = sh[j]
  BY <1>2, EditedIs
<1> HIDE DEF e, sh
<1>8. \A j \in 1..i: Edited(sh, i)[j] \in P
  <2> SUFFICES ASSUME NEW j \in 1..i PROVE Edited(sh, i)[j] \in P
    OBVIOUS
  <2>1. j \in DOMAIN sh
    BY <1>2 DEF sh
  <2> QED
    BY <1>4, <1>5, <1>6, <1>7, <2>1
<1>9. ms \in Seq(P)
  <2> DEFINE ed == Edited(sh, i)
  <2>1. i \in DOMAIN ed /\ ed \in Seq(Message) /\ ed[i].from = "user"
    BY <1>6, <1>7 DEF sh
  <2>2. \A j \in 1..(IF ed[i].from = "user" THEN i ELSE i - 1): ed[j] \in P
    BY <1>8, <2>1
  <2> HIDE DEF ed, P
  <2>3. UpTo(ed, i) \in Seq(P)
    BY <2>1, <2>2, UpToKeeps
  <2> QED
    BY <2>3 DEF ed
<1>10. ms \in Seq(Earlier(cut' \cup dropped', dropped', answer, gen + 1))
  <2>1. P \subseteq Earlier(X, dropped', answer, gen + 1)
    BY <1>2, PastIsEarlier
  <2> HIDE DEF P
  <2> QED
    BY <1>9, <2>1, SeqMonotonic DEF X
<1> HIDE DEF ms, Inv
<1> QED
  BY <1>1, <1>3, <1>10, SendChatInv

(* An edited list that ends with an answer still does.                      *)
LEMMA EditedEnding ==
  ASSUME NEW P, NEW C, NEW Q, NEW D, P \subseteq Q, C \subseteq D, NEW ms \in Ending(P, C), NEW i \in DOMAIN ms,
         ms[i] \in P => Retyped(ms[i]) \in Q,
         ms[i] \in C => Retyped(ms[i]) \in D
  PROVE  Edited(ms, i) \in Ending(Q, D) /\ (i # Len(ms) => Last(Edited(ms, i)) = Last(ms))
<1> DEFINE ed == Edited(ms, i)
           e == Retyped(ms[i])
<1>1. ms \in Seq(Message) /\ ms # <<>> /\ Len(ms) \in Nat /\ Len(ms) # 0 /\ DOMAIN ms = 1..Len(ms)
  BY EmptySeq, LenProperties DEF Ending
<1>2. /\ ed \in Seq(Message) /\ Len(ed) = Len(ms) /\ ed[i] = e
      /\ \A j \in DOMAIN ms: j # i => ed[j] = ms[j]
  BY <1>1, EditedIs
<1>3. ms[i] \in P => e \in Q
  OBVIOUS
<1>4. ms[i] \in C => e \in D
  OBVIOUS
<1> HIDE DEF ed, e
<1>5. ed # <<>>
  BY <1>1, <1>2, EmptySeq
<1>6. \A j \in 1..(Len(ms) - 1): ed[j] \in Q
  <2> SUFFICES ASSUME NEW j \in 1..(Len(ms) - 1) PROVE ed[j] \in Q
    OBVIOUS
  <2>1. j \in DOMAIN ms /\ ms[j] \in P
    BY <1>1 DEF Ending
  <2> QED
    BY <1>2, <1>3, <2>1
<1>7. ed[Len(ms)] \in D
  <2>1. Len(ms) \in DOMAIN ms /\ ms[Len(ms)] \in C
    BY <1>1 DEF Ending
  <2> QED
    BY <1>2, <1>4, <2>1
<1>8. ed \in Ending(Q, D)
  BY <1>2, <1>5, <1>6, <1>7 DEF Ending
<1>9. i # Len(ms) => Last(ed) = Last(ms)
  BY <1>1, <1>2 DEF Last
<1> QED
  BY <1>8, <1>9 DEF ed

(* applyEdit with Save: the list that was shown, with one text changed,     *)
(* replaces what the queued updates would have made.                        *)
LEMMA SaveEditInv ==
  ASSUME Inv, NEW i \in DOMAIN shown.messages, SaveEdit(i)
  PROVE  Inv'
<1> USE DEF Inv
<1> DEFINE sh == shown.messages
           ed == Edited(sh, i)
           m == sh[i]
           e == Retyped(m)
<1>1. /\ mounted /\ mounted' /\ editing' = Nil /\ messages' = ed /\ queue' = <<>> /\ dirty' = TRUE
      /\ shown' = [messages |-> ed, generating |-> requesting \/ streaming]
      /\ shown'.messages = ed /\ shown'.generating = (requesting \/ streaming)
      /\ dropped' = dropped \cup Dropped
      /\ cut' = cut \cup (IF m.from = "assistant" THEN {m.req} ELSE {})
      /\ UNCHANGED <<ops, user, gen, stream, call, buf, timer, requesting, streaming, saved, answer, done>>
  BY DEF SaveEdit, CanUse, Replaced
<1>2. /\ sh \in Seq(Message) /\ gen \in Nat /\ gen \in Gens
      /\ Len(sh) \in Nat /\ DOMAIN sh = 1..Len(sh) /\ m \in Message
  BY Types, LenProperties
<1>3. /\ dropped' \subseteq Gens /\ dropped \subseteq dropped' /\ cut' \subseteq Gens
      /\ Ex \subseteq Ex' /\ (m.from = "assistant" => m.req \in Ex')
  <2>1. m.req \in Gens
    BY <1>2 DEF Message
  <2> HIDE DEF m
  <2> QED
    BY <1>1, <2>1, DroppedIs DEF TypeOK, Ex
<1>4. gen \notin dropped' => queue = <<>> /\ messages = sh /\ Final = sh
  BY <1>1, DroppedIs, RunNothing DEF Final
<1>5. ed \in Seq(Message) /\ Len(ed) = Len(sh)
  BY <1>2, EditedIs
<1>6. Live' = Live /\ Final' = ed
  BY <1>1, RunNothing DEF Live, Final
<1>7. ~shown.generating => ed \in Seq(Past(Ex', dropped', answer, gen)) /\ ~requesting /\ ~streaming
  <2> SUFFICES ASSUME ~shown.generating PROVE ed \in Seq(Past(Ex', dropped', answer, gen)) /\ ~requesting /\ ~streaming
    OBVIOUS
  <2> DEFINE P == Past(Ex, dropped, answer, gen)
             Q == Past(Ex', dropped', answer, gen)
  <2>1. sh \in Seq(P)
    BY <1>1 DEF Control, Quiet
  <2>2. P \subseteq Q
    <3>1. gen <= gen
      BY <1>2
    <3> QED
      BY <1>2, <1>3, <3>1, MessagesGrow
  <2>3. sh \in Seq(Q) /\ m \in P
    BY <1>2, <2>1, <2>2, SeqMonotonic, ElementOfSeq
  <2>4. e \in Q
    BY <1>2, <1>3, <2>3, EditedSets
  <2>5. ed = [sh EXCEPT ![i] = e]
    BY DEF Edited, Retyped
  <2> HIDE DEF Q, e, sh, ed
  <2>6. i \in 1..Len(sh)
    BY <1>2 DEF sh
  <2>7. ed \in Seq(Q)
    BY <2>3, <2>4, <2>5, <2>6, ExceptSeq
  <2> QED
    BY <1>1, <2>7 DEF Control, Q
<1> DEFINE A == Earlier(Ex, dropped, answer, gen)
           B == Earlier(Ex', dropped', answer, gen)
<1>8. /\ A \subseteq B /\ (m \in A => e \in B)
      /\ Current(Ex, answer, gen) \subseteq Current(Ex', answer, gen)
      /\ Unfinished(Ex, answer, gen) \subseteq Unfinished(Ex', answer, gen)
      /\ Settled(Ex, dropped, answer, gen) \subseteq Settled(Ex', dropped', answer, gen)
  BY <1>2, <1>3, AnswersGrow, EditedSets
<1>9. /\ m \in Current(Ex, answer, gen) => e \in Current(Ex', answer, gen)
      /\ m \in Unfinished(Ex, answer, gen) => e \in Unfinished(Ex', answer, gen)
      /\ m \in Settled(Ex, dropped, answer, gen) => e \in Settled(Ex', dropped', answer, gen)
  BY <1>2, <1>3, EditedSets
<1>10. ASSUME NEW C, NEW D, C \subseteq D, m \in C => e \in D, sh \in Ending(A, C)
       PROVE  ed \in Ending(B, D) /\ (i # Len(sh) => Last(ed) = Last(sh))
  <2>1. A \subseteq B /\ (m \in A => e \in B)
    BY <1>8
  <2> HIDE DEF A, B
  <2> QED
    BY <1>10, <2>1, EditedEnding
<1>11. shown.generating => ed \in Ending(B, Current(Ex', answer, gen))
  BY <1>1, <1>8, <1>9, <1>10, BusyLists
<1>12. shown.generating /\ Live => ed \in Ending(B, Unfinished(Ex', answer, gen))
  BY <1>1, <1>8, <1>9, <1>10 DEF Busy
<1>13. shown.generating /\ ~Live => ed \in Ending(B, Settled(Ex', dropped', answer, gen))
  <2> SUFFICES ASSUME shown.generating, ~Live PROVE ed \in Ending(B, Settled(Ex', dropped', answer, gen))
    OBVIOUS
  <2>1. CASE gen \in dropped'
    <3>1. Current(Ex', answer, gen) \subseteq Settled(Ex', dropped', answer, gen)
      BY <2>1 DEF Settled
    <3> HIDE DEF B, ed
    <3> QED
      BY <1>11, <3>1, EndingGrows
  <2>2. CASE gen \notin dropped'
    <3>1. sh \in Ending(A, Settled(Ex, dropped, answer, gen))
      BY <1>1, <1>4, <2>2 DEF Busy
    <3> QED
      BY <1>8, <1>9, <1>10, <3>1
  <2> QED
    BY <2>1, <2>2
<1>14. TypeOK'
  <2>1. queue' \in Seq(Update) /\ shown' \in [messages: Seq(Message), generating: BOOLEAN]
    BY <1>1, <1>5, EmptySeq
  <2> HIDE DEF ed
  <2> QED
    BY <1>1, <1>3, <1>5, <2>1 DEF TypeOK
<1>15. Control'
  BY <1>1 DEF Control
<1>16. Tagged' /\ Fresh'
  BY <1>1 DEF Tagged, Fresh
<1>17. Quiet'
  <2> SUFFICES ASSUME ~shown'.generating PROVE ed \in Seq(Past(Ex', dropped', answer, gen))
    BY <1>1 DEF Quiet
  <2>1. ~Live
    BY <1>1 DEF Live, Control
  <2> HIDE DEF ed
  <2> QED
    BY <1>7, <1>13, <2>1, EndingIsPast
<1>18. Busy'
  <2> SUFFICES ASSUME shown'.generating PROVE Busy'
    BY DEF Busy
  <2>1. shown.generating
    BY <1>1, <1>7
  <2>2. ASSUME stream.stage # "none", gen \notin Ex'
        PROVE  Last(ed).content \o buf.chunks = Whole(gen, answer[gen])
    <3>1. gen \notin Ex /\ gen \notin dropped'
      BY <1>3, <2>2 DEF Ex
    <3>2. Final = sh
      BY <1>4, <3>1
    <3>3. Last(sh).content \o buf.chunks = Whole(gen, answer[gen])
      BY <1>1, <2>1, <2>2, <3>1, <3>2 DEF Busy
    <3>4. sh \in Ending(A, Current(Ex, answer, gen))
      BY <1>1, <2>1, BusyLists
    <3>5. i # Len(sh)
      <4> SUFFICES ASSUME i = Len(sh) PROVE FALSE
        OBVIOUS
      <4>1. m.from = "assistant" /\ m.req = gen
        BY <3>4 DEF Ending, Current
      <4> QED
        BY <1>3, <2>2, <4>1
    <3>6. Last(ed) = Last(sh)
      BY <1>8, <1>9, <1>10, <3>4, <3>5
    <3> QED
      BY <3>3, <3>6
  <2> HIDE DEF ed
  <2> QED
    BY <1>1, <1>6, <1>11, <1>12, <1>13, <2>1, <2>2 DEF Busy
<1>19. Away' /\ Stored'
  BY <1>1 DEF Away, Stored
<1> QED
  BY <1>14, <1>15, <1>16, <1>17, <1>18, <1>19

(* A page at rest whose list is replaced by one that waits for nothing.     *)
LEMMA ReplacedInv ==
  ASSUME Inv, mounted, ~shown.generating, NEW ms \in Seq(Past(Ex, dropped, answer, gen)),
         messages' = ms, queue' = <<>>, dirty' = TRUE,
         shown' = [messages |-> ms, generating |-> requesting \/ streaming],
         editing' \in {editing, Nil}, ops' \in 0..MaxOps,
         UNCHANGED <<user, mounted, gen, stream, call, buf, timer, requesting, streaming, saved, answer, done,
                     cut, dropped>>
  PROVE  Inv'
<1> USE DEF Inv
<1>1. ~requesting /\ ~streaming /\ ~shown'.generating /\ shown'.messages = ms
  BY DEF Control
<1>2. ms \in Seq(Message)
  <2>1. Past(Ex, dropped, answer, gen) \subseteq Message
    BY Inclusions
  <2> QED
    BY <2>1, SeqMonotonic
<1>3. TypeOK'
  <2>1. queue' \in Seq(Update) /\ shown' \in [messages: Seq(Message), generating: BOOLEAN]
    BY <1>2, EmptySeq
  <2> QED
    BY <1>2, <2>1 DEF TypeOK
<1>4. Control'
  BY <1>1 DEF Control
<1>5. Tagged' /\ Fresh'
  BY DEF Tagged, Fresh
<1>6. Quiet'
  BY DEF Quiet, Ex
<1>7. Busy' /\ Away' /\ Stored'
  BY <1>1 DEF Busy, Away, Stored
<1> QED
  BY <1>3, <1>4, <1>5, <1>6, <1>7

(* handleDeleteMessage: with nothing queued, the list gets shorter.         *)
LEMMA DeleteMessageInv ==
  ASSUME Inv, NEW i \in DOMAIN shown.messages, DeleteMessage(i)
  PROVE  Inv'
<1> DEFINE P == Past(Ex, dropped, answer, gen)
           key == Key(shown.messages[i])
<1>1. mounted /\ ~shown.generating
  BY DEF DeleteMessage, CanUse
<1>2. queue = <<>> /\ messages \in Seq(P)
  BY <1>1 DEF Inv, Control, Quiet
<1>3. messages' = RemoveMessageByKey(messages, key)
  BY <1>2, RunNothing DEF DeleteMessage
<1>4. messages' \in Seq(P)
  <2> HIDE DEF P, key
  <2> QED
    BY <1>2, <1>3, WithoutKeeps
<1>5. ops' \in 0..MaxOps
  BY Types DEF Inv, DeleteMessage, Operation, TypeOK
<1>6. /\ queue' = <<>> /\ dirty' = TRUE /\ shown' = [messages |-> messages', generating |-> requesting \/ streaming]
      /\ UNCHANGED <<user, mounted, gen, stream, call, buf, timer, requesting, streaming, editing, saved, answer, done,
                     cut, dropped>>
  BY DEF DeleteMessage
<1> QED
  BY <1>1, <1>4, <1>5, <1>6, ReplacedInv

(* handleClearMessages.                                                     *)
LEMMA ClearMessagesInv ==
  ASSUME Inv, ClearMessages
  PROVE  Inv'
<1>1. mounted /\ ~shown.generating
  BY DEF ClearMessages, CanUse
<1>2. <<>> \in Seq(Past(Ex, dropped, answer, gen))
  BY EmptySeq
<1>3. ops' \in 0..MaxOps
  BY Types DEF Inv, ClearMessages, Operation, TypeOK
<1>4. /\ messages' = <<>> /\ queue' = <<>> /\ dirty' = TRUE
      /\ shown' = [messages |-> <<>>, generating |-> requesting \/ streaming] /\ editing' = Nil
      /\ UNCHANGED <<user, mounted, gen, stream, call, buf, timer, requesting, streaming, saved, answer, done,
                     cut, dropped>>
  BY DEF ClearMessages, Replaced
<1> QED
  BY <1>1, <1>2, <1>3, <1>4, ReplacedInv

(* The chunks of the buffer, added to a live answer.                        *)
LEMMA FlushFinal ==
  ASSUME Inv, mounted, shown.generating, stream.stage # "none"
  PROVE  LET u == Updater("flush", gen, buf.chunks)
         IN /\ u \in Update /\ u.gen = gen
            /\ Run(Final, u, gen) \in Ending(Earlier(Ex, dropped, answer, gen), Unfinished(Ex, answer, gen))
            /\ Last(Run(Final, u, gen)).content = Last(Final).content \o buf.chunks
<1> USE DEF Inv
<1> DEFINE u == Updater("flush", gen, buf.chunks)
           E == Earlier(Ex, dropped, answer, gen)
           U == Unfinished(Ex, answer, gen)
           m == Last(Final)
<1>1. /\ gen \in Gens /\ answer[gen] \in 0..MaxChunks /\ buf.chunks \in Seq(Chunk) /\ buf.gen = gen
  BY Types DEF Control
<1>2. Final \in Ending(E, U)
  BY DEF Busy, Live
<1>3. m \in U
  BY <1>2 DEF Ending, Last
<1>4. \A k \in DOMAIN buf.chunks: buf.chunks[k].req = gen
  BY <1>1 DEF Tagged
<1>5. gen \notin Ex => m.content \o buf.chunks = Whole(gen, answer[gen])
  BY DEF Busy
<1>6. Changed(u, m) \in U /\ Changed(u, m).content = m.content \o buf.chunks
  <2> DEFINE b == buf.chunks
             X == Ex
  <2> HIDE DEF m, b, X
  <2>1. gen \in Gens /\ answer[gen] \in 0..MaxChunks
    BY <1>1
  <2>2. b \in ChunksOf(gen)
    BY <1>1, <1>4 DEF b, ChunksOf
  <2>3. gen \notin X => m.content \o b = Whole(gen, answer[gen])
    BY <1>5 DEF b, X
  <2>4. m \in Unfinished(X, answer, gen)
    BY <1>3 DEF X
  <2>5. /\ Changed(Updater("flush", gen, b), m) \in Unfinished(X, answer, gen)
        /\ Changed(Updater("flush", gen, b), m).content = m.content \o b
    BY <2>1, <2>2, <2>3, <2>4, FlushKeeps
  <2> QED
    BY <2>5 DEF b, X
<1>7. u \in Update /\ u.gen = gen
  BY <1>1 DEF Updater, Update
<1>8. U \subseteq Message /\ \A x \in U: x.from = "assistant"
  BY Inclusions DEF Unfinished, Current
<1>9. m = Final[Len(Final)]
  BY DEF Last
<1> HIDE DEF u, E, U
<1>10. Run(Final, u, gen) \in Ending(E, U) /\ Last(Run(Final, u, gen)) = Changed(u, m)
  BY <1>2, <1>6, <1>7, <1>8, <1>9, EndingRun
<1> HIDE DEF m
<1>11. Last(Run(Final, u, gen)).content = m.content \o buf.chunks
  BY <1>6, <1>10
<1> QED
  BY <1>7, <1>10, <1>11 DEF u, E, U, m

(* stopGeneration: the queued updates are of a generation that is over when *)
(* they are run; what is at the end is complete, and cut.                   *)
LEMMA StopGenerationInv ==
  ASSUME Inv, StopGeneration
  PROVE  Inv'
<1> USE DEF Inv
<1> DEFINE flush == Flushed(gen)
           last == Updater("stop", gen + 1, <<>>)
           ex2 == Ex \cup {gen}
           E == Earlier(ex2, dropped, answer, gen)
           P == Past(ex2, dropped, answer, gen)
<1>1. /\ mounted /\ mounted' /\ shown.generating /\ gen < MaxGen /\ gen' = gen + 1 /\ queue' = <<>> /\ dirty' = TRUE
      /\ shown' = [messages |-> messages', generating |-> FALSE]
      /\ shown'.messages = messages' /\ shown'.generating = FALSE
      /\ cut' = cut \cup {gen}
      /\ buf' = [gen |-> gen + 1, chunks |-> <<>>] /\ buf'.gen = gen + 1 /\ buf'.chunks = <<>>
      /\ timer' = 0 /\ stream' = [gen |-> 0, stage |-> "none"] /\ stream'.stage = "none" /\ call' = 0
      /\ requesting' = FALSE /\ streaming' = FALSE
      /\ UNCHANGED <<ops, user, editing, saved, answer, done, dropped>>
  BY DEF StopGeneration, CanUse, Discarded, NoChunks, NoStream
<1>2. \/ messages' = RunAll(messages, queue \o flush \o <<last>>, gen + 1)
      \/ /\ queue = <<>> /\ flush # <<>>
         /\ messages' = Run(Run(messages, Head(flush), gen), last, gen + 1)
  BY DEF StopGeneration
<1>3. /\ gen \in Nat /\ gen + 1 \in Gens /\ gen + 1 \in Nat /\ gen + 1 # 0 /\ 0 \in Gens /\ gen \in Gens
      /\ queue \in Seq(Update) /\ gen # gen + 1 /\ gen <= gen + 1
  <2>1. gen \in Nat /\ gen + 1 \in Gens /\ gen + 1 \in Nat /\ gen + 1 # 0 /\ 0 \in Gens /\ gen \in Gens
    BY <1>1, NextGen, Types
  <2>2. queue \in Seq(Update)
    BY DEF TypeOK
  <2> QED
    BY <2>1, <2>2
<1>4. last \in Update /\ last.gen = gen + 1
  BY <1>3, EmptySeq DEF Updater, Update
<1>5. Ex' = ex2 /\ Ex \subseteq ex2
  BY <1>1 DEF Ex
<1>6. Current(Ex, answer, gen) \subseteq Message /\ P \subseteq Message /\ \A x \in Current(Ex, answer, gen): x.from = "assistant"
  BY Inclusions DEF Current
<1>7. ASSUME NEW ms \in Ending(Earlier(Ex, dropped, answer, gen), Current(Ex, answer, gen))
      PROVE  Run(ms, last, gen + 1) \in Seq(P)
  <2>1. ms[Len(ms)] \in Current(Ex, answer, gen)
    BY DEF Ending
  <2>2. Changed(last, ms[Len(ms)]) \in P
    BY <1>3, <2>1, StopKeeps
  <2>3. Run(ms, last, gen + 1) \in Ending(Earlier(Ex, dropped, answer, gen), P)
    <3> HIDE DEF P, last
    <3> QED
      BY <1>4, <1>6, <2>2, EndingRun
  <2>4. Earlier(Ex, dropped, answer, gen) \subseteq E /\ E \subseteq P
    BY <1>3, <1>5, AnswersGrow, Inclusions
  <2>5. Earlier(Ex, dropped, answer, gen) \subseteq P /\ P \subseteq P
    BY <2>4
  <2> HIDE DEF P
  <2> QED
    BY <2>3, <2>5, EndingIsSeq
<1>8. flush = <<>> \/ (flush = <<Updater("flush", gen, buf.chunks)>> /\ buf.chunks # <<>>)
  BY DEF Flushed
<1>9. messages' \in Seq(P)
  <2>1. CASE messages' = RunAll(messages, queue \o flush \o <<last>>, gen + 1)
    <3> DEFINE us == queue \o flush
    <3>1. flush \in Seq(Update) /\ \A k \in 1..Len(flush): flush[k].gen = gen
      <4>1. CASE flush = <<>>
        BY <4>1, EmptySeq
      <4>2. CASE flush # <<>>
        <5> DEFINE u == Updater("flush", gen, buf.chunks)
        <5>1. u \in Update /\ u.gen = gen
          BY <1>3, Types DEF Updater, Update
        <5>2. flush = <<u>>
          BY <1>8, <4>2
        <5> HIDE DEF u, flush
        <5> QED
          BY <5>1, <5>2
      <4> QED
        BY <4>1, <4>2
    <3> HIDE DEF flush
    <3>2. /\ us \in Seq(Update) /\ Len(us) = Len(queue) + Len(flush)
          /\ \A i \in 1..(Len(queue) + Len(flush)): us[i] = IF i <= Len(queue) THEN queue[i] ELSE flush[i - Len(queue)]
      BY <1>3, <3>1, ConcatProperties
    <3>3. Len(queue) \in Nat /\ Len(flush) \in Nat /\ DOMAIN queue = 1..Len(queue)
      BY <1>3, <3>1, LenProperties
    <3>4. \A k \in 1..Len(us): us[k].gen = gen
      <4> SUFFICES ASSUME NEW k \in 1..(Len(queue) + Len(flush)) PROVE us[k].gen = gen
        BY <3>2
      <4>1. CASE k <= Len(queue)
        <5>1. k \in DOMAIN queue /\ us[k] = queue[k]
          BY <3>2, <3>3, <4>1
        <5> QED
          BY <1>1, <5>1 DEF Tagged
      <4>2. CASE ~(k <= Len(queue))
        <5>1. k - Len(queue) \in 1..Len(flush) /\ us[k] = flush[k - Len(queue)]
          BY <3>2, <3>3, <4>2
        <5> QED
          BY <3>1, <5>1
      <4> QED
        BY <4>1, <4>2
    <3> HIDE DEF us, last
    <3>5. Len(us) \in Nat /\ \A k \in 1..Len(us): us[k].gen # gen + 1
      BY <1>3, <3>2, <3>3, <3>4
    <3>6. RunAll(messages, us, gen + 1) = messages
      BY <3>5, RunStale
    <3>7. us \o <<last>> = Append(us, last)
      BY <1>4, <3>2, AppendIsConcat
    <3>8. RunAll(messages, Append(us, last), gen + 1) = Run(RunAll(messages, us, gen + 1), last, gen + 1)
      BY <1>4, <3>2, RunOneMore
    <3>9. messages' = Run(messages, last, gen + 1)
      BY <2>1, <3>6, <3>7, <3>8 DEF us
    <3>10. messages \in Ending(Earlier(Ex, dropped, answer, gen), Current(Ex, answer, gen))
      BY <1>1, BusyLists
    <3> QED
      BY <1>7, <3>9, <3>10
  <2>2. CASE /\ queue = <<>> /\ flush # <<>>
             /\ messages' = Run(Run(messages, Head(flush), gen), last, gen + 1)
    <3> DEFINE u == Updater("flush", gen, buf.chunks)
    <3>1. Head(flush) = u /\ buf.chunks # <<>>
      BY <1>8, <2>2
    <3>2. stream.stage # "none" /\ Final = messages
      BY <1>1, <2>2, <3>1, RunNothing DEF Control, Final
    <3>3. Run(Final, u, gen) \in Ending(Earlier(Ex, dropped, answer, gen), Unfinished(Ex, answer, gen))
      BY <1>1, <3>2, FlushFinal
    <3>4. Run(Final, u, gen) \in Ending(Earlier(Ex, dropped, answer, gen), Current(Ex, answer, gen))
      BY <3>3, Inclusions, EndingGrows
    <3> HIDE DEF u, last, P
    <3> QED
      BY <1>7, <2>2, <3>1, <3>2, <3>4
  <2> QED
    BY <1>2, <2>1, <2>2
<1>10. messages' \in Seq(Past(Ex', dropped', answer', gen')) /\ messages' \in Seq(Message)
  <2>1. P \subseteq Past(ex2, dropped, answer, gen + 1)
    BY <1>3, MessagesGrow
  <2> HIDE DEF P, ex2
  <2> QED
    BY <1>1, <1>5, <1>6, <1>9, <2>1, SeqMonotonic
<1>11. TypeOK'
  <2>1. queue' \in Seq(Update) /\ shown' \in [messages: Seq(Message), generating: BOOLEAN]
    BY <1>1, <1>10, EmptySeq
  <2>2. buf' \in [gen: Gens, chunks: Seq(Chunk)]
    BY <1>1, <1>3, EmptySeq
  <2>3. stream' \in [gen: Gens, stage: {"none", "headers", "open"}] /\ call' \in Gens /\ timer' \in Gens
    BY <1>1, <1>3
  <2>4. cut' \subseteq Gens
    BY <1>1, <1>3 DEF TypeOK
  <2> QED
    BY <1>1, <1>3, <1>10, <2>1, <2>2, <2>3, <2>4 DEF TypeOK
<1>12. Control'
  BY <1>1 DEF Control
<1>13. Tagged'
  BY <1>1 DEF Tagged
<1>14. Fresh'
  <2> SUFFICES ASSUME NEW g \in Gens, g > gen + 1 PROVE answer[g] = 0
    BY <1>1 DEF Fresh
  <2>1. g > gen
    BY Types DEF Gens
  <2> QED
    BY <2>1 DEF Fresh
<1>15. Quiet'
  BY <1>10 DEF Quiet
<1>16. Busy' /\ Away' /\ Stored'
  BY <1>1 DEF Busy, Away, Stored
<1> QED
  BY <1>11, <1>12, <1>13, <1>14, <1>15, <1>16

-----------------------------------------------------------------------------
(* The network and the timers.                                              *)

(* An event of a stream finds the page open and its request current.        *)
LEMMA LiveStream ==
  ASSUME Inv, stream.stage # "none"
  PROVE  mounted /\ shown.generating /\ requesting /\ stream.gen = gen /\ buf.gen = gen /\ call = 0 /\ Live
BY DEF Inv, Control, Live

(* So does the answer of a call; nothing is buffered for it.                *)
LEMMA LiveCall ==
  ASSUME Inv, call # 0
  PROVE  /\ mounted /\ shown.generating /\ requesting /\ call = gen /\ buf.gen = gen /\ buf.chunks = <<>>
         /\ stream.stage = "none" /\ timer = 0 /\ Live
BY DEF Inv, Control, Live

(* A chunk arrives: it follows what is in the message and in the buffer.    *)
LEMMA StreamUpdateInv ==
  ASSUME Inv, StreamUpdate
  PROVE  Inv'
<1> USE DEF Inv
<1>1. /\ stream.stage # "none" /\ mounted /\ shown.generating /\ stream.gen = gen /\ buf.gen = gen /\ Live
  <2>1. stream.stage # "none"
    BY DEF StreamUpdate
  <2> QED
    BY <2>1, LiveStream
<1> DEFINE k == answer[gen]
           c == [req |-> gen, n |-> k + 1]
<1>2. /\ gen \in Gens /\ gen \in Nat /\ k \in 0..MaxChunks /\ MaxChunks \in Nat /\ buf.chunks \in Seq(Chunk)
      /\ answer \in [Gens -> 0..MaxChunks] /\ buf \in [gen: Gens, chunks: Seq(Chunk)]
  BY Types DEF TypeOK
<1>3. k < MaxChunks /\ answer' = [answer EXCEPT ![gen] = k + 1]
  BY <1>1 DEF StreamUpdate
<1>4. k + 1 \in 0..MaxChunks /\ answer' \in [Gens -> 0..MaxChunks] /\ answer'[gen] = k + 1
      /\ \A g \in Gens: g # gen => answer'[g] = answer[g]
  BY <1>2, <1>3
<1>5. /\ buf' = [buf EXCEPT !.chunks = Append(buf.chunks, c)]
      /\ timer' = IF timer = 0 THEN gen ELSE timer
      /\ UNCHANGED <<ops, user, mounted, gen, stream, call, requesting, streaming, messages, queue, shown, editing, dirty,
                     saved, done, cut, dropped>>
  BY <1>1, <1>4 DEF StreamUpdate
<1>6. c \in Chunk /\ c.req = gen
  BY <1>2, <1>4 DEF Chunk
<1> HIDE DEF c
<1>7. /\ Append(buf.chunks, c) \in Seq(Chunk) /\ Len(Append(buf.chunks, c)) = Len(buf.chunks) + 1
      /\ \A i \in 1..Len(buf.chunks): Append(buf.chunks, c)[i] = buf.chunks[i]
      /\ Append(buf.chunks, c)[Len(buf.chunks) + 1] = c
  BY <1>2, <1>6, AppendProperties
<1>8. buf' \in [gen: Gens, chunks: Seq(Chunk)] /\ buf'.gen = gen /\ buf'.chunks = Append(buf.chunks, c)
  BY <1>1, <1>2, <1>5, <1>7
<1>9. Ex' = Ex /\ Live' = Live /\ Final' = Final
  BY <1>5 DEF Ex, Live, Final
<1>10. TypeOK'
  <2>1. timer' \in Gens
    BY <1>2, <1>5 DEF TypeOK
  <2> QED
    BY <1>4, <1>5, <1>8, <2>1 DEF TypeOK
<1>11. Control'
  BY <1>1, <1>5, <1>8 DEF Control
<1>12. Tagged'
  <2>1. \A i \in DOMAIN buf'.chunks: buf'.chunks[i].req = gen
    <3> SUFFICES ASSUME NEW i \in 1..(Len(buf.chunks) + 1) PROVE Append(buf.chunks, c)[i].req = gen
      BY <1>7, <1>8, LenProperties
    <3>1. Len(buf.chunks) \in Nat /\ DOMAIN buf.chunks = 1..Len(buf.chunks)
      BY <1>2, LenProperties
    <3>2. i \in DOMAIN buf.chunks \/ i = Len(buf.chunks) + 1
      BY <3>1
    <3>3. \A j \in DOMAIN buf.chunks: buf.chunks[j].req = gen
      BY <1>1 DEF Tagged
    <3> QED
      BY <1>6, <1>7, <3>1, <3>2, <3>3
  <2> QED
    BY <1>5, <1>8, <2>1 DEF Tagged
<1>13. Fresh'
  <2> SUFFICES ASSUME NEW g \in Gens, g > gen PROVE answer'[g] = 0
    BY <1>5 DEF Fresh
  <2>1. g # gen
    BY <1>2 DEF Gens
  <2> QED
    BY <1>4, <2>1 DEF Fresh
<1>14. Quiet' /\ Away'
  BY <1>1, <1>5 DEF Quiet, Away
<1>15. Stored'
  BY <1>5 DEF Stored
<1>16. Busy'
  <2> DEFINE A == Ending(Earlier(Ex, dropped, answer, gen), Unfinished(Ex, answer, gen))
             B == Ending(Earlier(Ex, dropped, answer', gen), Unfinished(Ex, answer', gen))
  <2>1. {messages, shown.messages, Final} \subseteq A
    BY <1>1 DEF Busy
  <2>2. /\ Earlier(Ex, dropped, answer, gen) \subseteq Earlier(Ex, dropped, answer', gen)
        /\ Unfinished(Ex, answer, gen) \subseteq Unfinished(Ex, answer', gen)
    BY <1>2, <1>4, AnswerGrows
  <2>3. A \subseteq B
    BY <2>2, EndingGrows
  <2> HIDE DEF A, B
  <2>4. {messages', shown'.messages, Final'} \subseteq B
    BY <1>5, <1>9, <2>1, <2>3
  <2>5. gen \notin Ex => Last(Final).content \o buf'.chunks = Whole(gen, answer'[gen])
    <3> SUFFICES ASSUME gen \notin Ex PROVE Last(Final).content \o buf'.chunks = Whole(gen, k + 1)
      BY <1>4
    <3> DEFINE t == Last(Final).content
               b == buf.chunks
    <3>1. t \o b = Whole(gen, k)
      BY <1>1 DEF Busy
    <3>2. t \in Seq(Chunk) /\ b \in Seq(Chunk) /\ <<c>> \in Seq(Chunk)
      <4>1. Last(Final) \in Unfinished(Ex, answer, gen)
        BY <2>1 DEF A, Ending, Last
      <4>2. Last(Final) \in Message
        BY <4>1, Inclusions
      <4> QED
        BY <1>2, <1>6, <4>2 DEF Message
    <3> HIDE DEF t, b
    <3>3. Append(b, c) = b \o <<c>>
      BY <1>6, <3>2, AppendIsConcat
    <3>4. t \o (b \o <<c>>) = (t \o b) \o <<c>>
      BY <3>2, ConcatAssociative
    <3>5. t \o b \in Seq(Chunk)
      BY <3>2, ConcatProperties
    <3>6. (t \o b) \o <<c>> = Append(t \o b, c)
      BY <1>6, <3>5, AppendIsConcat
    <3>7. Append(Whole(gen, k), c) = Whole(gen, k + 1)
      BY <1>2, <1>4, WholeGrows DEF c
    <3> QED
      BY <1>8, <3>1, <3>3, <3>4, <3>6, <3>7 DEF t, b
  <2> QED
    BY <1>1, <1>5, <1>9, <2>4, <2>5 DEF Busy, B
<1> QED
  BY <1>10, <1>11, <1>12, <1>13, <1>14, <1>15, <1>16

(* The flush timer: the buffered chunks move into the message, at once or   *)
(* with the next render.                                                    *)
LEMMA FlushTimerInv ==
  ASSUME Inv, FlushTimer
  PROVE  Inv'
<1> USE DEF Inv
<1>1. /\ timer = gen /\ stream.stage # "none" /\ mounted /\ shown.generating /\ buf.gen = gen /\ Live
  <2>1. timer = gen /\ stream.stage # "none"
    BY DEF FlushTimer, Control
  <2> QED
    BY <2>1, LiveStream
<1>2. /\ timer' = 0 /\ buf' = [gen |-> gen, chunks |-> <<>>] /\ buf'.gen = gen /\ buf'.chunks = <<>>
      /\ UNCHANGED <<ops, user, mounted, gen, stream, call, requesting, streaming, shown, editing, saved, answer, done,
                     cut, dropped>>
  BY <1>1 DEF FlushTimer, NoChunks
<1>3. gen \in Gens /\ 0 \in Gens /\ buf.chunks \in Seq(Chunk)
  BY Types DEF Gens
<1> DEFINE u == Updater("flush", gen, buf.chunks)
           E == Ending(Earlier(Ex, dropped, answer, gen), Unfinished(Ex, answer, gen))
<1>4. {messages, shown.messages, Final} \subseteq E
  BY <1>1 DEF Busy
<1>5. u \in Update /\ u.gen = gen /\ Run(Final, u, gen) \in E
      /\ Last(Run(Final, u, gen)).content = Last(Final).content \o buf.chunks
  BY <1>1, FlushFinal
<1>6. Last(Final).content \in Seq(Chunk) /\ Last(Final).content \o <<>> = Last(Final).content
  <2>1. Last(Final) \in Unfinished(Ex, answer, gen)
    BY <1>4 DEF Ending, Last
  <2>2. Last(Final) \in Message
    BY <2>1, Inclusions
  <2>3. Last(Final).content \in Seq(Chunk)
    BY <2>2 DEF Message
  <2> QED
    BY <2>3, ConcatEmptySeq
<1>7. /\ RunAll(messages', queue', gen) \in E /\ messages' \in E
      /\ Last(RunAll(messages', queue', gen)).content = Last(Final).content \o buf.chunks
      /\ dirty' \in BOOLEAN /\ (dirty \/ messages' # messages => dirty')
      /\ queue' \in Seq(Update) /\ \A k \in DOMAIN queue': queue'[k].gen = gen
  <2>1. \A k \in DOMAIN queue: queue[k].gen = gen
    BY <1>1 DEF Tagged
  <2>2. CASE buf.chunks = <<>>
    <3>1. UNCHANGED <<messages, queue, dirty>>
      BY <1>1, <2>2 DEF FlushTimer, Flushed
    <3>2. RunAll(messages', queue', gen) = Final
      BY <3>1 DEF Final
    <3> HIDE DEF E
    <3> QED
      BY <1>4, <1>6, <2>1, <2>2, <3>1, <3>2 DEF TypeOK
  <2>3. CASE buf.chunks # <<>>
    <3>1. Flushed(timer) = <<u>>
      BY <1>1, <2>3 DEF Flushed
    <3>2. Enqueue(<<u>>)
      BY <3>1 DEF FlushTimer
    <3> HIDE DEF u, E
    <3>3. /\ RunAll(messages', queue', gen) = Run(Final, u, gen)
          /\ messages' = messages \/ messages' = Run(Final, u, gen)
          /\ dirty' \in BOOLEAN /\ (dirty \/ messages' # messages => dirty')
          /\ queue' \in Seq(Update) /\ \A k \in DOMAIN queue': queue'[k].gen = gen
      BY <1>5, <2>1, <3>2, EnqueueOne
    <3> QED
      BY <1>4, <1>5, <3>3
  <2> QED
    BY <2>2, <2>3
<1>8. Ex' = Ex /\ Live' = Live /\ Final' = RunAll(messages', queue', gen)
  BY <1>2 DEF Ex, Live, Final
<1> HIDE DEF u
<1>9. TypeOK'
  <2>1. buf' \in [gen: Gens, chunks: Seq(Chunk)] /\ timer' \in Gens
    BY <1>2, <1>3, EmptySeq
  <2>2. messages' \in Seq(Message)
    BY <1>7 DEF Ending
  <2> QED
    BY <1>2, <1>7, <2>1, <2>2 DEF TypeOK
<1>10. Control'
  BY <1>1, <1>2 DEF Control
<1>11. Tagged' /\ Fresh'
  BY <1>2, <1>7 DEF Tagged, Fresh
<1>12. Quiet' /\ Away'
  BY <1>1, <1>2 DEF Quiet, Away
<1>13. Stored'
  BY <1>1, <1>2, <1>7 DEF Stored
<1>14. Busy'
  <2>1. {messages', shown'.messages, Final'} \subseteq E
    BY <1>2, <1>4, <1>7, <1>8
  <2>2. gen \notin Ex => Last(Final').content \o buf'.chunks = Whole(gen, answer[gen])
    <3> SUFFICES ASSUME gen \notin Ex PROVE Last(Final').content \o buf'.chunks = Whole(gen, answer[gen])
      OBVIOUS
    <3>1. Last(Final').content = Whole(gen, answer[gen])
      BY <1>1, <1>7, <1>8 DEF Busy
    <3>2. Whole(gen, answer[gen]) \in Seq(Chunk)
      BY Types, WholeIs
    <3> QED
      BY <1>2, <3>1, <3>2, ConcatEmptySeq
  <2> QED
    BY <1>1, <1>2, <1>8, <2>1, <2>2 DEF Busy
<1> QED
  BY <1>9, <1>10, <1>11, <1>12, <1>13, <1>14

(* The end of a request, whatever its last update is: the rest of the       *)
(* buffer is flushed first, and after both the answer is settled.           *)
LEMMA EndsInv ==
  ASSUME Inv, Live, NEW last \in Update, last.gen = gen, Ends(gen, last),
         \A m \in Unfinished(Ex, answer, gen):
           (stream.stage # "none" /\ gen \notin Ex => m.content = Whole(gen, answer[gen]))
             => Changed(last, m) \in Settled(Ex, dropped, answer, gen),
         stream' \in [gen: Gens, stage: {"none", "headers", "open"}], stream'.stage = "none", call' = 0,
         done' \subseteq Gens, UNCHANGED <<ops, answer>>
  PROVE  Inv'
<1> USE DEF Inv
<1>1. mounted /\ shown.generating /\ buf.gen = gen /\ (stream.stage = "none" => buf.chunks = <<>>)
  BY DEF Live, Control
<1>2. /\ timer' = 0 /\ buf' = [gen |-> gen, chunks |-> <<>>] /\ buf'.gen = gen /\ buf'.chunks = <<>>
      /\ requesting' = FALSE /\ streaming' = FALSE
      /\ Enqueue(Flushed(gen) \o <<last>>)
      /\ UNCHANGED <<user, mounted, gen, shown, editing, saved, cut, dropped>>
  BY <1>1 DEF Ends, NoChunks
<1>3. gen \in Gens /\ 0 \in Gens /\ buf.chunks \in Seq(Chunk)
  BY Types DEF Gens
<1> DEFINE u == Updater("flush", gen, buf.chunks)
           A == Earlier(Ex, dropped, answer, gen)
           U == Unfinished(Ex, answer, gen)
           C == Current(Ex, answer, gen)
           S == Settled(Ex, dropped, answer, gen)
           rest == IF buf.chunks = <<>> THEN Final ELSE Run(Final, u, gen)
<1>4. {messages, shown.messages, Final} \subseteq Ending(A, U)
  BY <1>1 DEF Busy
<1>5. /\ U \subseteq Message /\ S \subseteq Message /\ (\A x \in U: x.from = "assistant")
      /\ U \subseteq C /\ S \subseteq C
  BY Inclusions DEF Unfinished, Current
<1>6. Ending(A, U) \subseteq Ending(A, C) /\ Ending(A, S) \subseteq Ending(A, C)
  BY <1>5, EndingGrows
<1>7. Last(Final).content \in Seq(Chunk) /\ Last(Final).content \o <<>> = Last(Final).content
  <2>1. Last(Final) \in U
    BY <1>4 DEF Ending, Last
  <2>2. Last(Final) \in Message
    BY <1>5, <2>1
  <2>3. Last(Final).content \in Seq(Chunk)
    BY <2>2 DEF Message
  <2> QED
    BY <2>3, ConcatEmptySeq
<1>8. rest \in Ending(A, U) /\ Last(rest).content = Last(Final).content \o buf.chunks
  <2>1. CASE buf.chunks = <<>>
    <3>1. rest = Final
      BY <2>1
    <3> HIDE DEF rest, A, U
    <3> QED
      BY <1>4, <1>7, <2>1, <3>1
  <2>2. CASE buf.chunks # <<>>
    <3>1. rest = Run(Final, u, gen) /\ stream.stage # "none"
      BY <1>1, <2>2
    <3>2. Run(Final, u, gen) \in Ending(A, U) /\ Last(Run(Final, u, gen)).content = Last(Final).content \o buf.chunks
      BY <1>1, <3>1, FlushFinal
    <3> HIDE DEF rest, A, U
    <3> QED
      BY <3>1, <3>2
  <2> QED
    BY <2>1, <2>2
<1>9. Run(rest, last, gen) \in Ending(A, S)
  <2>1. Last(rest) \in U /\ Last(rest) = rest[Len(rest)]
    BY <1>8 DEF Ending, Last
  <2>2. stream.stage # "none" /\ gen \notin Ex => Last(rest).content = Whole(gen, answer[gen])
    <3> HIDE DEF rest
    <3> QED
      BY <1>1, <1>8 DEF Busy
  <2>3. Changed(last, Last(rest)) \in S
    BY <2>1, <2>2
  <2> HIDE DEF rest, A, U, S
  <2> QED
    BY <1>5, <1>8, <2>1, <2>3, EndingRun
<1>10. \A k \in DOMAIN queue: queue[k].gen = gen
  BY <1>1 DEF Tagged
<1>11. /\ RunAll(messages', queue', gen) = Run(rest, last, gen)
       /\ messages' \in {messages, rest, Run(rest, last, gen)}
       /\ dirty' \in BOOLEAN /\ (dirty \/ messages' # messages => dirty')
       /\ queue' \in Seq(Update) /\ \A k \in DOMAIN queue': queue'[k].gen = gen
  <2>1. CASE buf.chunks = <<>>
    <3>1. Flushed(gen) = <<>> /\ <<>> \o <<last>> = <<last>>
      BY <2>1 DEF Flushed
    <3>2. Enqueue(<<last>>)
      BY <1>2, <3>1
    <3>3. rest = Final
      BY <2>1
    <3> HIDE DEF rest
    <3> QED
      BY <1>10, <3>2, <3>3, EnqueueOne
  <2>2. CASE buf.chunks # <<>>
    <3>1. Flushed(gen) = <<u>>
      BY <1>1, <2>2 DEF Flushed
    <3>2. Enqueue(<<u>> \o <<last>>)
      BY <1>2, <3>1
    <3>3. rest = Run(Final, u, gen)
      BY <2>2
    <3>4. u \in Update /\ u.gen = gen
      BY <1>3 DEF Updater, Update
    <3> HIDE DEF rest, u
    <3> QED
      BY <1>10, <3>2, <3>3, <3>4, EnqueueTwo
  <2> QED
    BY <2>1, <2>2
<1> HIDE DEF rest, u
<1>12. messages' \in Ending(A, C) /\ shown.messages \in Ending(A, C) /\ RunAll(messages', queue', gen) \in Ending(A, S)
  <2> HIDE DEF A, C, U, S
  <2> QED
    BY <1>4, <1>6, <1>8, <1>9, <1>11
<1>13. Ex' = Ex /\ ~Live' /\ Final' = RunAll(messages', queue', gen)
  BY <1>2 DEF Ex, Live, Final
<1>14. TypeOK'
  <2>1. buf' \in [gen: Gens, chunks: Seq(Chunk)] /\ timer' \in Gens /\ call' \in Gens
    BY <1>2, <1>3, EmptySeq
  <2>2. messages' \in Seq(Message)
    BY <1>12 DEF Ending
  <2> QED
    BY <1>2, <1>11, <2>1, <2>2 DEF TypeOK
<1>15. Control'
  BY <1>1, <1>2 DEF Control
<1>16. Tagged' /\ Fresh'
  BY <1>2, <1>11 DEF Tagged, Fresh
<1>17. Quiet' /\ Away'
  BY <1>1, <1>2 DEF Quiet, Away
<1>18. Stored'
  BY <1>1, <1>2, <1>11 DEF Stored
<1>19. Busy'
  BY <1>1, <1>2, <1>12, <1>13 DEF Busy
<1> QED
  BY <1>14, <1>15, <1>16, <1>17, <1>18, <1>19

(* [DONE].                                                                  *)
LEMMA StreamCompleteInv ==
  ASSUME Inv, StreamComplete
  PROVE  Inv'
<1>1. stream.stage # "none"
  BY DEF StreamComplete
<1>2. stream.gen = gen /\ call = 0 /\ Live
  BY <1>1, LiveStream
<1>3. gen \in Gens /\ 0 \in Gens /\ done \subseteq Gens
  BY Types DEF Gens, Inv, TypeOK
<1> DEFINE last == Updater("complete", gen, <<>>)
<1>4. last \in Update /\ last.gen = gen
  BY <1>3, EmptySeq DEF Updater, Update
<1>5. \A m \in Unfinished(Ex, answer, gen):
        (stream.stage # "none" /\ gen \notin Ex => m.content = Whole(gen, answer[gen]))
          => Changed(last, m) \in Settled(Ex, dropped, answer, gen)
  BY <1>1, <1>3, CompleteKeeps
<1>6. /\ Ends(gen, last) /\ stream' = [gen |-> 0, stage |-> "none"] /\ stream'.stage = "none" /\ call' = 0
      /\ done' = done \cup {gen} /\ UNCHANGED <<ops, answer>>
  BY <1>2 DEF StreamComplete, NoStream
<1>7. stream' \in [gen: Gens, stage: {"none", "headers", "open"}] /\ done' \subseteq Gens
  BY <1>3, <1>6
<1> HIDE DEF last
<1> QED
  BY <1>2, <1>4, <1>5, <1>6, <1>7, EndsInv

(* handleStreamError.                                                       *)
LEMMA StreamErrorInv ==
  ASSUME Inv, StreamError
  PROVE  Inv'
<1>1. stream.stage # "none"
  BY DEF StreamError
<1>2. stream.gen = gen /\ call = 0 /\ Live
  BY <1>1, LiveStream
<1>3. gen \in Gens /\ 0 \in Gens /\ done \subseteq Gens
  BY Types DEF Gens, Inv, TypeOK
<1> DEFINE last == Updater("error", gen, <<>>)
<1>4. last \in Update /\ last.gen = gen
  BY <1>3, EmptySeq DEF Updater, Update
<1>5. \A m \in Unfinished(Ex, answer, gen): Changed(last, m) \in Settled(Ex, dropped, answer, gen)
  BY <1>3, ErrorKeeps
<1>6. /\ Ends(gen, last) /\ stream' = [gen |-> 0, stage |-> "none"] /\ stream'.stage = "none" /\ call' = 0
      /\ done' = done /\ UNCHANGED <<ops, answer>>
  BY <1>2 DEF StreamError, NoStream
<1>7. stream' \in [gen: Gens, stage: {"none", "headers", "open"}] /\ done' \subseteq Gens
  BY <1>3, <1>6
<1> HIDE DEF last
<1> QED
  BY <1>2, <1>4, <1>5, <1>6, <1>7, EndsInv

(* A call fails.                                                            *)
LEMMA CallFailsInv ==
  ASSUME Inv, CallFails
  PROVE  Inv'
<1>1. call # 0
  BY DEF CallFails
<1>2. call = gen /\ stream.stage = "none" /\ Live
  BY <1>1, LiveCall
<1>3. /\ gen \in Gens /\ done \subseteq Gens
      /\ stream \in [gen: Gens, stage: {"none", "headers", "open"}]
  BY Types DEF Inv, TypeOK
<1> DEFINE last == Updater("error", gen, <<>>)
<1>4. last \in Update /\ last.gen = gen
  BY <1>3, EmptySeq DEF Updater, Update
<1>5. \A m \in Unfinished(Ex, answer, gen): Changed(last, m) \in Settled(Ex, dropped, answer, gen)
  BY <1>3, ErrorKeeps
<1>6. Ends(gen, last) /\ stream' = stream /\ call' = 0 /\ done' = done /\ UNCHANGED <<ops, answer>>
  BY <1>2 DEF CallFails
<1>7. stream' \in [gen: Gens, stage: {"none", "headers", "open"}] /\ done' \subseteq Gens /\ stream'.stage = "none"
  BY <1>2, <1>3, <1>6
<1> HIDE DEF last
<1> QED
  BY <1>2, <1>4, <1>5, <1>6, <1>7, EndsInv

(* A call is answered: the whole text takes the place of what was there.    *)
LEMMA CallAnsweredInv ==
  ASSUME Inv, CallAnswered
  PROVE  Inv'
<1> USE DEF Inv
<1>1. /\ mounted /\ shown.generating /\ call = gen /\ buf.gen = gen /\ buf.chunks = <<>>
      /\ stream.stage = "none" /\ timer = 0 /\ Live
  <2>1. call # 0
    BY DEF CallAnswered
  <2> QED
    BY <2>1, LiveCall
<1>2. /\ gen \in Gens /\ gen \in Nat /\ 0 \in Gens /\ MaxChunks \in Nat /\ MaxChunks \in 0..MaxChunks
      /\ answer \in [Gens -> 0..MaxChunks] /\ done \subseteq Gens
  <2>1. gen \in Gens /\ gen \in Nat /\ MaxChunks \in Nat /\ MaxGen \in Nat
    BY Types
  <2>2. answer \in [Gens -> 0..MaxChunks] /\ done \subseteq Gens
    BY DEF TypeOK
  <2> QED
    BY <2>1, <2>2 DEF Gens
<1> DEFINE u == Updater("response", gen, Whole(gen, MaxChunks))
<1>3. /\ call' = 0 /\ answer' = [answer EXCEPT ![gen] = MaxChunks] /\ done' = done \cup {gen}
      /\ Enqueue(<<u>>) /\ requesting' = FALSE
      /\ UNCHANGED <<ops, user, mounted, gen, stream, buf, timer, streaming, shown, editing, saved, cut, dropped>>
  BY <1>1 DEF CallAnswered
<1>4. /\ answer' \in [Gens -> 0..MaxChunks] /\ answer'[gen] = MaxChunks
      /\ \A g \in Gens: g # gen => answer'[g] = answer[g]
  BY <1>2, <1>3
<1>5. u \in Update /\ u.gen = gen
  <2>1. Whole(gen, MaxChunks) \in Seq(Chunk)
    BY <1>2, WholeIs
  <2> QED
    BY <1>2, <2>1 DEF Updater, Update
<1> DEFINE A == Earlier(Ex, dropped, answer', gen)
           U == Unfinished(Ex, answer', gen)
           C == Current(Ex, answer', gen)
           S == Settled(Ex, dropped, answer', gen)
<1>6. {messages, shown.messages, Final} \subseteq Ending(A, U)
  <2>1. {messages, shown.messages, Final} \subseteq
          Ending(Earlier(Ex, dropped, answer, gen), Unfinished(Ex, answer, gen))
    BY <1>1 DEF Busy
  <2>2. Earlier(Ex, dropped, answer, gen) \subseteq A /\ Unfinished(Ex, answer, gen) \subseteq U
    BY <1>2, <1>4, AnswerGrows
  <2> HIDE DEF A, U
  <2>3. Ending(Earlier(Ex, dropped, answer, gen), Unfinished(Ex, answer, gen)) \subseteq Ending(A, U)
    BY <2>2, EndingGrows
  <2> QED
    BY <2>1, <2>3
<1>7. /\ U \subseteq Message /\ S \subseteq Message /\ (\A x \in U: x.from = "assistant")
      /\ U \subseteq C /\ S \subseteq C
  BY Inclusions DEF Unfinished, Current
<1>8. Ending(A, U) \subseteq Ending(A, C) /\ Ending(A, S) \subseteq Ending(A, C)
  BY <1>7, EndingGrows
<1>9. Run(Final, u, gen) \in Ending(A, S)
  <2>1. Final[Len(Final)] \in U
    BY <1>6 DEF Ending
  <2>2. answer'[gen] \in 0..MaxChunks /\ u = Updater("response", gen, Whole(gen, answer'[gen]))
    BY <1>2, <1>4
  <2> DEFINE m == Final[Len(Final)]
  <2>3. Changed(u, m) \in S
    <3> HIDE DEF u, m
    <3>1. m \in Unfinished(Ex, answer', gen)
      BY <2>1 DEF m
    <3> QED
      BY <1>2, <2>2, <3>1, ResponseKeeps
  <2> HIDE DEF A, U, S, u
  <2> QED
    BY <1>5, <1>6, <1>7, <2>3, EndingRun
<1>10. \A k \in DOMAIN queue: queue[k].gen = gen
  BY <1>1 DEF Tagged
<1> HIDE DEF u
<1>11. /\ RunAll(messages', queue', gen) = Run(Final, u, gen)
       /\ messages' = messages \/ messages' = Run(Final, u, gen)
       /\ dirty' \in BOOLEAN /\ (dirty \/ messages' # messages => dirty')
       /\ queue' \in Seq(Update) /\ \A k \in DOMAIN queue': queue'[k].gen = gen
  BY <1>3, <1>5, <1>10, EnqueueOne
<1>12. messages' \in Ending(A, C) /\ shown.messages \in Ending(A, C) /\ RunAll(messages', queue', gen) \in Ending(A, S)
  <2> HIDE DEF A, C, U, S
  <2> QED
    BY <1>6, <1>8, <1>9, <1>11
<1>13. Ex' = Ex /\ ~Live' /\ Final' = RunAll(messages', queue', gen)
  BY <1>1, <1>3 DEF Ex, Live, Final
<1>14. TypeOK'
  <2>1. messages' \in Seq(Message)
    BY <1>12 DEF Ending
  <2>2. done' \subseteq Gens /\ call' \in Gens
    BY <1>2, <1>3
  <2> QED
    BY <1>3, <1>4, <1>11, <2>1, <2>2 DEF TypeOK
<1>15. Control'
  BY <1>1, <1>3 DEF Control
<1>16. Tagged'
  BY <1>3, <1>11 DEF Tagged
<1>17. Fresh'
  <2> SUFFICES ASSUME NEW g \in Gens, g > gen PROVE answer'[g] = 0
    BY <1>3 DEF Fresh
  <2>1. g # gen
    BY <1>2 DEF Gens
  <2> QED
    BY <1>4, <2>1 DEF Fresh
<1>18. Quiet' /\ Away'
  BY <1>1, <1>3 DEF Quiet, Away
<1>19. Stored'
  BY <1>1, <1>3, <1>11 DEF Stored
<1>20. Busy'
  BY <1>1, <1>3, <1>12, <1>13 DEF Busy
<1> QED
  BY <1>14, <1>15, <1>16, <1>17, <1>18, <1>19, <1>20

-----------------------------------------------------------------------------
(* The life of the page.                                                    *)

(* The page is left: what is pending at the end of the stored list is cut.  *)
LEMMA UnmountInv ==
  ASSUME Inv, Unmount
  PROVE  Inv'
<1> USE DEF Inv
<1>1. /\ mounted /\ gen < MaxGen /\ mounted' = FALSE /\ gen' = gen + 1
      /\ stream' = [gen |-> 0, stage |-> "none"] /\ stream'.stage = "none" /\ call' = 0 /\ timer' = 0
      /\ saved' = (IF dirty THEN messages ELSE saved) /\ dirty' = FALSE /\ cut' = cut \cup {gen}
      /\ UNCHANGED <<ops, user, buf, requesting, streaming, messages, queue, shown, editing, answer, done, dropped>>
  BY DEF Unmount, NoStream
<1>2. gen \in Nat /\ gen + 1 \in Gens /\ gen + 1 \in Nat /\ 0 \in Gens /\ gen \in Gens /\ gen <= gen + 1
  <2>1. gen \in Nat /\ gen + 1 \in Gens /\ gen + 1 \in Nat /\ 0 \in Gens /\ gen \in Gens
    BY <1>1, NextGen, Types
  <2> QED
    BY <2>1
<1>3. Ex \subseteq Ex'
  BY <1>1 DEF Ex
<1> DEFINE F == Fine(Ex, answer, gen)
           G == Fine(Ex', answer, gen + 1)
<1>4. F \subseteq G
  <2>1. dropped \subseteq dropped
    OBVIOUS
  <2> QED
    BY <1>2, <1>3, <2>1, MessagesGrow
<1>5. messages \in Seq(F) /\ \A i \in DOMAIN messages:
                              Pending(messages[i]) /\ messages[i].req \notin dropped
                                => i = Len(messages) /\ messages[i].req = gen
  <2>1. CASE ~shown.generating
    <3>1. messages \in Seq(Past(Ex, dropped, answer, gen))
      BY <1>1, <2>1 DEF Quiet
    <3>2. messages \in Seq(F)
      BY <3>1, Inclusions, SeqMonotonic
    <3>3. \A i \in DOMAIN messages: messages[i] \in Past(Ex, dropped, answer, gen)
      BY <3>1, LenProperties
    <3> QED
      BY <3>2, <3>3 DEF Past
  <2>2. CASE shown.generating
    <3>1. messages \in Ending(Earlier(Ex, dropped, answer, gen), Current(Ex, answer, gen))
      BY <1>1, <2>2, BusyLists
    <3>2. Earlier(Ex, dropped, answer, gen) \subseteq F /\ Current(Ex, answer, gen) \subseteq F
      BY Inclusions
    <3>3. messages \in Seq(F)
      <4> HIDE DEF F
      <4> QED
        BY <3>1, <3>2, EndingIsSeq
    <3>4. ASSUME NEW i \in DOMAIN messages, Pending(messages[i]), messages[i].req \notin dropped
          PROVE  i = Len(messages) /\ messages[i].req = gen
      <4>1. Len(messages) \in Nat /\ i \in 1..Len(messages)
        BY <3>3, LenProperties
      <4>2. CASE i = Len(messages)
        BY <3>1, <4>2 DEF Ending, Current
      <4>3. CASE i # Len(messages)
        <5>1. i \in 1..(Len(messages) - 1)
          BY <4>1, <4>3
        <5>2. messages[i] \in Earlier(Ex, dropped, answer, gen)
          BY <3>1, <5>1 DEF Ending
        <5> QED
          BY <3>4, <5>2 DEF Earlier, Past
      <4> QED
        BY <4>2, <4>3
    <3> QED
      BY <3>3, <3>4
  <2> QED
    BY <2>1, <2>2
<1>6. messages \in Seq(G)
  <2> HIDE DEF F, G
  <2> QED
    BY <1>4, <1>5, SeqMonotonic
<1>7. messages \in Resting(Ex', dropped, cut', answer, gen + 1)
  <2>1. gen \in cut'
    BY <1>1
  <2>2. \A i \in DOMAIN messages:
          Pending(messages[i]) /\ messages[i].req \notin dropped => i = Len(messages) /\ messages[i].req \in cut'
    BY <1>5, <2>1
  <2> QED
    BY <1>6, <2>2 DEF Resting
<1>8. saved' = Nil \/ saved' = messages
  BY <1>1 DEF Stored
<1>9. TypeOK'
  <2>1. stream' \in [gen: Gens, stage: {"none", "headers", "open"}] /\ call' \in Gens /\ timer' \in Gens
    BY <1>1, <1>2
  <2>2. cut' \subseteq Gens
    BY <1>1, <1>2 DEF TypeOK
  <2>3. saved' = Nil \/ saved' \in Seq(Message)
    BY <1>8 DEF TypeOK
  <2> QED
    BY <1>1, <1>2, <2>1, <2>2, <2>3 DEF TypeOK
<1>10. Control'
  BY <1>1 DEF Control
<1>11. Tagged'
  BY <1>1 DEF Tagged
<1>12. Fresh'
  <2> SUFFICES ASSUME NEW g \in Gens, g > gen + 1 PROVE answer[g] = 0
    BY <1>1 DEF Fresh
  <2>1. g > gen
    BY Types DEF Gens
  <2> QED
    BY <2>1 DEF Fresh
<1>13. Quiet' /\ Busy' /\ Stored'
  BY <1>1 DEF Quiet, Busy, Stored
<1>14. Away'
  BY <1>1, <1>6, <1>7, <1>8 DEF Away
<1> QED
  BY <1>9, <1>10, <1>11, <1>12, <1>13, <1>14

(* normalizeStoredMessageForLoad and sanitizeMessagesOnLoad: what was cut   *)
(* is complete, or an error when it is empty; nothing waits any more.       *)
LEMMA LoadedIs ==
  ASSUME NEW ex, NEW d, NEW c, d \subseteq ex, c \subseteq ex, NEW a, NEW g, NEW ms \in Resting(ex, d, c, a, g)
  PROVE  Loaded(ms) \in Seq(Past(ex, d, a, g))
<1> DEFINE n == Len(ms)
           ns == [i \in DOMAIN ms |-> NormalizeStoredMessageForLoad(ms[i])]
           open == {i \in DOMAIN ns: Pending(ns[i])}
           x == CHOOSE i \in open: \A j \in open: j <= i
           ls == Loaded(ms)
<1>1. n \in Nat /\ DOMAIN ms = 1..n /\ \A i \in 1..n: ms[i] \in Fine(ex, a, g)
  BY LenProperties DEF Resting
<1>2. \A i \in 1..n: Pending(ms[i]) /\ ms[i].req \notin d => i = n /\ ms[i].req \in c
  BY <1>1 DEF Resting
<1>3. ASSUME NEW i \in 1..n
      PROVE  /\ ns[i] \in Fine(ex, a, g) /\ ns[i].req = ms[i].req
             /\ Pending(ns[i]) => Pending(ms[i])
  <2> DEFINE m == ms[i]
  <2>1. m \in Fine(ex, a, g) /\ m \in Message
    BY <1>1, Inclusions
  <2>2. ns[i] = NormalizeStoredMessageForLoad(m)
    BY <1>1
  <2>3. CASE ~Pending(m) \/ m.content = <<>>
    <3>1. ns[i] = m
      BY <2>2, <2>3 DEF NormalizeStoredMessageForLoad
    <3> QED
      BY <2>1, <3>1
  <2>4. CASE Pending(m) /\ m.content # <<>>
    <3> DEFINE e == [m EXCEPT !.status = "complete"]
    <3>1. ns[i] = e
      BY <2>2, <2>4 DEF NormalizeStoredMessageForLoad
    <3>2. e \in Message /\ e.from = m.from /\ e.req = m.req /\ e.content = m.content /\ e.status = "complete"
      BY <2>1 DEF Message, Status
    <3>3. m.req \in ex
      BY <1>2, <2>4
    <3> HIDE DEF e, ns
    <3>4. e \in Fine(ex, a, g)
      BY <2>1, <3>2, <3>3 DEF Fine
    <3> QED
      BY <3>1, <3>2, <3>4, <2>4
  <2> QED
    BY <2>3, <2>4
<1>4. DOMAIN ns = 1..n /\ ns = [i \in 1..n |-> ns[i]]
  BY <1>1
<1>5. ls = IF open = {} THEN ns ELSE [ns EXCEPT ![x].status = "error"]
  BY DEF Loaded, SanitizeMessagesOnLoad
<1> HIDE DEF ns, ls
<1>6. \A i \in 1..n: i \in open <=> Pending(ns[i])
  BY <1>4
<1>7. ls \in [1..n -> Past(ex, d, a, g)]
  <2>1. CASE open = {}
    <3>1. \A i \in 1..n: ns[i] \in Past(ex, d, a, g)
      BY <1>3, <1>6, <2>1 DEF Past
    <3>2. ls = ns
      BY <1>5, <2>1
    <3> QED
      BY <1>4, <3>1, <3>2
  <2>2. CASE open # {}
    <3>1. ASSUME NEW j \in 1..n, Pending(ns[j]), ns[j].req \notin d
          PROVE  j = x
      <4>1. j = n /\ j \in open
        BY <1>2, <1>3, <1>6, <3>1
      <4>2. \A k \in open: k \in 1..n
        BY <1>4
      <4> HIDE DEF open
      <4>3. \A k \in open: k <= j
        BY <1>1, <4>1, <4>2
      <4>4. x \in open /\ \A k \in open: k <= x
        BY <4>1, <4>3
      <4>5. j <= x /\ x <= j
        BY <4>1, <4>3, <4>4
      <4>6. x \in 1..n /\ j \in 1..n
        BY <4>2, <4>4
      <4> HIDE DEF x
      <4> QED
        BY <1>1, <4>5, <4>6
    <3> HIDE DEF x
    <3> DEFINE err(m) == [m EXCEPT !.status = "error"]
    <3>2. ls = [j \in 1..n |-> IF j = x THEN err(ns[j]) ELSE ns[j]]
      BY <1>4, <1>5, <2>2
    <3>3. ASSUME NEW j \in 1..n PROVE (IF j = x THEN err(ns[j]) ELSE ns[j]) \in Past(ex, d, a, g)
      <4>1. CASE j = x
        <5> DEFINE m == ns[j]
                   e == err(m)
        <5>1. m \in Fine(ex, a, g) /\ m \in Message
          BY <1>3, Inclusions
        <5>2. e \in Message /\ e.from = m.from /\ e.req = m.req /\ e.content = m.content /\ e.status = "error"
          BY <5>1 DEF Message, Status
        <5> HIDE DEF e, m
        <5>3. e \in Fine(ex, a, g)
          BY <5>1, <5>2 DEF Fine
        <5>4. e \in Past(ex, d, a, g)
          BY <5>2, <5>3 DEF Past, Pending
        <5> QED
          BY <4>1, <5>4 DEF e, m
      <4>2. CASE j # x
        BY <1>3, <3>1, <4>2 DEF Past
      <4> QED
        BY <4>1, <4>2
    <3> HIDE DEF err
    <3> QED
      BY <3>2, <3>3
  <2> QED
    BY <2>1, <2>2
<1>8. ls \in Seq(Past(ex, d, a, g))
  BY <1>1, <1>7, SeqDef
<1> QED
  BY <1>8 DEF ls

(* The page is opened with what is stored.                                  *)
LEMMA MountInv ==
  ASSUME Inv, Mount
  PROVE  Inv'
<1> USE DEF Inv
<1>1. /\ ~mounted /\ mounted' = TRUE
      /\ messages' = (IF saved = Nil THEN <<>> ELSE Loaded(saved))
      /\ saved' = (IF saved = Nil THEN Nil ELSE messages')
      /\ queue' = <<>> /\ dirty' = FALSE
      /\ shown' = [messages |-> messages', generating |-> FALSE]
      /\ shown'.messages = messages' /\ shown'.generating = FALSE
      /\ requesting' = FALSE /\ streaming' = FALSE
      /\ buf' = [gen |-> gen, chunks |-> <<>>] /\ buf'.gen = gen /\ buf'.chunks = <<>>
      /\ editing' = Nil
      /\ UNCHANGED <<ops, user, gen, stream, call, timer, answer, done, cut, dropped>>
  BY DEF Mount, NoChunks
<1>2. stream.stage = "none" /\ call = 0 /\ timer = 0
  BY <1>1 DEF Control
<1>3. messages' \in Seq(Past(Ex, dropped, answer, gen)) /\ messages' \in Seq(Message)
  <2>1. messages' \in Seq(Past(Ex, dropped, answer, gen))
    <3>1. CASE saved = Nil
      BY <1>1, <3>1, EmptySeq
    <3>2. CASE saved # Nil
      <4>1. saved \in Resting(Ex, dropped, cut, answer, gen)
        BY <1>1, <3>2 DEF Away
      <4>2. dropped \subseteq Ex /\ cut \subseteq Ex
        BY DEF Ex
      <4> QED
        BY <1>1, <3>2, <4>1, <4>2, LoadedIs
    <3> QED
      BY <3>1, <3>2
  <2>2. Past(Ex, dropped, answer, gen) \subseteq Message
    BY Inclusions
  <2> QED
    BY <2>1, <2>2, SeqMonotonic
<1>4. TypeOK'
  <2>1. queue' \in Seq(Update) /\ shown' \in [messages: Seq(Message), generating: BOOLEAN]
    BY <1>1, <1>3, EmptySeq
  <2>2. buf' \in [gen: Gens, chunks: Seq(Chunk)]
    BY <1>1, Types, EmptySeq
  <2> QED
    BY <1>1, <1>3, <2>1, <2>2 DEF TypeOK
<1>5. Control'
  BY <1>1, <1>2 DEF Control
<1>6. Tagged' /\ Fresh'
  BY <1>1 DEF Tagged, Fresh
<1>7. Quiet'
  BY <1>1, <1>3 DEF Quiet, Ex
<1>8. Busy' /\ Away' /\ Stored'
  BY <1>1 DEF Busy, Away, Stored
<1> QED
  BY <1>4, <1>5, <1>6, <1>7, <1>8

-----------------------------------------------------------------------------
(* The results.                                                             *)

(* Every step keeps the invariant.                                          *)
LEMMA NextInv ==
  ASSUME Inv, [Next]_vars
  PROVE  Inv'
<1>1. CASE UNCHANGED vars
  BY <1>1, StutterInv
<1>2. CASE Render
  BY <1>2, RenderInv
<1>3. CASE SendMessage
  BY <1>3, SendMessageInv
<1>4. ASSUME NEW i \in DOMAIN shown.messages, RegenerateMessage(i) PROVE Inv'
  BY <1>4, RegenerateMessageInv
<1>5. ASSUME NEW i \in DOMAIN shown.messages, EditMessage(i) PROVE Inv'
  BY <1>5, EditMessageInv
<1>6. ASSUME NEW i \in DOMAIN shown.messages, SubmitEdit(i) PROVE Inv'
  BY <1>6, SubmitEditInv
<1>7. ASSUME NEW i \in DOMAIN shown.messages, SaveEdit(i) PROVE Inv'
  BY <1>7, SaveEditInv
<1>8. ASSUME NEW i \in DOMAIN shown.messages, DeleteMessage(i) PROVE Inv'
  BY <1>8, DeleteMessageInv
<1>9. CASE CancelEdit
  BY <1>9, CancelEditInv
<1>10. CASE ClearMessages
  BY <1>10, ClearMessagesInv
<1>11. CASE StopGeneration
  BY <1>11, StopGenerationInv
<1>12. CASE HeadersReady
  BY <1>12, HeadersReadyInv
<1>13. CASE StreamUpdate
  BY <1>13, StreamUpdateInv
<1>14. CASE FlushTimer
  BY <1>14, FlushTimerInv
<1>15. CASE StreamComplete
  BY <1>15, StreamCompleteInv
<1>16. CASE StreamError
  BY <1>16, StreamErrorInv
<1>17. CASE CallAnswered
  BY <1>17, CallAnsweredInv
<1>18. CASE CallFails
  BY <1>18, CallFailsInv
<1>19. CASE SaveMessages
  BY <1>19, SaveMessagesInv
<1>20. CASE Unmount
  BY <1>20, UnmountInv
<1>21. CASE Mount
  BY <1>21, MountInv
<1>22. CASE SignOut
  BY <1>22, SignOutInv
<1>23. ASSUME NEW u \in Users, SignIn(u) PROVE Inv'
  BY <1>23, SignInInv
<1> QED
  BY <1>1, <1>2, <1>3, <1>4, <1>5, <1>6, <1>7, <1>8, <1>9, <1>10, <1>11, <1>12, <1>13, <1>14, <1>15, <1>16,
     <1>17, <1>18, <1>19, <1>20, <1>21, <1>22, <1>23 DEF Next

(* What there is, in every mode of the page, is made of fine messages.      *)
LEMMA MessagesAreFine ==
  ASSUME Inv
  PROVE  \A i \in DOMAIN messages: messages[i] \in Fine(Ex, answer, gen)
<1>1. messages \in Seq(Fine(Ex, answer, gen))
  <2>1. CASE ~mounted
    BY <2>1 DEF Inv, Away
  <2>2. CASE mounted /\ ~shown.generating
    <3>1. messages \in Seq(Past(Ex, dropped, answer, gen))
      BY <2>2 DEF Inv, Quiet
    <3> QED
      BY <3>1, Inclusions, SeqMonotonic
  <2>3. CASE mounted /\ shown.generating
    <3>1. messages \in Ending(Earlier(Ex, dropped, answer, gen), Current(Ex, answer, gen))
      BY <2>3, BusyLists DEF Inv
    <3>2. /\ Earlier(Ex, dropped, answer, gen) \subseteq Fine(Ex, answer, gen)
          /\ Current(Ex, answer, gen) \subseteq Fine(Ex, answer, gen)
      BY Inclusions
    <3> QED
      BY <3>1, <3>2, EndingIsSeq
  <2> QED
    BY <2>1, <2>2, <2>3
<1> QED
  BY <1>1, LenProperties

(* A chunk stays in the message of its request.                             *)
LEMMA FineNoForeign ==
  ASSUME Inv
  PROVE  NoForeignChunks
BY MessagesAreFine DEF NoForeignChunks, Fine

(* Answers are in order, and whole when they look complete.                 *)
LEMMA FineAreWhole ==
  ASSUME Inv
  PROVE  AnswersAreWhole
BY MessagesAreFine DEF AnswersAreWhole, Fine, Ex

(* What looks unfinished belongs to the live request.                       *)
LEMMA PendingLive ==
  ASSUME Inv
  PROVE  PendingIsLive
<1> SUFFICES ASSUME mounted, queue = <<>>, NEW i \in DOMAIN messages, Pending(messages[i]), messages[i].req \notin dropped
             PROVE  i = Len(messages) /\ messages[i].req = gen /\ gen \in {stream.gen, call}
  BY DEF PendingIsLive
<1>1. Final = messages
  BY RunNothing DEF Final
<1>2. messages \in Seq(Message) /\ Len(messages) \in Nat /\ i \in 1..Len(messages)
  BY LenProperties DEF Inv, TypeOK
<1>3. shown.generating
  <2> SUFFICES ASSUME ~shown.generating PROVE FALSE
    OBVIOUS
  <2>1. messages \in Seq(Past(Ex, dropped, answer, gen))
    BY DEF Inv, Quiet
  <2>2. messages[i] \in Past(Ex, dropped, answer, gen)
    BY <1>2, <2>1, ElementOfSeq
  <2> QED
    BY <2>2 DEF Past
<1>4. messages \in Ending(Earlier(Ex, dropped, answer, gen), Current(Ex, answer, gen))
  BY <1>3, BusyLists DEF Inv
<1>5. i = Len(messages)
  <2> SUFFICES ASSUME i # Len(messages) PROVE FALSE
    OBVIOUS
  <2>1. i \in 1..(Len(messages) - 1)
    BY <1>2
  <2>2. messages[i] \in Earlier(Ex, dropped, answer, gen)
    BY <1>4, <2>1 DEF Ending
  <2> QED
    BY <2>2 DEF Earlier, Past
<1>6. messages[i].req = gen
  BY <1>4, <1>5 DEF Ending, Current
<1>7. Live
  <2> SUFFICES ASSUME ~Live PROVE FALSE
    OBVIOUS
  <2>1. messages \in Ending(Earlier(Ex, dropped, answer, gen), Settled(Ex, dropped, answer, gen))
    BY <1>1, <1>3 DEF Inv, Busy
  <2>2. messages[i] \in Settled(Ex, dropped, answer, gen)
    BY <1>5, <2>1 DEF Ending
  <2> QED
    BY <1>6, <2>2 DEF Settled
<1>8. gen \in {stream.gen, call}
  BY <1>7 DEF Live, Inv, Control
<1> QED
  BY <1>5, <1>6, <1>8

(* The invariant holds in every state of the specification.                 *)
THEOREM Invariance == Spec => []Inv
BY InitInv, NextInv, PTL DEF Spec

(* The variables of the chat keep their types.                              *)
THEOREM PlaygroundTypes == Spec => []TypeOK
<1>1. Inv => TypeOK
  BY DEF Inv
<1> QED
  BY <1>1, Invariance, PTL

(* A chunk never ends up in the message of another request, whatever was    *)
(* stopped, edited, deleted, answered late or reloaded in between.          *)
THEOREM ChunksStayHome == Spec => []NoForeignChunks
BY FineNoForeign, Invariance, PTL

(* The text of an answer is its chunks in order and without a gap, and all  *)
(* of them once it looks complete, unless the user cut it short or an edit  *)
(* replaced a list with an update under way.                                *)
THEOREM WholeAnswers == Spec => []AnswersAreWhole
BY FineAreWhole, Invariance, PTL

(* Once React is up to date, only the message of the live request looks     *)
(* unfinished, unless an edit replaced a list with an update under way.     *)
THEOREM OnlyLivePends == Spec => []PendingIsLive
BY PendingLive, Invariance, PTL
=============================================================================
