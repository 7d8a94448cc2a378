----------------------- MODULE ClientRegistry_proofs -----------------------
(***************************************************************************)
(* Proofs about ClientRegistry, for every number of clients, goroutines    *)
(* and keys.                                                               *)
(***************************************************************************)
EXTENDS ClientRegistry, TLAPS, SequenceTheorems, FiniteSetTheorems

-----------------------------------------------------------------------------
(* Sequences of steps. *)

\* A step in front of the others is taken first, and the others are left.
LEMMA InFront ==
    ASSUME NEW S, NEW x \in S, NEW r \in Seq(S)
    PROVE  /\ <<x>> \o r \in Seq(S) /\ <<x>> \o r # <<>>
           /\ Head(<<x>> \o r) = x /\ Tail(<<x>> \o r) = r
<1>1. <<x>> \in Seq(S) /\ Len(<<x>>) = 1 /\ <<x>>[1] = x /\ Len(r) \in Nat
  OBVIOUS
<1> DEFINE q == <<x>> \o r
<1>2. /\ q \in Seq(S) /\ Len(q) = 1 + Len(r)
      /\ \A i \in 1..1 + Len(r) : q[i] = IF i <= 1 THEN <<x>>[i] ELSE r[i - 1]
  BY <1>1, ConcatProperties
<1> HIDE DEF q
<1>3. q # <<>> /\ Head(q) = q[1] /\ q[1] = x
  BY <1>1, <1>2
<1>4. Tail(q) \in Seq(S) /\ Len(Tail(q)) = Len(r)
  BY <1>1, <1>2, <1>3, HeadTailProperties
<1>5. \A i \in 1..Len(r) : Tail(q)[i] = r[i]
  <2> SUFFICES ASSUME NEW i \in 1..Len(r) PROVE Tail(q)[i] = r[i]
    OBVIOUS
  <2>1. Tail(q)[i] = q[i + 1]
    BY <1>2, <1>3, <1>4, HeadTailProperties
  <2>2. i + 1 \in 1..1 + Len(r) /\ ~ (i + 1 <= 1) /\ (i + 1) - 1 = i
    BY <1>1
  <2> QED BY <1>2, <2>1, <2>2
<1>6. Tail(q) = r
  BY <1>4, <1>5, SeqEqual
<1> QED BY <1>2, <1>3, <1>6 DEF q

\* What BuildContext puts in the place of its first step.
LEMMA InARow ==
    ASSUME NEW S, NEW a \in S, NEW b \in S, NEW c \in S, NEW d \in S
    PROVE  /\ <<a, b>> \o <<c>> = <<a, b, c>>
           /\ <<a, b, c>> \o <<d>> = <<a, b, c, d>>
           /\ <<c>> \o <<d>> = <<c, d>>
<1>1. /\ Len(<<a>>) = 1 /\ Len(<<a, b>>) = 2 /\ Len(<<a, b, c>>) = 3
      /\ <<a, b>> \in Seq(S) /\ <<a, b, c>> \in Seq(S) /\ <<c>> \in Seq(S) /\ <<d>> \in Seq(S)
      /\ Len(<<c>>) = 1 /\ Len(<<d>>) = 1
  OBVIOUS
<1>2. <<a, b>> \o <<c>> = <<a, b, c>>
  <2> DEFINE q == <<a, b>> \o <<c>>
  <2>1. q \in Seq(S) /\ Len(q) = 3 /\ q[1] = a /\ q[2] = b /\ q[3] = c
    BY <1>1, ConcatProperties
  <2> HIDE DEF q
  <2>2. q = <<a, b, c>>
    BY <2>1
  <2> QED BY <2>2 DEF q
<1>3. <<a, b, c>> \o <<d>> = <<a, b, c, d>>
  <2> DEFINE q == <<a, b, c>> \o <<d>>
  <2>1. q \in Seq(S) /\ Len(q) = 4 /\ q[1] = a /\ q[2] = b /\ q[3] = c /\ q[4] = d
    BY <1>1, ConcatProperties
  <2> HIDE DEF q
  <2>2. q = <<a, b, c, d>>
    BY <2>1
  <2> QED BY <2>2 DEF q
<1>4. <<c>> \o <<d>> = <<c, d>>
  <2> DEFINE q == <<c>> \o <<d>>
  <2>1. q \in Seq(S) /\ Len(q) = 2 /\ q[1] = c /\ q[2] = d
    BY <1>1, ConcatProperties
  <2> HIDE DEF q
  <2>2. q = <<c, d>>
    BY <2>1
  <2> QED BY <2>2 DEF q
<1> QED BY <1>2, <1>3, <1>4

\* A call of one step, and the second step of a call.
LEMMA OnlyStep ==
    ASSUME NEW S, NEW q \in Seq(S), q # <<>>, Tail(q) = <<>>, NEW x
    PROVE  q = <<Head(q)>> /\ q[1] = Head(q) /\ [q EXCEPT ![1] = x] = <<x>>
<1>1. Len(q) \in Nat /\ Len(Tail(q)) = Len(q) - 1 /\ Head(q) = q[1]
  BY HeadTailProperties
<1>2. Len(Tail(q)) = 0
  BY EmptySeq
<1>3. Len(q) = 1
  BY <1>1, <1>2
<1> QED BY <1>2

LEMMA HeadsAndTails ==
    /\ \A a : <<a>> # <<>> /\ Head(<<a>>) = a /\ Tail(<<a>>) = <<>>
    /\ \A a, b : <<a, b>> # <<>> /\ Head(<<a, b>>) = a /\ Tail(<<a, b>>) = <<b>>
    /\ \A a, b, c : <<a, b, c>> # <<>> /\ Head(<<a, b, c>>) = a /\ Tail(<<a, b, c>>) = <<b, c>>
    /\ \A a, b, c, d : /\ <<a, b, c, d>> # <<>> /\ Head(<<a, b, c, d>>) = a
                       /\ Tail(<<a, b, c, d>>) = <<b, c, d>>
OBVIOUS

LEMMA SecondStep ==
    ASSUME NEW S, NEW q \in Seq(S), q # <<>>, Tail(q) # <<>>
    PROVE  q[2] = Head(Tail(q)) /\ q[2] \in S
<1>1. Tail(q) \in Seq(S) /\ Tail(q)[1] = q[2]
  BY HeadTailProperties
<1> QED BY <1>1

-----------------------------------------------------------------------------
(* The calls a goroutine can be in the middle of, and the inductive invariant *)
(* that is about all of them.                                                 *)

\* One goroutine of the application starts work, at most.
Sole == \A t, u \in Starter : t = u

\* The steps that a call can have, with what they are about.
StepSet ==
    {s \in [do     : {"start", "stop", "await", "launch", "lookup", "create",
                      "swap", "replace", "store"},
            client : made \cup {NoClient},
            of     : Worker \cup Kind \cup Key \cup {""}] :
        /\ s.do = "await" => s.of \in Worker
        /\ s.do \in {"start", "stop", "launch"} => s.of \in Kind
        /\ s.do \in {"lookup", "create"} => s.of \in Key
        /\ s.do \notin {"start", "stop", "lookup"} => s.client \in made}

\* Nothing of this kind runs that nobody has told to stop.
Quiet(k) == \A w \in Worker : worker[w].kind = k => ~Running(w)

AllQuiet == \A w \in Worker : ~Running(w)

\* A single step is left.
Last(q, do) == q # <<>> /\ Tail(q) = <<>> /\ Head(q).do = do

\* A call that has no client yet, or is about to get a new one.
Clientless(q, do) ==
    \/ Last(q, do) /\ Head(q).client = NoClient
    \/ /\ q # <<>> /\ Head(q).do = "swap"
       /\ Last(Tail(q), do) /\ Head(Tail(q)).client = NoClient

\* Stop of this kind comes first: the signal, or the wait.
Halts(q, k) ==
    /\ q # <<>> /\ Head(q).client \in made
    /\ \/ Head(q).do = "stop" /\ Head(q).of = k
       \/ Head(q).do = "await"

Signalled(q) == Head(q).do = "await"

\* StopWork and GetSwitcher, which any goroutine calls.
UseCall(q) ==
    \/ q = <<>>
    \/ Clientless(q, "stop") \/ Clientless(q, "lookup")
    \/ (\E k \in Kind : Halts(q, k)) /\ Tail(q) = <<>>
    \/ Last(q, "lookup") /\ Head(q).client \in made
    \/ Last(q, "create")

\* Work of the global client is about to start, in the place of nothing.
Vacant(s) == s.client = global /\ handle[<<s.client, s.of>>] = NoWorker

\* StartWork, and the end of BuildContext.
StartCall(q) ==
    \/ Clientless(q, "start")
    \/ /\ Last(q, "start") /\ Head(q).client \in made
       /\ Sole => Head(q).client = global
    \/ /\ q # <<>> /\ Last(Tail(q), "launch")
       /\ Halts(q, Head(Tail(q)).of) /\ Head(q).client = Head(Tail(q)).client
       /\ Sole => Head(q).client = global
       /\ Sole /\ Signalled(q) => Vacant(Head(Tail(q)))
    \/ /\ Last(q, "launch")
       /\ Sole => Vacant(Head(q))

\* The end of BuildContext, with the new client.
Stores(q) ==
    /\ q # <<>> /\ Head(q).do = "store"
    /\ \/ Tail(q) = <<>>
       \/ Last(Tail(q), "start") /\ Head(Tail(q)).client = Head(q).client

\* BuildContext.  When a sole starter stores the new client, nothing of the
\* former one is left.
BuildCall(q) ==
    \/ Last(q, "replace")
    \/ /\ Halts(q, "updater") /\ Halts(Tail(q), "watcher") /\ ~Signalled(Tail(q))
       /\ Stores(Tail(Tail(q)))
       /\ Sole => Head(q).client = global /\ Head(Tail(q)).client = global
       /\ Sole /\ Signalled(q) => Quiet("updater")
    \/ /\ Halts(q, "watcher") /\ Stores(Tail(q))
       /\ Sole => Head(q).client = global /\ Quiet("updater")
       /\ Sole /\ Signalled(q) => AllQuiet
    \/ /\ Stores(q)
       /\ Sole => AllQuiet

CallOf(t) ==
    \/ UseCall(todo[t])
    \/ t \in Starter /\ (StartCall(todo[t]) \/ BuildCall(todo[t]))

CallsInv ==
    /\ todo \in [Thread -> Seq(StepSet)]
    /\ \A t \in Thread : CallOf(t)

Typed ==
    /\ WorkerTypeOK
    /\ \A w \in Worker : worker[w].pc # "unused" => worker[w].client \in Client
    /\ global \in made \cup {NoClient}
    /\ made \subseteq Client
    /\ switchers \in [Client \X Key -> Thread \cup {NoSwitcher}]

RegistryInv == Typed /\ CallsInv /\ (Sole => WorkStoppable)

-----------------------------------------------------------------------------
(* What a step leaves alone. *)

\* A step that starts nothing: the calls of a sole starter can count on what they
\* knew.
Calm ==
    /\ global' = global \/ global = NoClient
    /\ \A h \in Client \X Kind : handle'[h] = handle[h] \/ handle'[h] = NoWorker
    /\ \A w \in Worker : Running(w)' => Running(w) /\ worker'[w].kind = worker[w].kind

LEMMA StepSetGrows == ASSUME made \subseteq made' PROVE StepSet \subseteq StepSet'
BY DEF StepSet

LEMMA QuietStays == ASSUME Calm, NEW k, Quiet(k) PROVE Quiet(k)'
BY DEF Calm, Quiet

LEMMA UseStays ==
    ASSUME made \subseteq made', NEW u \in Thread, todo'[u] = todo[u], UseCall(todo[u])
    PROVE  UseCall(todo[u])'
BY DEF UseCall, Clientless, Halts, Last

LEMMA StartStays ==
    ASSUME Typed, CallsInv, made \subseteq made', NEW u \in Thread, todo'[u] = todo[u],
           Sole => Calm, StartCall(todo[u])
    PROVE  StartCall(todo[u])'
<1>1. \A g \in made : g \in made' /\ (Sole /\ g = global => g = global')
  BY WorkerAssumption DEF Typed, Calm
<1>2. ASSUME NEW s \in StepSet, s.do = "launch", Sole, Vacant(s) PROVE Vacant(s)'
  <2>1. s.client \in made /\ s.of \in Kind
    BY <1>2 DEF StepSet
  <2>2. <<s.client, s.of>> \in Client \X Kind
    BY <2>1 DEF Typed
  <2> QED BY <1>1, <1>2, <2>1, <2>2 DEF Vacant, Calm
<1>3. todo[u] # <<>> => Head(todo[u]) \in StepSet /\ Tail(todo[u]) \in Seq(StepSet)
  BY HeadTailProperties DEF CallsInv
<1>4. todo[u] # <<>> /\ Tail(todo[u]) # <<>> => Head(Tail(todo[u])) \in StepSet
  BY <1>3, HeadTailProperties
<1> DEFINE q == todo[u]
<1> HIDE DEF q
<1>5. CASE Clientless(todo[u], "start")
  BY <1>5 DEF StartCall, Clientless, Last
<1>6. CASE Last(q, "start") /\ Head(q).client \in made /\ (Sole => Head(q).client = global)
  BY <1>1, <1>6 DEF StartCall, Last, q
<1>7. CASE /\ q # <<>> /\ Last(Tail(q), "launch")
           /\ Halts(q, Head(Tail(q)).of) /\ Head(q).client = Head(Tail(q)).client
           /\ Sole => Head(q).client = global
           /\ Sole /\ Signalled(q) => Vacant(Head(Tail(q)))
  <2>1. Head(q).client \in made
    BY <1>7 DEF Halts
  <2>2. Halts(q, Head(Tail(q)).of)'
    BY <1>1, <1>7 DEF Halts, q
  <2>3. Sole /\ Signalled(q) => Vacant(Head(Tail(q)))'
    BY <1>2, <1>4, <1>7 DEF q, Last
  <2> QED BY <1>1, <1>7, <2>1, <2>2, <2>3 DEF StartCall, Last, Signalled, q
<1>8. CASE Last(q, "launch") /\ (Sole => Vacant(Head(q)))
  BY <1>2, <1>3, <1>8 DEF StartCall, Last, q
<1> QED BY <1>5, <1>6, <1>7, <1>8 DEF StartCall, q

LEMMA BuildStays ==
    ASSUME Typed, CallsInv, made \subseteq made', NEW u \in Thread, todo'[u] = todo[u],
           Sole => Calm, BuildCall(todo[u])
    PROVE  BuildCall(todo[u])'
<1>1. \A g \in made : g \in made' /\ (Sole /\ g = global => g = global')
  BY WorkerAssumption DEF Typed, Calm
<1>2. \A k : Sole /\ Quiet(k) => Quiet(k)'
  BY QuietStays
<1>3. Sole /\ AllQuiet => AllQuiet'
  BY DEF Calm, AllQuiet
<1> DEFINE q == todo[u]
<1> HIDE DEF q
<1>4. ASSUME NEW k
      PROVE  /\ Halts(q, k) => (Halts(q, k)' /\ Head(q).client \in made)
             /\ Halts(Tail(q), k) => (Halts(Tail(q), k)' /\ Head(Tail(q)).client \in made)
  BY <1>1 DEF Halts, q
<1>5. /\ Stores(q) => Stores(q)'
      /\ Stores(Tail(q)) => Stores(Tail(q))'
      /\ Stores(Tail(Tail(q))) => Stores(Tail(Tail(q)))'
  <2>1. q' = q
    BY DEF q
  <2> QED BY <2>1 DEF Stores, Last
<1>6. (Signalled(q)' <=> Signalled(q)) /\ (Signalled(Tail(q))' <=> Signalled(Tail(q)))
  BY DEF Signalled, q
<1>7. CASE Last(q, "replace")
  BY <1>7 DEF BuildCall, Last, q
<1>8. CASE /\ Halts(q, "updater") /\ Halts(Tail(q), "watcher") /\ ~Signalled(Tail(q))
           /\ Stores(Tail(Tail(q)))
           /\ Sole => Head(q).client = global /\ Head(Tail(q)).client = global
           /\ Sole /\ Signalled(q) => Quiet("updater")
  BY <1>1, <1>2, <1>4, <1>5, <1>6, <1>8 DEF BuildCall, q
<1>9. CASE /\ Halts(q, "watcher") /\ Stores(Tail(q))
           /\ Sole => Head(q).client = global /\ Quiet("updater")
           /\ Sole /\ Signalled(q) => AllQuiet
  BY <1>1, <1>2, <1>3, <1>4, <1>5, <1>6, <1>9 DEF BuildCall, q
<1>10. CASE Stores(q) /\ (Sole => AllQuiet)
  BY <1>3, <1>5, <1>10 DEF BuildCall, q
<1> QED BY <1>7, <1>8, <1>9, <1>10 DEF BuildCall, q

\* A goroutine that takes a step disturbs no other's call, if it is the sole
\* starter, or starts nothing.
LEMMA OthersKeep ==
    ASSUME Typed, CallsInv, NEW t \in Thread, made \subseteq made',
           NEW q \in Seq(StepSet'), todo' = [todo EXCEPT ![t] = q], CallOf(t)',
           t \in Starter \/ (Sole => Calm)
    PROVE  CallsInv'
<1>1. Seq(StepSet) \subseteq Seq(StepSet')
  BY StepSetGrows
<1>2. todo' \in [Thread -> Seq(StepSet')]
  BY <1>1 DEF CallsInv
<1>3. ASSUME NEW u \in Thread, u # t PROVE CallOf(u)'
  <2>1. todo'[u] = todo[u]
    BY <1>3 DEF CallsInv
  <2>2. CASE UseCall(todo[u])
    BY <2>1, <2>2, UseStays DEF CallOf
  <2>3. CASE u \in Starter /\ (StartCall(todo[u]) \/ BuildCall(todo[u]))
    <3>1. Sole => t \notin Starter
      BY <1>3, <2>3 DEF Sole
    <3> QED BY <2>1, <2>3, <3>1, StartStays, BuildStays DEF CallOf
  <2> QED BY <2>2, <2>3 DEF CallsInv, CallOf
<1> QED BY <1>2, <1>3 DEF CallsInv

\* The same, when no goroutine of the application takes a step.
LEMMA AllKeep ==
    ASSUME Typed, CallsInv, UNCHANGED <<todo, made>>, Sole => Calm
    PROVE  CallsInv'
<1>1. StepSet' = StepSet
  BY DEF StepSet
<1>2. ASSUME NEW u \in Thread PROVE CallOf(u)'
  BY UseStays, StartStays, BuildStays DEF CallsInv, CallOf
<1> QED BY <1>1, <1>2 DEF CallsInv

-----------------------------------------------------------------------------
(* Where the steps of a call lead. *)

\* A new call of goroutine t is a call, and disturbs no other.
LEMMA CallBegins ==
    ASSUME RegistryInv, NEW t \in Thread,
           \/ t \in Starter /\ (BuildContext(t) \/ StartWork(t))
           \/ StopWork(t) \/ GetSwitcher(t)
    PROVE  CallsInv'
<1> USE DEF RegistryInv
<1>1. ASSUME NEW step \in StepSet', Call(t, step), made \subseteq made', UNCHANGED <<workers, global>>,
             CallOf(t)'
      PROVE  CallsInv'
  <2>1. Calm
    BY <1>1 DEF Calm, workers, Running
  <2>2. <<step>> \in Seq(StepSet') /\ todo' = [todo EXCEPT ![t] = <<step>>]
    BY <1>1 DEF Call
  <2> QED BY <1>1, <2>1, <2>2, OthersKeep
<1>2. ASSUME NEW do \in {"start", "stop"}, NEW k \in Kind, Call(t, Step(do, NoClient, k)),
             UNCHANGED <<workers, global, made>>, do = "start" => t \in Starter
      PROVE  CallsInv'
  <2> DEFINE s == Step(do, NoClient, k)
  <2>1. s \in StepSet' /\ s.do = do /\ s.client = NoClient
    BY DEF StepSet, Step
  <2> HIDE DEF s
  <2>2. todo'[t] # <<>> /\ Head(todo'[t]) = s /\ Tail(todo'[t]) = <<>>
    BY <1>2 DEF Call, CallsInv, s
  <2>3. Clientless(todo[t], do)'
    BY <2>1, <2>2 DEF Clientless, Last
  <2>4. CallOf(t)'
    BY <1>2, <2>3 DEF CallOf, StartCall, UseCall
  <2> QED BY <1>1, <1>2, <2>1, <2>4 DEF s
<1>3. CASE t \in Starter /\ BuildContext(t)
  <2> DEFINE s == Step("replace", NewClient, "")
  <2>1. made' = made \cup {NewClient} /\ Call(t, s) /\ UNCHANGED <<workers, global>>
    BY <1>3 DEF BuildContext
  <2>2. s \in StepSet' /\ s.do = "replace"
    BY <2>1 DEF StepSet, Step
  <2> HIDE DEF s
  <2>3. todo'[t] # <<>> /\ Head(todo'[t]) = s /\ Tail(todo'[t]) = <<>>
    BY <2>1 DEF Call, CallsInv
  <2>5. CallOf(t)'
    BY <1>3, <2>2, <2>3 DEF CallOf, BuildCall, Last
  <2> QED BY <1>1, <2>1, <2>2, <2>5
<1>4. CASE t \in Starter /\ StartWork(t)
  BY <1>2, <1>4 DEF StartWork
<1>5. CASE StopWork(t)
  BY <1>2, <1>5 DEF StopWork
<1>6. CASE GetSwitcher(t)
  <2>1. PICK key \in Key : Call(t, Step("lookup", NoClient, key))
    BY <1>6 DEF GetSwitcher
  <2> DEFINE s == Step("lookup", NoClient, key)
  <2>2. s \in StepSet' /\ s.do = "lookup" /\ s.client = NoClient
    BY DEF StepSet, Step
  <2>4. Call(t, s) /\ UNCHANGED <<workers, global, made>>
    BY <1>6, <2>1 DEF GetSwitcher
  <2> HIDE DEF s
  <2>3. todo'[t] # <<>> /\ Head(todo'[t]) = s /\ Tail(todo'[t]) = <<>>
    BY <2>4 DEF Call, CallsInv
  <2>5. CallOf(t)'
    BY <2>2, <2>3 DEF CallOf, UseCall, Clientless, Last
  <2> QED BY <1>1, <2>2, <2>4, <2>5
<1> QED BY <1>3, <1>4, <1>5, <1>6

\* A step that is done leaves those behind it; another one can take its place.
LEMMA StepDone ==
    ASSUME CallsInv, NEW t \in Thread, NEW do, Does(t, do, <<>>)
    PROVE  /\ todo[t] # <<>> /\ Head(todo[t]).do = do
           /\ Head(todo[t]) \in StepSet /\ Head(todo[t]).client \in made
           /\ Tail(todo[t]) \in Seq(StepSet)
           /\ todo' = [todo EXCEPT ![t] = Tail(todo[t])] /\ todo'[t] = Tail(todo[t])
<1>1. todo[t] \in Seq(StepSet) /\ todo[t] # <<>>
  BY DEF CallsInv, Does
<1>2. Head(todo[t]) \in StepSet /\ Tail(todo[t]) \in Seq(StepSet)
  BY <1>1, HeadTailProperties
<1>3. <<>> \o Tail(todo[t]) = Tail(todo[t])
  BY <1>2, ConcatEmptySeq
<1> QED BY <1>1, <1>2, <1>3 DEF Does, CallsInv, StepSet

LEMMA StepReplaced ==
    ASSUME CallsInv, NEW t \in Thread, NEW do, NEW x \in StepSet, Does(t, do, <<x>>)
    PROVE  /\ todo[t] # <<>> /\ Head(todo[t]).do = do
           /\ Head(todo[t]) \in StepSet /\ Head(todo[t]).client \in made
           /\ todo' = [todo EXCEPT ![t] = <<x>> \o Tail(todo[t])]
           /\ <<x>> \o Tail(todo[t]) \in Seq(StepSet)
           /\ todo'[t] # <<>> /\ Head(todo'[t]) = x /\ Tail(todo'[t]) = Tail(todo[t])
<1>1. todo[t] \in Seq(StepSet) /\ todo[t] # <<>>
  BY DEF CallsInv, Does
<1>2. Head(todo[t]) \in StepSet /\ Tail(todo[t]) \in Seq(StepSet)
  BY <1>1, HeadTailProperties
<1>3. todo' = [todo EXCEPT ![t] = <<x>> \o Tail(todo[t])]
  BY DEF Does
<1>4. todo'[t] = <<x>> \o Tail(todo[t])
  BY <1>3 DEF CallsInv
<1>5. Head(todo[t]).do = do /\ Head(todo[t]).client \in made
  BY <1>2 DEF Does, StepSet
<1> QED BY <1>1, <1>2, <1>3, <1>4, <1>5, InFront

\* The first step of a call, and those behind it.
LEMMA FirstStep ==
    ASSUME CallsInv, NEW t \in Thread, todo[t] # <<>>
    PROVE  /\ todo[t] \in Seq(StepSet) /\ Head(todo[t]) \in StepSet /\ Tail(todo[t]) \in Seq(StepSet)
           /\ Tail(todo[t]) # <<>> => Head(Tail(todo[t])) \in StepSet
<1>1. todo[t] \in Seq(StepSet) /\ Head(todo[t]) \in StepSet /\ Tail(todo[t]) \in Seq(StepSet)
  BY HeadTailProperties DEF CallsInv
<1> QED BY <1>1, HeadTailProperties

\* The steps that others are replaced by.
LEMMA StepOf ==
    ASSUME NEW c \in made, NEW k \in Kind
    PROVE  /\ \E s \in StepSet : s = Step("start", c, k) /\ s.do = "start" /\ s.client = c /\ s.of = k
           /\ \E s \in StepSet : s = Step("stop", c, k) /\ s.do = "stop" /\ s.client = c /\ s.of = k
           /\ \E s \in StepSet : s = Step("launch", c, k) /\ s.do = "launch" /\ s.client = c /\ s.of = k
<1>1. /\ Step("start", c, k) \in StepSet /\ Step("start", c, k).do = "start"
      /\ Step("start", c, k).client = c /\ Step("start", c, k).of = k
  BY DEF StepSet, Step
<1>2. /\ Step("stop", c, k) \in StepSet /\ Step("stop", c, k).do = "stop"
      /\ Step("stop", c, k).client = c /\ Step("stop", c, k).of = k
  BY DEF StepSet, Step
<1>3. /\ Step("launch", c, k) \in StepSet /\ Step("launch", c, k).do = "launch"
      /\ Step("launch", c, k).client = c /\ Step("launch", c, k).of = k
  BY DEF StepSet, Step
<1> QED BY <1>1, <1>2, <1>3

LEMMA CallFrom ==
    ASSUME NEW t \in Thread, NEW r, r = todo'[t],
           UseCall(r)' \/ (t \in Starter /\ (StartCall(r)' \/ BuildCall(r)'))
    PROVE  CallOf(t)'
<1>1. UseCall(r)' => UseCall(todo[t])'
  BY DEF UseCall, Clientless, Halts, Last
<1>2. StartCall(r)' => StartCall(todo[t])'
  BY DEF StartCall, Clientless, Halts, Last, Signalled
<1>3. BuildCall(r)' => BuildCall(todo[t])'
  BY DEF BuildCall, Halts, Last, Signalled, Stores
<1> QED BY <1>1, <1>2, <1>3 DEF CallOf

-----------------------------------------------------------------------------
(* A step of a call leads to a call. *)

LEMMA DefaultClientKeeps ==
    ASSUME RegistryInv, NEW t \in Thread, DefaultClient(t)
    PROVE  CallsInv'
<1> USE DEF RegistryInv
<1> DEFINE q == todo[t]
<1>1. q # <<>> /\ Head(q).client = NoClient /\ UNCHANGED <<workers, global>>
  BY DEF DefaultClient
<1>2. q \in Seq(StepSet) /\ Head(q) \in StepSet
  BY <1>1, FirstStep
<1>3. NoClient \notin made
  BY WorkerAssumption DEF Typed
<1>4. PICK do \in {"start", "stop", "lookup"} :
         Last(q, do) /\ (do = "start" => t \in Starter)
  <2>1. Head(q).do \in {"start", "stop", "lookup"} /\ ~\E k \in Kind : Halts(q, k)
    BY <1>1, <1>2, <1>3 DEF StepSet, Halts
  <2>2. ~BuildCall(q)
    BY <2>1 DEF BuildCall, Last, Halts, Stores, Kind
  <2>3. CASE UseCall(q)
    BY <1>1, <1>3, <2>1, <2>3 DEF UseCall, Last, Clientless
  <2>4. CASE t \in Starter /\ StartCall(q)
    <3>1. ~(Last(Tail(q), "launch") /\ Halts(q, Head(Tail(q)).of))
      BY <1>1, <1>3 DEF Halts
    <3> QED BY <1>1, <1>3, <2>1, <2>4, <3>1 DEF StartCall, Last, Clientless
  <2> QED BY <2>2, <2>3, <2>4 DEF CallsInv, CallOf
<1>5. CASE /\ global # NoClient
           /\ todo' = [todo EXCEPT ![t][1].client = global]
           /\ UNCHANGED made
  <2>1. PICK x \in StepSet :
          x = [Head(q) EXCEPT !.client = global] /\ x.do = do /\ x.client = global
    <3>1. global \in made /\ Head(q).do = do
      BY <1>4, <1>5 DEF Typed, Last
    <3>2. [Head(q) EXCEPT !.client = global] \in StepSet
      BY <1>2, <3>1 DEF StepSet
    <3>3. [Head(q) EXCEPT !.client = global].do = do /\ [Head(q) EXCEPT !.client = global].client = global
      BY <1>2, <3>1 DEF StepSet
    <3> QED BY <3>2, <3>3
  <2>2. todo' = [todo EXCEPT ![t] = [q EXCEPT ![1] = [q[1] EXCEPT !.client = global]]]
    BY <1>5 DEF CallsInv
  <2>3. q[1] = Head(q) /\ [q EXCEPT ![1] = x] = <<x>>
    BY <1>1, <1>2, <1>4, OnlyStep DEF Last
  <2>4. todo' = [todo EXCEPT ![t] = <<x>>]
    BY <2>1, <2>2, <2>3
  <2>5. x \in StepSet' /\ global' \in made' /\ x.client = global'
    BY <1>1, <1>5, <2>1, StepSetGrows DEF Typed
  <2>6. <<x>> \in Seq(StepSet') /\ Head(<<x>>) = x /\ Tail(<<x>>) = <<>> /\ <<x>> # <<>>
    BY <2>5
  <2>7. todo'[t] = <<x>>
    BY <2>4 DEF CallsInv
  <2>8. todo'[t] # <<>> /\ Head(todo'[t]) = x /\ Tail(todo'[t]) = <<>>
    BY <2>6, <2>7
  <2>9. CallOf(t)'
    <3>1. CASE do = "start"
      BY <1>4, <2>1, <2>5, <2>8, <3>1 DEF CallOf, StartCall, Last
    <3>2. CASE do = "stop"
      <4>1. x.of \in Kind
        BY <2>1, <3>2 DEF StepSet
      <4>2. Halts(todo[t], x.of)'
        BY <2>1, <2>5, <2>8, <3>2 DEF Halts
      <4> QED BY <2>8, <4>1, <4>2 DEF CallOf, UseCall
    <3>3. CASE do = "lookup"
      BY <2>1, <2>5, <2>8, <3>3 DEF CallOf, UseCall, Last
    <3> QED BY <1>4, <3>1, <3>2, <3>3
  <2>13. Calm
    BY <1>1 DEF Calm, workers, Running
  <2> QED BY <1>5, <2>4, <2>6, <2>9, <2>13, OthersKeep
<1>6. CASE /\ Client \ made # {}
           /\ made' = made \cup {NewClient}
           /\ todo' = [todo EXCEPT ![t] = <<Step("swap", NewClient, "")>> \o @]
  <2>1. PICK x \in StepSet' : x = Step("swap", NewClient, "") /\ x.do = "swap"
    <3>1. Step("swap", NewClient, "") \in StepSet' /\ Step("swap", NewClient, "").do = "swap"
      BY <1>6 DEF StepSet, Step
    <3> QED BY <3>1
  <2>2. q \in Seq(StepSet')
    <3>1. StepSet \subseteq StepSet'
      BY <1>6, StepSetGrows
    <3>2. Seq(StepSet) \subseteq Seq(StepSet')
      BY <3>1
    <3> QED BY <1>2, <3>2
  <2>3. /\ <<x>> \o q \in Seq(StepSet') /\ <<x>> \o q # <<>>
        /\ Head(<<x>> \o q) = x /\ Tail(<<x>> \o q) = q
    BY <2>1, <2>2, InFront
  <2>4. todo' = [todo EXCEPT ![t] = <<x>> \o q] /\ todo'[t] = <<x>> \o q
    BY <1>6, <2>1 DEF CallsInv
  <2>5. Clientless(todo'[t], do)
    BY <1>1, <1>4, <2>1, <2>3, <2>4 DEF Clientless
  <2>6. CallOf(t)'
    BY <1>4, <2>5 DEF CallOf, UseCall, StartCall, Clientless, Last
  <2>7. Calm
    BY <1>1 DEF Calm, workers, Running
  <2> QED BY <1>6, <2>3, <2>4, <2>6, <2>7, OthersKeep
<1> QED BY <1>5, <1>6 DEF DefaultClient

LEMMA CompareAndSwapKeeps ==
    ASSUME RegistryInv, NEW t \in Thread, CompareAndSwap(t)
    PROVE  CallsInv'
<1> USE DEF RegistryInv
<1> DEFINE q == todo[t]
<1>1. q # <<>> /\ Head(q).do = "swap" /\ UNCHANGED <<workers, made>>
  BY DEF CompareAndSwap
<1>2. q \in Seq(StepSet) /\ Head(q) \in StepSet /\ Tail(q) \in Seq(StepSet) /\ Head(q).client \in made
  BY <1>1, FirstStep DEF StepSet
<1>3. StepSet' = StepSet
  BY <1>1 DEF StepSet
<1>4. PICK do \in {"start", "stop", "lookup"} :
         /\ Last(Tail(q), do) /\ Head(Tail(q)).client = NoClient
         /\ do = "start" => t \in Starter
  <2>1. ~\E k \in Kind : Halts(q, k)
    BY <1>1 DEF Halts
  <2>2. ~BuildCall(q)
    BY <1>1, <2>1 DEF BuildCall, Last, Halts, Stores, Kind
  <2>3. CASE UseCall(q)
    BY <1>1, <2>1, <2>3 DEF UseCall, Last, Clientless
  <2>4. CASE t \in Starter /\ StartCall(q)
    <3>1. ~(Last(Tail(q), "launch") /\ Halts(q, Head(Tail(q)).of))
      BY <1>1 DEF Halts
    <3> QED BY <1>1, <2>4, <3>1 DEF StartCall, Last, Clientless
  <2> QED BY <2>2, <2>3, <2>4 DEF CallsInv, CallOf
<1>5. Calm
  BY <1>1 DEF Calm, workers, Running, CompareAndSwap
<1>6. CASE global = NoClient /\ global' = Head(q).client
           /\ todo' = [todo EXCEPT ![t] = <<[q[2] EXCEPT !.client = Head(q).client]>>]
  <2>1. q[2] = Head(Tail(q)) /\ q[2] \in StepSet /\ q[2].do = do
    BY <1>1, <1>2, <1>4, SecondStep DEF Last
  <2>2. PICK x \in StepSet :
          x = [q[2] EXCEPT !.client = Head(q).client] /\ x.do = do /\ x.client = Head(q).client
    <3>1. [q[2] EXCEPT !.client = Head(q).client] \in StepSet
      BY <1>2, <2>1 DEF StepSet
    <3>2. /\ [q[2] EXCEPT !.client = Head(q).client].do = do
          /\ [q[2] EXCEPT !.client = Head(q).client].client = Head(q).client
      BY <2>1 DEF StepSet
    <3> QED BY <3>1, <3>2
  <2>3. todo' = [todo EXCEPT ![t] = <<x>>] /\ x.client = global' /\ global' \in made'
    BY <1>1, <1>2, <1>6, <2>2
  <2>4. <<x>> \in Seq(StepSet') /\ Head(<<x>>) = x /\ Tail(<<x>>) = <<>> /\ <<x>> # <<>>
    BY <1>3
  <2>5. todo'[t] = <<x>>
    BY <2>3 DEF CallsInv
  <2>6. todo'[t] # <<>> /\ Head(todo'[t]) = x /\ Tail(todo'[t]) = <<>>
    BY <2>4, <2>5
  <2>7. CallOf(t)'
    <3>1. CASE do = "start"
      BY <1>4, <2>2, <2>3, <2>6, <3>1 DEF CallOf, StartCall, Last
    <3>2. CASE do = "stop"
      <4>1. x.of \in Kind
        BY <2>2, <3>2 DEF StepSet
      <4>2. Halts(todo[t], x.of)'
        BY <2>2, <2>3, <2>6, <3>2 DEF Halts
      <4> QED BY <2>6, <4>1, <4>2 DEF CallOf, UseCall
    <3>3. CASE do = "lookup"
      BY <2>2, <2>3, <2>6, <3>3 DEF CallOf, UseCall, Last
    <3> QED BY <1>4, <3>1, <3>2, <3>3
  <2> QED BY <1>1, <1>5, <2>3, <2>4, <2>7, OthersKeep
<1>7. CASE todo' = [todo EXCEPT ![t] = Tail(q)]
  <2>1. todo'[t] = Tail(q)
    BY <1>7 DEF CallsInv
  <2>2. Clientless(todo'[t], do)
    BY <1>4, <2>1 DEF Clientless, Last
  <2>3. CallOf(t)'
    BY <1>4, <2>2 DEF CallOf, UseCall, StartCall, Clientless, Last
  <2> QED BY <1>1, <1>2, <1>3, <1>5, <1>7, <2>3, OthersKeep
<1> QED BY <1>6, <1>7 DEF CompareAndSwap

LEMMA StoreKeeps ==
    ASSUME RegistryInv, NEW t \in Thread, Store(t)
    PROVE  CallsInv' /\ t \in Starter /\ (Sole => AllQuiet)
<1> USE DEF RegistryInv
<1> DEFINE q == todo[t]
<1>1. Does(t, "store", <<>>) /\ global' = Head(q).client /\ UNCHANGED <<workers, made>>
  BY DEF Store
<1>2. /\ q # <<>> /\ Head(q).do = "store" /\ Head(q).client \in made
      /\ Tail(q) \in Seq(StepSet) /\ todo' = [todo EXCEPT ![t] = Tail(q)] /\ todo'[t] = Tail(q)
  BY <1>1, StepDone
<1>3. ~\E k \in Kind : Halts(q, k)
  BY <1>2 DEF Halts
<1>4. ~UseCall(q)
  BY <1>2, <1>3 DEF UseCall, Last, Clientless
<1>5. ~StartCall(q)
  <2>1. ~(Last(Tail(q), "launch") /\ Halts(q, Head(Tail(q)).of))
    BY <1>2 DEF Halts
  <2> QED BY <1>2, <2>1 DEF StartCall, Last, Clientless
<1>6. t \in Starter /\ Stores(q) /\ (Sole => AllQuiet)
  BY <1>2, <1>3, <1>4, <1>5 DEF BuildCall, Last, CallOf, CallsInv, Kind
<1>7. CallOf(t)'
  <2>1. CASE Tail(q) = <<>>
    BY <1>2, <2>1 DEF CallOf, UseCall
  <2>2. CASE Last(Tail(q), "start") /\ Head(Tail(q)).client = Head(q).client
    <3>1. Head(Tail(q)).client = global' /\ Head(Tail(q)).client \in made'
      BY <1>1, <1>2, <2>2
    <3> QED BY <1>2, <1>6, <2>2, <3>1 DEF CallOf, StartCall, Last
  <2> QED BY <1>6, <2>1, <2>2 DEF Stores
<1>8. Tail(q) \in Seq(StepSet')
  BY <1>1, <1>2 DEF StepSet
<1> QED BY <1>1, <1>2, <1>6, <1>7, <1>8, OthersKeep

LEMMA LaunchNewKeeps ==
    ASSUME RegistryInv, NEW t \in Thread, LaunchNew(t)
    PROVE  CallsInv' /\ (Sole => Vacant(Head(todo[t])))
<1> USE DEF RegistryInv
<1> DEFINE q == todo[t]
<1>1. Does(t, "launch", <<>>) /\ UNCHANGED <<global, made>>
  BY DEF LaunchNew
<1>2. /\ q # <<>> /\ Head(q).do = "launch" /\ Head(q).client \in made
      /\ Tail(q) \in Seq(StepSet) /\ todo' = [todo EXCEPT ![t] = Tail(q)] /\ todo'[t] = Tail(q)
  BY <1>1, StepDone
<1>3. ~\E k \in Kind : Halts(q, k)
  BY <1>2 DEF Halts
<1>4. ~UseCall(q)
  BY <1>2, <1>3 DEF UseCall, Last, Clientless
<1>5. ~BuildCall(q)
  BY <1>2, <1>3 DEF BuildCall, Last, Halts, Stores, Kind
<1>6. t \in Starter /\ StartCall(q)
  BY <1>4, <1>5 DEF CallsInv, CallOf
<1>7. Tail(q) = <<>> /\ (Sole => Vacant(Head(q)))
  <2>1. ~(Last(Tail(q), "launch") /\ Halts(q, Head(Tail(q)).of))
    BY <1>2 DEF Halts
  <2> QED BY <1>2, <1>6, <2>1 DEF StartCall, Last, Clientless
<1>8. CallOf(t)'
  BY <1>2, <1>7 DEF CallOf, UseCall
<1>9. Tail(q) \in Seq(StepSet')
  BY <1>1, <1>2 DEF StepSet
<1> QED BY <1>1, <1>2, <1>6, <1>7, <1>8, <1>9, OthersKeep

LEMMA StartKeeps ==
    ASSUME RegistryInv, NEW t \in Thread, Start(t)
    PROVE  CallsInv'
<1> USE DEF RegistryInv
<1> DEFINE q == todo[t]
<1>1. /\ q # <<>> /\ Head(q).do = "start" /\ Head(q).client # NoClient
      /\ UNCHANGED <<workers, global, made>>
  BY DEF Start, Does
<1>2. Head(q) \in StepSet /\ Head(q).client \in made /\ Head(q).of \in Kind
  BY <1>1, FirstStep DEF StepSet
<1>3. StepSet' = StepSet
  BY <1>1 DEF StepSet
<1>4. ~\E k \in Kind : Halts(q, k)
  BY <1>1 DEF Halts
<1>5. ~UseCall(q)
  BY <1>1, <1>4 DEF UseCall, Last, Clientless
<1>6. ~BuildCall(q)
  BY <1>1, <1>4 DEF BuildCall, Last, Halts, Stores, Kind
<1>7. t \in Starter /\ StartCall(q)
  BY <1>5, <1>6 DEF CallsInv, CallOf
<1>8. Tail(q) = <<>> /\ (Sole => Head(q).client = global)
  <2>1. ~(Last(Tail(q), "launch") /\ Halts(q, Head(Tail(q)).of))
    BY <1>1 DEF Halts
  <2> QED BY <1>1, <1>7, <2>1 DEF StartCall, Last, Clientless
<1>9. CASE Does(t, "start", <<>>)
  <2>1. /\ Tail(q) \in Seq(StepSet')
        /\ todo' = [todo EXCEPT ![t] = Tail(q)] /\ todo'[t] = Tail(q)
    BY <1>3, <1>9, StepDone
  <2>2. CallOf(t)'
    BY <1>8, <2>1 DEF CallOf, UseCall
  <2> QED BY <1>1, <1>7, <1>8, <2>1, <2>2, OthersKeep
<1>10. CASE Does(t, "start", <<Step("stop", Head(q).client, Head(q).of),
                               Step("launch", Head(q).client, Head(q).of)>>)
  <2>0. PICK c \in made, k \in Kind : c = Head(q).client /\ k = Head(q).of
    BY <1>2
  <2>1. PICK a \in StepSet : a = Step("stop", c, k) /\ a.do = "stop" /\ a.client = c /\ a.of = k
    BY StepOf
  <2>2. PICK b \in StepSet : b = Step("launch", c, k) /\ b.do = "launch" /\ b.client = c /\ b.of = k
    BY StepOf
  <2>3. todo' = [todo EXCEPT ![t] = <<a, b>> \o Tail(q)]
    BY <1>10, <2>0, <2>1, <2>2 DEF Does
  <2>4. <<a, b>> \in Seq(StepSet) /\ <<a, b>> \o <<>> = <<a, b>>
    BY ConcatEmptySeq
  <2>5. todo' = [todo EXCEPT ![t] = <<a, b>>] /\ todo'[t] = <<a, b>>
    BY <1>8, <2>3, <2>4 DEF CallsInv
  <2>6. /\ todo'[t] # <<>> /\ Head(todo'[t]) = a /\ Tail(todo'[t]) = <<b>>
        /\ <<b>> # <<>> /\ Head(<<b>>) = b /\ Tail(<<b>>) = <<>>
    BY <2>5, HeadsAndTails
  <2>7. Last(Tail(todo'[t]), "launch") /\ Head(Tail(todo'[t])) = b
    BY <2>2, <2>6 DEF Last
  <2>8. /\ Head(todo'[t]).do = "stop" /\ Head(todo'[t]).client \in made'
        /\ Head(todo'[t]).client = b.client /\ Head(todo'[t]).of = b.of
    BY <1>1, <2>1, <2>2, <2>6
  <2>9. Sole => Head(todo'[t]).client = global'
    BY <1>1, <1>8, <2>0, <2>1, <2>6
  <2>10. StartCall(todo[t])'
    BY <2>6, <2>7, <2>8, <2>9 DEF StartCall, Last, Signalled, Halts
  <2>11. CallOf(t)'
    BY <1>7, <2>10 DEF CallOf
  <2> QED BY <1>1, <1>3, <1>7, <2>4, <2>5, <2>11, OthersKeep
<1> QED BY <1>9, <1>10 DEF Start

LEMMA LookupKeeps ==
    ASSUME RegistryInv, NEW t \in Thread, Lookup(t) \/ Create(t)
    PROVE  CallsInv'
<1> USE DEF RegistryInv
<1> DEFINE q == todo[t]
<1>1. /\ q # <<>> /\ Head(q).do \in {"lookup", "create"} /\ Head(q).client # NoClient
      /\ UNCHANGED <<workers, global, made>>
  BY DEF Lookup, Create, Does
<1>2. Head(q) \in StepSet /\ Head(q).client \in made /\ Head(q).of \in Key
  BY <1>1, FirstStep DEF StepSet
<1>3. StepSet' = StepSet /\ Calm
  BY <1>1 DEF StepSet, Calm, workers, Running
<1>4. ~\E k \in Kind : Halts(q, k)
  BY <1>1 DEF Halts
<1>5. ~StartCall(q)
  <2>1. ~(Last(Tail(q), "launch") /\ Halts(q, Head(Tail(q)).of))
    BY <1>1 DEF Halts
  <2> QED BY <1>1, <2>1 DEF StartCall, Last, Clientless
<1>6. ~BuildCall(q)
  BY <1>1, <1>4 DEF BuildCall, Last, Halts, Stores, Kind
<1>7. UseCall(q)
  BY <1>5, <1>6 DEF CallsInv, CallOf
<1>8. Tail(q) = <<>>
  BY <1>1, <1>4, <1>7 DEF UseCall, Last, Clientless
<1>9. ASSUME NEW do, Does(t, do, <<>>) PROVE CallsInv'
  <2>1. /\ Tail(q) \in Seq(StepSet')
        /\ todo' = [todo EXCEPT ![t] = Tail(q)] /\ todo'[t] = Tail(q)
    BY <1>3, <1>9, StepDone
  <2>2. CallOf(t)'
    BY <1>8, <2>1 DEF CallOf, UseCall
  <2> QED BY <1>1, <1>3, <1>8, <2>1, <2>2, OthersKeep
<1>10. CASE Does(t, "lookup", <<Step("create", Head(q).client, Head(q).of)>>)
  <2>1. PICK x \in StepSet : x = Step("create", Head(q).client, Head(q).of) /\ x.do = "create"
    <3>1. PICK c \in made, key \in Key : c = Head(q).client /\ key = Head(q).of
      BY <1>2
    <3>2. Step("create", c, key) \in StepSet /\ Step("create", c, key).do = "create"
      BY DEF StepSet, Step
    <3> QED BY <3>1, <3>2
  <2>2. /\ todo' = [todo EXCEPT ![t] = <<x>> \o Tail(q)] /\ <<x>> \o Tail(q) \in Seq(StepSet)
        /\ todo'[t] # <<>> /\ Head(todo'[t]) = x /\ Tail(todo'[t]) = Tail(q)
    BY <1>10, <2>1, StepReplaced
  <2>3. CallOf(t)'
    BY <1>8, <2>1, <2>2 DEF CallOf, UseCall, Last
  <2> QED BY <1>1, <1>3, <2>2, <2>3, OthersKeep
<1> QED BY <1>9, <1>10 DEF Lookup, Create

\* The signal takes the channels, and nothing starts; the global client's goroutine
\* of that kind is the one it tells to stop.
LEMMA SignalCalms ==
    ASSUME Typed, NEW c \in Client, NEW k \in Kind, Signal(c, k, handle[<<c, k>>]), UNCHANGED global
    PROVE  /\ Calm /\ WorkerTypeOK'
           /\ \A w \in Worker : worker'[w].pc = worker[w].pc /\ worker'[w].client = worker[w].client
           /\ handle'[<<c, k>>] = NoWorker
           /\ WorkStoppable /\ c = global => Quiet(k)'
<1> DEFINE h == handle[<<c, k>>]
<1>1. <<c, k>> \in Client \X Kind /\ h \in Worker \cup {NoWorker}
  BY DEF Typed, WorkerTypeOK
<1>2. handle' = [handle EXCEPT ![<<c, k>>] = NoWorker]
  BY DEF Signal
<1>3. worker' = IF h = NoWorker THEN worker ELSE [worker EXCEPT ![h].stopped = TRUE]
  BY DEF Signal
<1>4. h # NoWorker => h \in Worker
  BY <1>1
<1> HIDE DEF h
<1>5. handle' \in [Client \X Kind -> Worker \cup {NoWorker}] /\ handle'[<<c, k>>] = NoWorker
  BY <1>1, <1>2 DEF Typed, WorkerTypeOK
<1>6. \A g \in Client \X Kind : handle'[g] = handle[g] \/ handle'[g] = NoWorker
  BY <1>1, <1>2 DEF Typed, WorkerTypeOK
<1>7. ASSUME NEW w \in Worker
      PROVE  /\ worker'[w] \in [pc : {"unused", "waiting", "working", "done"},
                               client : Client \cup {NoClient}, kind : Kind, stopped : BOOLEAN]
             /\ worker'[w].pc = worker[w].pc /\ worker'[w].client = worker[w].client
             /\ worker'[w].kind = worker[w].kind
             /\ worker'[w].stopped = (worker[w].stopped \/ w = h)
  <2>1. worker[w].stopped \in BOOLEAN
    BY DEF Typed, WorkerTypeOK
  <2>2. CASE h = NoWorker
    <3>1. w # h /\ worker'[w] = worker[w]
      BY <1>3, <2>2, WorkerAssumption
    <3> QED BY <2>1, <3>1 DEF Typed, WorkerTypeOK
  <2>3. CASE h # NoWorker /\ w # h
    <3>1. worker'[w] = worker[w]
      BY <1>3, <2>3 DEF Typed, WorkerTypeOK
    <3> QED BY <2>1, <2>3, <3>1 DEF Typed, WorkerTypeOK
  <2>4. CASE h # NoWorker /\ w = h
    <3>1. worker'[w] = [worker[w] EXCEPT !.stopped = TRUE]
      BY <1>3, <2>4 DEF Typed, WorkerTypeOK
    <3> QED BY <2>1, <2>4, <3>1 DEF Typed, WorkerTypeOK
  <2> QED BY <2>2, <2>3, <2>4
<1>8. worker' \in [Worker -> [pc : {"unused", "waiting", "working", "done"},
                             client : Client \cup {NoClient}, kind : Kind, stopped : BOOLEAN]]
  <2>1. DOMAIN worker' = Worker /\ worker' = [w \in Worker |-> worker'[w]]
    BY <1>3, <1>4 DEF Typed, WorkerTypeOK
  <2> QED BY <1>7, <2>1
<1>9. \A w \in Worker : Running(w)' => (Running(w) /\ w # h)
  BY <1>7 DEF Running
<1>10. Calm
  BY <1>6, <1>7, <1>9 DEF Calm
<1>11. ASSUME WorkStoppable, c = global PROVE Quiet(k)'
  <2>1. \A w \in Worker : Running(w) /\ worker[w].kind = k => w = h
    BY <1>11 DEF WorkStoppable, h
  <2> QED BY <1>7, <1>9, <2>1 DEF Quiet
<1> QED BY <1>5, <1>7, <1>8, <1>10, <1>11 DEF WorkerTypeOK

\* What SignalStop does to its call.
LEMMA SignalStopSteps ==
    ASSUME RegistryInv, NEW t \in Thread, SignalStop(t)
    PROVE  \E c \in made, k \in Kind :
             /\ todo[t] # <<>> /\ Head(todo[t]).do = "stop"
             /\ c = Head(todo[t]).client /\ k = Head(todo[t]).of
             /\ Signal(c, k, handle[<<c, k>>]) /\ UNCHANGED <<global, made, switchers>>
             /\ todo'[t] \in Seq(StepSet) /\ todo' = [todo EXCEPT ![t] = todo'[t]]
             /\ \/ todo'[t] = Tail(todo[t])
                \/ /\ todo'[t] # <<>> /\ Tail(todo'[t]) = Tail(todo[t])
                   /\ Head(todo'[t]).do = "await" /\ Head(todo'[t]).client = c
<1> USE DEF RegistryInv
<1> DEFINE q == todo[t]
<1>1. /\ q # <<>> /\ Head(q).do = "stop" /\ Head(q).client # NoClient
      /\ UNCHANGED <<global, made, switchers>>
  BY DEF SignalStop, Does
<1>2. Head(q) \in StepSet /\ Head(q).client \in made /\ Head(q).of \in Kind
  BY <1>1, FirstStep DEF StepSet
<1>3. PICK c \in made, k \in Kind : c = Head(q).client /\ k = Head(q).of
  BY <1>2
<1>4. Signal(c, k, handle[<<c, k>>])
  BY <1>3 DEF SignalStop
<1>5. PICK w \in Worker \cup {NoWorker} : w = handle[<<c, k>>]
  BY DEF Typed, WorkerTypeOK
<1>6. CASE w = NoWorker
  <2>1. Does(t, "stop", <<>>)
    BY <1>3, <1>5, <1>6 DEF SignalStop
  <2>2. /\ todo'[t] = Tail(q) /\ Tail(q) \in Seq(StepSet)
        /\ todo' = [todo EXCEPT ![t] = Tail(q)]
    BY <2>1, StepDone
  <2> QED BY <1>1, <1>3, <1>4, <2>2
<1>7. CASE w # NoWorker
  <2>1. w \in Worker /\ Does(t, "stop", <<Step("await", c, w)>>)
    BY <1>3, <1>5, <1>7 DEF SignalStop
  <2>2. PICK x \in StepSet : x = Step("await", c, w) /\ x.do = "await" /\ x.client = c
    <3>1. /\ Step("await", c, w) \in StepSet
          /\ Step("await", c, w).do = "await" /\ Step("await", c, w).client = c
      BY <2>1 DEF StepSet, Step
    <3> QED BY <3>1
  <2>3. Does(t, "stop", <<x>>)
    BY <2>1, <2>2
  <2>4. /\ todo' = [todo EXCEPT ![t] = <<x>> \o Tail(q)] /\ <<x>> \o Tail(q) \in Seq(StepSet)
        /\ todo'[t] # <<>> /\ Head(todo'[t]) = x /\ Tail(todo'[t]) = Tail(q)
    BY <2>3, StepReplaced
  <2>5. todo'[t] = <<x>> \o Tail(q)
    BY <2>4 DEF CallsInv
  <2> QED BY <1>1, <1>3, <1>4, <2>2, <2>4, <2>5
<1> QED BY <1>6, <1>7

LEMMA SignalStopKeeps ==
    ASSUME RegistryInv, NEW t \in Thread, SignalStop(t)
    PROVE  CallsInv'
<1> USE DEF RegistryInv
<1> DEFINE q == todo[t]
<1>1. PICK c \in made, k \in Kind :
        /\ q # <<>> /\ Head(q).do = "stop"
        /\ c = Head(q).client /\ k = Head(q).of
        /\ Signal(c, k, handle[<<c, k>>]) /\ UNCHANGED <<global, made, switchers>>
        /\ todo'[t] \in Seq(StepSet) /\ todo' = [todo EXCEPT ![t] = todo'[t]]
        /\ \/ todo'[t] = Tail(q)
           \/ /\ todo'[t] # <<>> /\ Tail(todo'[t]) = Tail(q)
              /\ Head(todo'[t]).do = "await" /\ Head(todo'[t]).client = c
  BY SignalStopSteps
<1>2. c \in Client /\ UNCHANGED global
  BY <1>1 DEF Typed
<1>3. Calm /\ handle'[<<c, k>>] = NoWorker /\ (WorkStoppable /\ c = global => Quiet(k)')
  BY <1>1, <1>2, SignalCalms
<1>4. StepSet' = StepSet /\ c \in made'
  BY <1>1 DEF StepSet
<1>5. PICK r \in Seq(StepSet) : r = todo'[t]
  BY <1>1
<1>6. UseCall(r)' \/ (t \in Starter /\ (StartCall(r)' \/ BuildCall(r)'))
  <2>1. \A do : Last(q, do) => Tail(q) = <<>> /\ do = "stop"
    BY <1>1 DEF Last
  <2>2. NoClient \notin made
    BY WorkerAssumption DEF Typed
  <2>3. \A j \in Kind : Halts(q, j) => j = k
    BY <1>1 DEF Halts
  <2>4. \A do : ~Clientless(q, do)
    BY <1>1, <2>2 DEF Clientless, Last
  <2>5. \/ r = Tail(q)
        \/ /\ \A j \in Kind : Halts(r, j)'
           /\ Tail(r) = Tail(q) /\ Signalled(r) /\ r # <<>> /\ Head(r).client = c
    BY <1>1, <1>4, <1>5 DEF Halts, Signalled
  <2>6. CASE UseCall(q)
    <3>1. Tail(q) = <<>>
      BY <1>1, <2>1, <2>4, <2>6 DEF UseCall, Last
    <3> QED BY <2>5, <3>1 DEF UseCall, Kind
  <2>7. CASE t \in Starter /\ StartCall(q)
    <3>1. /\ Last(Tail(q), "launch")
          /\ Halts(q, Head(Tail(q)).of) /\ Head(q).client = Head(Tail(q)).client
          /\ Sole => Head(q).client = global
      BY <1>1, <2>1, <2>4, <2>7 DEF StartCall, Last
    <3>2. Head(Tail(q)) \in StepSet /\ Tail(q) # <<>>
      BY <1>1, <3>1, FirstStep DEF Last
    <3>3. Head(Tail(q)).of = k /\ Head(Tail(q)).client = c
      BY <1>1, <3>1, <3>2, <2>3 DEF StepSet, Last, Halts
    <3>4. PICK s \in StepSet : s = Head(Tail(q))
      BY <3>2
    <3>5. Sole => Vacant(s)'
      BY <1>1, <1>3, <3>1, <3>3, <3>4 DEF Vacant
    <3>6. CASE r = Tail(q)
      BY <3>1, <3>4, <3>5, <3>6, <2>7 DEF StartCall, Last
    <3>7. CASE /\ \A j \in Kind : Halts(r, j)'
               /\ Tail(r) = Tail(q) /\ Signalled(r) /\ r # <<>> /\ Head(r).client = c
      <4>1. Halts(r, s.of)' /\ Head(r).client = s.client /\ s = Head(Tail(r))
        BY <3>3, <3>4, <3>7
      <4>2. Last(Tail(r), "launch") /\ (Sole => Head(r).client = global')
        BY <1>1, <3>1, <3>7
      <4> QED BY <2>7, <3>5, <3>7, <4>1, <4>2 DEF StartCall, Last
    <3> QED BY <2>5, <3>6, <3>7
  <2>8. CASE t \in Starter /\ BuildCall(q)
    <3>1. ~Stores(q) /\ ~Last(q, "replace")
      BY <1>1, <2>1 DEF Stores
    <3>2. CASE /\ Halts(q, "updater") /\ Halts(Tail(q), "watcher") /\ ~Signalled(Tail(q))
               /\ Stores(Tail(Tail(q)))
               /\ Sole => Head(q).client = global /\ Head(Tail(q)).client = global
      <4>1. k = "updater" /\ (Sole => Quiet("updater")')
        BY <1>1, <1>3, <2>3, <3>2 DEF Kind
      <4>3. PICK u \in Seq(StepSet) : u = Tail(q)
        BY <1>1, FirstStep
      <4>4. Halts(u, "watcher")' /\ Stores(Tail(u)) /\ ~Signalled(u) /\ (Sole => Head(u).client = global')
        BY <1>1, <3>2, <4>3 DEF Halts
      <4>5. CASE r = u
        BY <2>8, <4>1, <4>4, <4>5 DEF BuildCall
      <4>6. CASE /\ \A j \in Kind : Halts(r, j)'
                 /\ Tail(r) = u /\ Signalled(r) /\ r # <<>> /\ Head(r).client = c
        <5>1. Halts(r, "updater")' /\ (Sole => Head(r).client = global')
          BY <1>1, <3>2, <4>6 DEF Kind
        <5> QED BY <2>8, <4>1, <4>4, <4>6, <5>1 DEF BuildCall
      <4> QED BY <2>5, <4>3, <4>5, <4>6
    <3>3. CASE /\ Halts(q, "watcher") /\ Stores(Tail(q))
               /\ Sole => Head(q).client = global /\ Quiet("updater")
      <4>1. k = "watcher" /\ (Sole => Quiet("updater")' /\ Quiet("watcher")')
        BY <1>1, <1>3, <2>3, <3>3, QuietStays DEF Kind
      <4>2. \A w \in Worker : worker'[w].kind \in Kind
        BY <1>1, <1>2, SignalCalms DEF WorkerTypeOK
      <4>3. Sole => AllQuiet'
        BY <4>1, <4>2 DEF AllQuiet, Quiet, Kind
      <4>4. CASE r = Tail(q)
        BY <2>8, <3>3, <4>3, <4>4 DEF BuildCall
      <4>5. CASE /\ \A j \in Kind : Halts(r, j)'
                 /\ Tail(r) = Tail(q) /\ Signalled(r) /\ r # <<>> /\ Head(r).client = c
        <5>1. Halts(r, "watcher")' /\ (Sole => Head(r).client = global') /\ Stores(Tail(r))
          BY <1>1, <3>3, <4>5 DEF Kind
        <5> QED BY <2>8, <4>1, <4>3, <4>5, <5>1 DEF BuildCall
      <4> QED BY <2>5, <4>4, <4>5
    <3> QED BY <2>8, <3>1, <3>2, <3>3 DEF BuildCall
  <2> QED BY <2>6, <2>7, <2>8 DEF CallsInv, CallOf
<1>7. CallOf(t)'
  BY <1>5, <1>6, CallFrom
<1> QED BY <1>1, <1>3, <1>4, <1>7, OthersKeep

\* Waiting starts nothing either.
LEMMA AwaitCalms ==
    ASSUME Typed, NEW w \in Worker, Await(w), UNCHANGED global
    PROVE  /\ Calm /\ WorkerTypeOK' /\ UNCHANGED handle
           /\ \A v \in Worker : worker'[v].pc # "unused" => worker'[v] = worker[v]
<1>1. worker' = [worker EXCEPT ![w] = Unused] /\ UNCHANGED handle
  BY DEF Await
<1>2. Unused \in [pc : {"unused", "waiting", "working", "done"},
                 client : Client \cup {NoClient}, kind : Kind, stopped : BOOLEAN]
      /\ Unused.pc = "unused"
  BY DEF Unused, Kind
<1>3. ASSUME NEW v \in Worker PROVE worker'[v] = IF v = w THEN Unused ELSE worker[v]
  BY <1>1 DEF Typed, WorkerTypeOK
<1>4. WorkerTypeOK'
  BY <1>1, <1>2 DEF Typed, WorkerTypeOK
<1>5. \A v \in Worker : Running(v)' => v # w
  BY <1>2, <1>3 DEF Running
<1>6. \A v \in Worker : Running(v)' => (Running(v) /\ worker'[v].kind = worker[v].kind)
  BY <1>3, <1>5 DEF Running
<1> QED BY <1>1, <1>2, <1>3, <1>4, <1>6 DEF Calm

LEMMA AwaitDoneKeeps ==
    ASSUME RegistryInv, NEW t \in Thread, AwaitDone(t)
    PROVE  CallsInv' /\ Head(todo[t]).of \in Worker
<1> USE DEF RegistryInv
<1> DEFINE q == todo[t]
<1>1. Does(t, "await", <<>>) /\ Await(Head(q).of) /\ UNCHANGED <<global, made>>
  BY DEF AwaitDone
<1>2. /\ q # <<>> /\ Head(q).do = "await" /\ Head(q).client \in made /\ Head(q) \in StepSet
      /\ Tail(q) \in Seq(StepSet) /\ todo' = [todo EXCEPT ![t] = Tail(q)] /\ todo'[t] = Tail(q)
  BY <1>1, StepDone
<1>3. PICK w \in Worker : w = Head(q).of
  BY <1>2 DEF StepSet
<1>4. Calm /\ UNCHANGED handle
  BY <1>1, <1>3, AwaitCalms
<1>5. StepSet' = StepSet
  BY <1>1 DEF StepSet
<1>6. PICK r \in Seq(StepSet) : r = Tail(q) /\ r = todo'[t]
  BY <1>2
<1>7. UseCall(r)' \/ (t \in Starter /\ (StartCall(r)' \/ BuildCall(r)'))
  <2>1. \A do : ~Clientless(q, do) /\ (Last(q, do) => do = "await")
    BY <1>2, WorkerAssumption DEF Clientless, Last, Typed
  <2>2. CASE UseCall(q)
    <3>1. r = <<>>
      BY <1>2, <1>6, <2>1, <2>2 DEF UseCall, Last
    <3> QED BY <3>1 DEF UseCall
  <2>3. CASE t \in Starter /\ StartCall(q)
    <3>1. /\ Last(r, "launch")
          /\ Sole => Vacant(Head(r))
      BY <1>2, <1>6, <2>1, <2>3 DEF StartCall, Last, Signalled
    <3>2. Sole => Vacant(Head(r))'
      BY <1>1, <1>4, <3>1 DEF Vacant
    <3> QED BY <2>3, <3>1, <3>2 DEF StartCall, Last
  <2>4. CASE t \in Starter /\ BuildCall(q)
    <3>1. ~Stores(q) /\ ~Last(q, "replace")
      BY <1>2, <2>1 DEF Stores
    <3>2. CASE /\ Halts(q, "updater") /\ Halts(Tail(q), "watcher") /\ ~Signalled(Tail(q))
               /\ Stores(Tail(Tail(q)))
               /\ Sole => Head(q).client = global /\ Head(Tail(q)).client = global
               /\ Sole /\ Signalled(q) => Quiet("updater")
      <4>1. Sole => Quiet("updater")'
        BY <1>2, <1>4, <3>2, QuietStays DEF Signalled
      <4>2. Halts(r, "watcher")' /\ Stores(Tail(r)) /\ ~Signalled(r) /\ (Sole => Head(r).client = global')
        BY <1>1, <1>6, <3>2 DEF Halts
      <4> QED BY <2>4, <4>1, <4>2 DEF BuildCall
    <3>3. CASE Stores(Tail(q)) /\ (Sole /\ Signalled(q) => AllQuiet)
      <4>1. Stores(r) /\ (Sole => AllQuiet)
        BY <1>2, <1>6, <3>3 DEF Signalled
      <4>2. Sole => AllQuiet'
        BY <1>4, <4>1 DEF AllQuiet, Calm
      <4> QED BY <2>4, <4>1, <4>2 DEF BuildCall
    <3> QED BY <2>4, <3>1, <3>2, <3>3 DEF BuildCall
  <2> QED BY <2>2, <2>3, <2>4 DEF CallsInv, CallOf
<1>8. CallOf(t)'
  BY <1>6, <1>7, CallFrom
<1> QED BY <1>1, <1>2, <1>3, <1>4, <1>5, <1>8, OthersKeep

LEMMA ReplaceKeeps ==
    ASSUME RegistryInv, NEW t \in Thread, Replace(t)
    PROVE  CallsInv'
<1> USE DEF RegistryInv
<1> DEFINE q == todo[t]
<1>1. /\ q # <<>> /\ Head(q).do = "replace" /\ Head(q).client # NoClient
      /\ UNCHANGED <<workers, global, made>>
  BY DEF Replace, Does
<1>2. Head(q) \in StepSet /\ Head(q).client \in made
  BY <1>1, FirstStep DEF StepSet
<1>3. StepSet' = StepSet
  BY <1>1 DEF StepSet
<1>4. ~\E k \in Kind : Halts(q, k)
  BY <1>1 DEF Halts
<1>5. ~UseCall(q) /\ ~StartCall(q)
  <2>1. ~(Last(Tail(q), "launch") /\ Halts(q, Head(Tail(q)).of))
    BY <1>1 DEF Halts
  <2> QED BY <1>1, <1>4, <2>1 DEF UseCall, StartCall, Last, Clientless
<1>6. t \in Starter /\ BuildCall(q)
  BY <1>5 DEF CallsInv, CallOf
<1>7. Tail(q) = <<>>
  BY <1>1, <1>4, <1>6 DEF BuildCall, Last, Stores, Kind
<1>8. PICK c \in made : c = Head(q).client
  BY <1>2
<1>9. PICK d \in StepSet : d = Step("store", c, "") /\ d.do = "store" /\ d.client = c
  <2>1. Step("store", c, "") \in StepSet /\ Step("store", c, "").do = "store" /\ Step("store", c, "").client = c
    BY DEF StepSet, Step
  <2> QED BY <2>1
<1>10. PICK e \in StepSet : e = Step("start", c, "updater") /\ e.do = "start" /\ e.client = c
  BY StepOf DEF Kind
<1>11. Stores(<<d>>) /\ Stores(<<d, e>>)
  <2>1. <<d>> # <<>> /\ Head(<<d>>) = d /\ Tail(<<d>>) = <<>>
    BY HeadsAndTails
  <2>2. /\ <<d, e>> # <<>> /\ Head(<<d, e>>) = d /\ Tail(<<d, e>>) = <<e>>
        /\ <<e>> # <<>> /\ Head(<<e>>) = e /\ Tail(<<e>>) = <<>>
    BY HeadsAndTails
  <2>3. Stores(<<d>>)
    BY <1>9, <2>1 DEF Stores
  <2>4. Stores(<<d, e>>)
    BY <1>9, <1>10, <2>2 DEF Stores, Last
  <2> QED BY <2>3, <2>4
<1>12. PICK f : /\ f = (IF global = NoClient THEN <<>> ELSE StopBackgroundTasks(global))
                      \o <<d>> \o (IF AutoUpdate THEN <<e>> ELSE <<>>)
                /\ Does(t, "replace", f)
  BY <1>8, <1>9, <1>10 DEF Replace
<1>13. todo' = [todo EXCEPT ![t] = f \o <<>>]
  <2>1. todo' = [todo EXCEPT ![t] = f \o Tail(todo[t])]
    BY <1>12 DEF Does
  <2> QED BY <1>7, <2>1
<1>14. ASSUME NEW r \in Seq(StepSet), todo' = [todo EXCEPT ![t] = r], BuildCall(r)'
       PROVE  CallsInv'
  <2>1. r = todo'[t]
    BY <1>14 DEF CallsInv
  <2>2. CallOf(t)'
    BY <1>6, <1>14, <2>1, CallFrom
  <2> QED BY <1>1, <1>3, <1>6, <1>14, <2>2, OthersKeep
<1>15. CASE global = NoClient
  <2>1. PICK r \in Seq(StepSet) : Stores(r) /\ todo' = [todo EXCEPT ![t] = r]
    <3>1. /\ <<d>> \in Seq(StepSet) /\ <<d, e>> \in Seq(StepSet) /\ <<>> \o <<d>> = <<d>>
          /\ <<d>> \o <<>> = <<d>> /\ <<d, e>> \o <<>> = <<d, e>>
      BY ConcatEmptySeq
    <3>2. <<d>> \o <<e>> = <<d, e>>
      BY InARow
    <3>3. CASE AutoUpdate
      <4>1. todo' = [todo EXCEPT ![t] = <<d, e>>]
        BY <1>12, <1>13, <1>15, <3>1, <3>2, <3>3
      <4> QED BY <1>11, <3>1, <4>1
    <3>4. CASE ~AutoUpdate
      <4>1. todo' = [todo EXCEPT ![t] = <<d>>]
        BY <1>12, <1>13, <1>15, <3>1, <3>4
      <4> QED BY <1>11, <3>1, <4>1
    <3> QED BY <3>3, <3>4
  <2>2. Sole => AllQuiet'
    <3>1. ASSUME Sole, NEW w \in Worker, Running(w) PROVE FALSE
      <4>1. worker[w].client = NoClient
        BY <1>15, <3>1 DEF WorkStoppable
      <4>2. worker[w].client \in Client
        BY <3>1 DEF Typed, Running
      <4> QED BY <4>1, <4>2, WorkerAssumption
    <3>2. \A w \in Worker : Running(w)' <=> Running(w)
      BY <1>1 DEF Running, workers
    <3> QED BY <3>1, <3>2 DEF AllQuiet
  <2> QED BY <1>14, <2>1, <2>2 DEF BuildCall, Stores
<1>16. CASE global # NoClient
  <2>1. PICK g \in made : g = global
    BY <1>16 DEF Typed
  <2>2. PICK a \in StepSet : /\ a = Step("stop", g, "updater")
                             /\ a.do = "stop" /\ a.client = g /\ a.of = "updater"
    BY StepOf DEF Kind
  <2>3. PICK b \in StepSet : /\ b = Step("stop", g, "watcher")
                             /\ b.do = "stop" /\ b.client = g /\ b.of = "watcher"
    BY StepOf DEF Kind
  <2>4. StopBackgroundTasks(global) = <<a, b>>
    BY <2>1, <2>2, <2>3 DEF StopBackgroundTasks
  <2>5. PICK u \in Seq(StepSet), r \in Seq(StepSet) :
          /\ Stores(u) /\ todo' = [todo EXCEPT ![t] = r]
          /\ r # <<>> /\ Head(r) = a /\ Tail(r) # <<>> /\ Head(Tail(r)) = b /\ Tail(Tail(r)) = u
    <3>1. /\ <<d>> \in Seq(StepSet) /\ <<d, e>> \in Seq(StepSet)
          /\ <<a, b, d>> \in Seq(StepSet) /\ <<a, b, d, e>> \in Seq(StepSet)
      OBVIOUS
    <3>2. <<a, b, d>> \o <<>> = <<a, b, d>> /\ <<a, b, d, e>> \o <<>> = <<a, b, d, e>>
      BY <3>1, ConcatEmptySeq
    <3>3. <<a, b>> \o <<d>> = <<a, b, d>> /\ <<a, b, d>> \o <<e>> = <<a, b, d, e>>
      BY InARow
    <3>4. CASE AutoUpdate
      <4>1. todo' = [todo EXCEPT ![t] = <<a, b, d, e>>]
        BY <1>12, <1>13, <1>16, <2>4, <3>2, <3>3, <3>4
      <4>2. /\ <<a, b, d, e>> # <<>> /\ Head(<<a, b, d, e>>) = a /\ Tail(<<a, b, d, e>>) = <<b, d, e>>
            /\ <<b, d, e>> # <<>> /\ Head(<<b, d, e>>) = b /\ Tail(<<b, d, e>>) = <<d, e>>
        BY HeadsAndTails
      <4> QED BY <1>11, <3>1, <4>1, <4>2
    <3>5. CASE ~AutoUpdate
      <4>1. todo' = [todo EXCEPT ![t] = <<a, b, d>>]
        BY <1>12, <1>13, <1>16, <2>4, <3>2, <3>3, <3>5
      <4>2. /\ <<a, b, d>> # <<>> /\ Head(<<a, b, d>>) = a /\ Tail(<<a, b, d>>) = <<b, d>>
            /\ <<b, d>> # <<>> /\ Head(<<b, d>>) = b /\ Tail(<<b, d>>) = <<d>>
        BY HeadsAndTails
      <4> QED BY <1>11, <3>1, <4>1, <4>2
    <3> QED BY <3>4, <3>5
  <2>6. /\ g \in made' /\ g = global'
    BY <1>1, <2>1
  <2>7. Halts(r, "updater")' /\ ~Signalled(r)
    BY <2>2, <2>5, <2>6 DEF Halts, Signalled
  <2>8. PICK v \in Seq(StepSet) : v = Tail(r)
    BY <2>5, HeadTailProperties
  <2>9. Halts(v, "watcher")' /\ ~Signalled(v) /\ Stores(Tail(v)) /\ Head(v).client = global'
    BY <2>3, <2>5, <2>6, <2>8 DEF Halts, Signalled
  <2>10. BuildCall(r)'
    BY <2>2, <2>5, <2>6, <2>7, <2>8, <2>9 DEF BuildCall
  <2> QED BY <1>14, <2>5, <2>10
<1> QED BY <1>15, <1>16

-----------------------------------------------------------------------------
(* The goroutines, and the invariant. *)

\* A goroutine that ticks, goes back to its select, or leaves, starts nothing.
LEMMA WorkerCalms ==
    ASSUME Typed, NEW w \in Worker, Tick(w) \/ Finish(w) \/ Exit(w), UNCHANGED global
    PROVE  /\ Calm /\ WorkerTypeOK' /\ handle' = handle
           /\ \A v \in Worker : worker'[v].client = worker[v].client
           /\ \A v \in Worker : worker'[v].pc # "unused" => worker[v].pc # "unused"
<1>1. PICK pc \in {"waiting", "working", "done"} : worker' = [worker EXCEPT ![w].pc = pc]
  BY DEF Tick, Finish, Exit
<1>2. UNCHANGED handle /\ worker[w].pc # "unused" /\ (pc # "done" => worker[w].pc \in {"waiting", "working"})
  <2>1. UNCHANGED handle /\ worker[w].pc \in {"waiting", "working"}
    BY DEF Tick, Finish, Exit
  <2> QED BY <2>1
<1>3. WorkerTypeOK'
  BY <1>1, <1>2 DEF Typed, WorkerTypeOK
<1>4. ASSUME NEW v \in Worker
      PROVE  /\ worker'[v].client = worker[v].client /\ worker'[v].kind = worker[v].kind
             /\ worker'[v].stopped = worker[v].stopped
             /\ worker'[v].pc = IF v = w THEN pc ELSE worker[v].pc
  BY <1>1 DEF Typed, WorkerTypeOK
<1>5. \A v \in Worker : Running(v)' => (Running(v) /\ worker'[v].kind = worker[v].kind)
  BY <1>2, <1>4 DEF Running
<1>6. Calm
  BY <1>2, <1>5 DEF Calm
<1> QED BY <1>2, <1>3, <1>4, <1>6

LEMMA LaunchStarts ==
    ASSUME Typed, NEW c \in made, NEW k \in Kind, Launch(c, k)
    PROVE  /\ WorkerTypeOK'
           /\ \E s \in Worker :
                 /\ handle'[<<c, k>>] = s
                 /\ \A h \in Client \X Kind : h # <<c, k>> => handle'[h] = handle[h]
                 /\ worker'[s].client = c /\ worker'[s].kind = k
                 /\ \A v \in Worker \ {s} : worker'[v] = worker[v]
<1>1. Spare \in Worker
  BY DEF Launch, Spare
<1>2. PICK s \in Worker : s = Spare
  BY <1>1
<1>3. handle' = [handle EXCEPT ![<<c, k>>] = s] /\ worker' = [worker EXCEPT ![s] = Fresh(c, k)]
  BY <1>2 DEF Launch
<1>4. /\ Fresh(c, k) \in [pc : {"unused", "waiting", "working", "done"},
                         client : Client \cup {NoClient}, kind : Kind, stopped : BOOLEAN]
      /\ Fresh(c, k).client = c /\ Fresh(c, k).kind = k
  BY DEF Fresh, Typed
<1>5. <<c, k>> \in Client \X Kind
  BY DEF Typed
<1>6. WorkerTypeOK'
  BY <1>3, <1>4, <1>5 DEF Typed, WorkerTypeOK
<1>7. /\ handle'[<<c, k>>] = s /\ worker'[s] = Fresh(c, k)
      /\ \A h \in Client \X Kind : h # <<c, k>> => handle'[h] = handle[h]
      /\ \A v \in Worker \ {s} : worker'[v] = worker[v]
  BY <1>3, <1>5 DEF Typed, WorkerTypeOK
<1> QED BY <1>4, <1>6, <1>7

\* A step that starts nothing leaves what runs in the hands of the global client.
LEMMA CalmStoppable ==
    ASSUME Typed, WorkStoppable, Calm, UNCHANGED global,
           \A w \in Worker : Running(w)' => worker'[w].client = worker[w].client,
           \A w \in Worker : Running(w)' =>
               handle'[<<global, worker[w].kind>>] = handle[<<global, worker[w].kind>>]
    PROVE  WorkStoppable'
<1> SUFFICES ASSUME NEW w \in Worker, Running(w)'
             PROVE  worker'[w].client = global' /\ handle'[<<global', worker'[w].kind>>] = w
  BY DEF WorkStoppable
<1>1. Running(w) /\ worker'[w].kind = worker[w].kind
  BY DEF Calm
<1>2. worker[w].client = global /\ handle[<<global, worker[w].kind>>] = w
  BY <1>1 DEF WorkStoppable
<1> QED BY <1>1, <1>2

LEMMA NewClientIsNew == ASSUME Client \ made # {} PROVE NewClient \in Client
BY DEF NewClient

\* A step of the calls that touches no goroutine.
LEMMA RegistryKept ==
    ASSUME RegistryInv, NEW t \in Thread,
           \/ t \in Starter /\ (BuildContext(t) \/ StartWork(t))
           \/ StopWork(t) \/ GetSwitcher(t)
           \/ DefaultClient(t) \/ CompareAndSwap(t) \/ Replace(t) \/ Store(t)
           \/ Start(t) \/ Lookup(t) \/ Create(t)
    PROVE  Typed' /\ (Sole => WorkStoppable)'
<1> USE DEF RegistryInv
<1>1. UNCHANGED <<handle, worker>>
  BY DEF BuildContext, StartWork, StopWork, GetSwitcher, DefaultClient, CompareAndSwap,
         Replace, Store, Start, Lookup, Create, workers
<1>2. WorkerTypeOK' /\ \A w \in Worker : worker'[w].pc # "unused" => worker'[w].client \in Client
  BY <1>1 DEF Typed, WorkerTypeOK
<1>3. \A w \in Worker : Running(w)' <=> Running(w)
  BY <1>1 DEF Running
<1>4. CASE UNCHANGED <<global, made, switchers>>
  <2>1. Typed'
    BY <1>2, <1>4 DEF Typed
  <2>2. WorkStoppable => WorkStoppable'
    BY <1>1, <1>3, <1>4 DEF WorkStoppable
  <2> QED BY <2>1, <2>2 DEF Sole
<1>5. CASE made' = made \cup {NewClient} /\ Client \ made # {} /\ UNCHANGED <<global, switchers>>
  <2>1. Typed'
    BY <1>2, <1>5, NewClientIsNew DEF Typed
  <2>2. WorkStoppable => WorkStoppable'
    BY <1>1, <1>3, <1>5 DEF WorkStoppable
  <2> QED BY <2>1, <2>2 DEF Sole
<1>6. CASE CompareAndSwap(t)
  <2>1. todo[t] # <<>> /\ Head(todo[t]).do = "swap" /\ UNCHANGED <<made, switchers>>
    BY <1>6 DEF CompareAndSwap
  <2>2. Head(todo[t]).client \in made
    BY <2>1, FirstStep DEF StepSet
  <2>3. CASE UNCHANGED global
    BY <1>4, <2>1, <2>3
  <2>4. CASE global = NoClient /\ global' = Head(todo[t]).client
    <3>1. Typed'
      BY <1>2, <2>1, <2>2, <2>4 DEF Typed
    <3>2. ASSUME Sole, NEW w \in Worker, Running(w) PROVE FALSE
      <4>1. worker[w].client = NoClient
        BY <2>4, <3>2 DEF WorkStoppable
      <4>2. worker[w].client \in Client
        BY <3>2 DEF Typed, Running
      <4> QED BY <4>1, <4>2, WorkerAssumption
    <3>3. Sole => WorkStoppable'
      BY <1>3, <3>2 DEF WorkStoppable
    <3> QED BY <3>1, <3>3 DEF Sole
  <2> QED BY <1>6, <2>3, <2>4 DEF CompareAndSwap
<1>7. CASE Store(t)
  <2>1. Does(t, "store", <<>>) /\ global' = Head(todo[t]).client /\ UNCHANGED <<made, switchers>>
    BY <1>7 DEF Store
  <2>2. Head(todo[t]).client \in made
    BY <2>1, StepDone
  <2>3. Typed'
    BY <1>2, <2>1, <2>2 DEF Typed
  <2>4. Sole => AllQuiet
    BY <1>7, StoreKeeps
  <2>5. Sole => WorkStoppable'
    BY <1>3, <2>4 DEF WorkStoppable, AllQuiet
  <2> QED BY <2>3, <2>5 DEF Sole
<1>8. CASE Create(t)
  <2>1. /\ todo[t] # <<>> /\ Head(todo[t]).do = "create" /\ UNCHANGED <<global, made>>
    BY <1>8 DEF Create, Does
  <2>2. Head(todo[t]).client \in made /\ Head(todo[t]).of \in Key
    BY <2>1, FirstStep DEF StepSet
  <2>3. switchers' = switchers \/
        switchers' = [switchers EXCEPT ![<<Head(todo[t]).client, Head(todo[t]).of>>] = t]
    BY <1>8 DEF Create
  <2>4. switchers' \in [Client \X Key -> Thread \cup {NoSwitcher}]
    BY <2>2, <2>3 DEF Typed
  <2>5. Typed'
    BY <1>2, <2>1, <2>4 DEF Typed
  <2>6. WorkStoppable => WorkStoppable'
    BY <1>1, <1>3, <2>1 DEF WorkStoppable
  <2> QED BY <2>5, <2>6 DEF Sole
<1>9. CASE DefaultClient(t)
  BY <1>4, <1>5, <1>9 DEF DefaultClient
<1>10. CASE BuildContext(t)
  <2>1. Client \ made # {}
    <3>1. Cardinality({}) = 0 /\ ~(0 > 1)
      BY FS_EmptySet
    <3>2. Client \ made = {} => ~(Cardinality(Client \ made) > 1)
      BY <3>1
    <3> QED BY <1>10, <3>2 DEF BuildContext
  <2> QED BY <1>5, <1>10, <2>1 DEF BuildContext
<1>11. CASE StartWork(t) \/ StopWork(t) \/ GetSwitcher(t) \/ Replace(t) \/ Start(t) \/ Lookup(t)
  BY <1>4, <1>11 DEF StartWork, StopWork, GetSwitcher, Replace, Start, Lookup
<1> QED BY <1>6, <1>7, <1>8, <1>9, <1>10, <1>11

\* A step that signals, waits or starts.
LEMMA GoroutinesKept ==
    ASSUME RegistryInv, NEW t \in Thread, SignalStop(t) \/ AwaitDone(t) \/ LaunchNew(t)
    PROVE  Typed' /\ (Sole => WorkStoppable)'
<1> USE DEF RegistryInv
<1>1. UNCHANGED <<global, made, switchers>>
  BY DEF SignalStop, AwaitDone, LaunchNew
<1>2. CASE SignalStop(t)
  <2>1. PICK c \in made, k \in Kind : Signal(c, k, handle[<<c, k>>])
    BY <1>2, SignalStopSteps
  <2>2. c \in Client
    BY DEF Typed
  <2>3. /\ Calm /\ WorkerTypeOK'
        /\ \A w \in Worker : worker'[w].pc = worker[w].pc /\ worker'[w].client = worker[w].client
        /\ WorkStoppable /\ c = global => Quiet(k)'
    BY <1>1, <2>1, <2>2, SignalCalms
  <2>4. Typed'
    BY <1>1, <2>3 DEF Typed
  <2>5. handle' = [handle EXCEPT ![<<c, k>>] = NoWorker]
    BY <2>1 DEF Signal
  <2>6. ASSUME WorkStoppable, NEW w \in Worker, Running(w)'
        PROVE  handle'[<<global, worker[w].kind>>] = handle[<<global, worker[w].kind>>]
    <3>1. worker'[w].kind = worker[w].kind /\ Running(w)
      BY <2>3, <2>6 DEF Calm
    <3>2. <<global, worker[w].kind>> # <<c, k>>
      BY <2>3, <2>6, <3>1 DEF Quiet
    <3>3. worker[w].client = global /\ worker[w].client \in Client /\ worker[w].kind \in Kind
      BY <2>6, <3>1 DEF WorkStoppable, Typed, Running, WorkerTypeOK
    <3>4. <<global, worker[w].kind>> \in Client \X Kind
      BY <3>3
    <3> QED BY <2>5, <3>2, <3>4 DEF Typed, WorkerTypeOK
  <2>7. WorkStoppable => WorkStoppable'
    BY <1>1, <2>3, <2>6, CalmStoppable
  <2> QED BY <2>4, <2>7 DEF Sole
<1>3. CASE AwaitDone(t)
  <2>1. PICK w \in Worker : w = Head(todo[t]).of
    BY <1>3, AwaitDoneKeeps
  <2>2. Await(w)
    BY <1>3, <2>1 DEF AwaitDone
  <2>3. /\ Calm /\ WorkerTypeOK' /\ UNCHANGED handle
        /\ \A v \in Worker : worker'[v].pc # "unused" => worker'[v] = worker[v]
    BY <1>1, <2>2, AwaitCalms
  <2>4. Typed'
    BY <1>1, <2>3 DEF Typed
  <2>5. WorkStoppable => WorkStoppable'
    BY <1>1, <2>3, CalmStoppable DEF Running
  <2> QED BY <2>4, <2>5 DEF Sole
<1>4. CASE LaunchNew(t)
  <2> DEFINE q == todo[t]
  <2>1. Does(t, "launch", <<>>) /\ Launch(Head(q).client, Head(q).of)
    BY <1>4 DEF LaunchNew
  <2>2. q # <<>> /\ Head(q).do = "launch"
    BY <2>1, StepDone
  <2>3. Head(q).client \in made /\ Head(q).of \in Kind
    BY <2>2, FirstStep DEF StepSet
  <2>4. PICK c \in made, k \in Kind : c = Head(q).client /\ k = Head(q).of
    BY <2>3
  <2>5. Sole => (c = global /\ handle[<<c, k>>] = NoWorker)
    BY <1>4, <2>4, LaunchNewKeeps DEF Vacant
  <2>6. /\ WorkerTypeOK'
        /\ \E s \in Worker :
              /\ handle'[<<c, k>>] = s
              /\ \A h \in Client \X Kind : h # <<c, k>> => handle'[h] = handle[h]
              /\ worker'[s].client = c /\ worker'[s].kind = k
              /\ \A v \in Worker \ {s} : worker'[v] = worker[v]
    BY <2>1, <2>4, LaunchStarts
  <2>7. PICK s \in Worker :
              /\ handle'[<<c, k>>] = s
              /\ \A h \in Client \X Kind : h # <<c, k>> => handle'[h] = handle[h]
              /\ worker'[s].client = c /\ worker'[s].kind = k
              /\ \A v \in Worker \ {s} : worker'[v] = worker[v]
    BY <2>6
  <2>8. \A v \in Worker : worker'[v].pc # "unused" => worker'[v].client \in Client
    BY <2>7 DEF Typed
  <2>9. Typed'
    BY <1>1, <2>6, <2>8 DEF Typed
  <2>10. ASSUME Sole, NEW w \in Worker, Running(w)'
         PROVE  worker'[w].client = global' /\ handle'[<<global', worker'[w].kind>>] = w
    <3>1. c = global /\ handle[<<c, k>>] = NoWorker /\ global' = global
      BY <1>1, <2>5, <2>10
    <3>2. CASE w = s
      BY <2>7, <3>1, <3>2
    <3>3. CASE w # s
      <4>1. worker'[w] = worker[w] /\ Running(w)
        BY <2>7, <2>10, <3>3 DEF Running
      <4>2. worker[w].client = global /\ handle[<<global, worker[w].kind>>] = w
        BY <2>10, <4>1 DEF WorkStoppable
      <4>3. <<global, worker[w].kind>> # <<c, k>>
        BY <3>1, <4>2, WorkerAssumption
      <4>4. <<global, worker[w].kind>> \in Client \X Kind
        BY <3>1 DEF Typed, WorkerTypeOK
      <4>5. handle'[<<global, worker[w].kind>>] = w
        BY <2>7, <4>2, <4>3, <4>4
      <4> QED BY <3>1, <4>1, <4>2, <4>5
    <3> QED BY <3>2, <3>3
  <2>11. Sole => WorkStoppable'
    BY <2>10 DEF WorkStoppable
  <2> QED BY <2>9, <2>11 DEF Sole
<1> QED BY <1>2, <1>3, <1>4

\* A step of a background goroutine.
LEMMA BackgroundKept ==
    ASSUME RegistryInv, NEW w \in Worker, Tick(w) \/ Finish(w) \/ Exit(w),
           UNCHANGED <<global, made, switchers, todo>>
    PROVE  RegistryInv'
<1> USE DEF RegistryInv
<1>1. global' = global /\ made' = made /\ switchers' = switchers /\ todo' = todo
  OBVIOUS
<1>2. /\ Calm /\ WorkerTypeOK' /\ handle' = handle
      /\ \A v \in Worker : worker'[v].client = worker[v].client
      /\ \A v \in Worker : worker'[v].pc # "unused" => worker[v].pc # "unused"
  <2>1. Typed
    OBVIOUS
  <2> QED BY <1>1, <2>1, WorkerCalms
<1>3. \A v \in Worker : worker'[v].pc # "unused" => worker'[v].client \in Client
  <2>1. \A v \in Worker : worker[v].pc # "unused" => worker[v].client \in Client
    BY DEF Typed
  <2> QED BY <1>2, <2>1
<1>4. Typed'
  BY <1>1, <1>2, <1>3 DEF Typed
<1>5. CallsInv'
  BY <1>1, <1>2, AllKeep
<1>6. WorkStoppable => WorkStoppable'
  <2>1. \A v \in Worker : handle'[<<global, worker[v].kind>>] = handle[<<global, worker[v].kind>>]
    BY <1>2
  <2> QED BY <1>1, <1>2, <2>1, CalmStoppable
<1> QED BY <1>4, <1>5, <1>6 DEF Sole

LEMMA Initially == ASSUME Init PROVE RegistryInv
<1>1. WorkerTypeOK /\ \A w \in Worker : worker[w].pc = "unused"
  BY DEF Init, WorkerInit, WorkerTypeOK, Unused, Kind
<1>2. Typed
  BY <1>1 DEF Init, Typed
<1>3. \A t \in Thread : todo[t] = <<>>
  BY DEF Init
<1>4. todo \in [Thread -> Seq(StepSet)]
  BY DEF Init
<1>5. CallsInv
  BY <1>3, <1>4 DEF CallsInv, CallOf, UseCall
<1>6. WorkStoppable
  BY <1>1 DEF WorkStoppable, Running
<1> QED BY <1>2, <1>5, <1>6 DEF RegistryInv

LEMMA Inductive == ASSUME RegistryInv, [Next]_vars PROVE RegistryInv'
<1>1. ASSUME NEW t \in Thread,
             \/ t \in Starter /\ (BuildContext(t) \/ StartWork(t))
             \/ StopWork(t) \/ GetSwitcher(t)
      PROVE  RegistryInv'
  BY <1>1, CallBegins, RegistryKept DEF RegistryInv
<1>2. ASSUME NEW t \in Thread,
             \/ DefaultClient(t) \/ CompareAndSwap(t) \/ Replace(t) \/ Store(t)
             \/ Start(t) \/ Lookup(t) \/ Create(t)
      PROVE  RegistryInv'
  <2>1. CallsInv'
    BY <1>2, DefaultClientKeeps, CompareAndSwapKeeps, ReplaceKeeps, StoreKeeps, StartKeeps, LookupKeeps
  <2> QED BY <1>2, <2>1, RegistryKept DEF RegistryInv
<1>3. ASSUME NEW t \in Thread, SignalStop(t) \/ AwaitDone(t) \/ LaunchNew(t) PROVE RegistryInv'
  <2>1. CallsInv'
    BY <1>3, SignalStopKeeps, AwaitDoneKeeps, LaunchNewKeeps
  <2> QED BY <1>3, <2>1, GoroutinesKept DEF RegistryInv
<1>4. CASE RunWorker(Tick) \/ RunWorker(Finish) \/ RunWorker(Exit)
  BY <1>4, BackgroundKept DEF RunWorker
<1>5. CASE UNCHANGED vars
  <2>1. /\ handle' = handle /\ worker' = worker /\ global' = global /\ made' = made
        /\ switchers' = switchers /\ todo' = todo
    BY <1>5 DEF vars
  <2>2. Calm
    BY <2>1 DEF Calm, Running
  <2>3. CallsInv'
    BY <2>1, <2>2, AllKeep DEF RegistryInv
  <2>4. Typed' /\ (Sole => WorkStoppable)'
    BY <2>1 DEF RegistryInv, Typed, WorkerTypeOK, WorkStoppable, Running, Sole
  <2> QED BY <2>3, <2>4 DEF RegistryInv
<1>6. Starter \subseteq Thread
  BY RegistryAssumption
<1> QED BY <1>1, <1>2, <1>3, <1>4, <1>5, <1>6 DEF Next, Advance

LEMMA Invariant == Spec => []RegistryInv
<1> QED BY Initially, Inductive, PTL DEF Spec

-----------------------------------------------------------------------------
(* What a goroutine is in the middle of is a call of four steps at most. *)

LEMMA LengthOfTail ==
    ASSUME NEW S, NEW q \in Seq(S)
    PROVE  /\ Len(q) \in Nat /\ q = <<>> => Len(q) = 0
           /\ q # <<>> => Tail(q) \in Seq(S) /\ Len(Tail(q)) \in Nat /\ Len(q) = Len(Tail(q)) + 1
<1>1. Len(q) \in Nat /\ (q = <<>> => Len(q) = 0)
  BY EmptySeq
<1>2. ASSUME q # <<>>
      PROVE  Tail(q) \in Seq(S) /\ Len(Tail(q)) \in Nat /\ Len(q) = Len(Tail(q)) + 1
  <2>1. Tail(q) \in Seq(S) /\ Len(Tail(q)) = Len(q) - 1 /\ Len(Tail(q)) \in Nat
    BY <1>2, HeadTailProperties
  <2> QED BY <1>1, <2>1
<1> QED BY <1>1, <1>2

LEMMA ShortCalls ==
    ASSUME CallsInv, NEW t \in Thread
    PROVE  Len(todo[t]) <= 5
<1> DEFINE q == todo[t]
<1>1. q \in Seq(StepSet)
  BY DEF CallsInv
<1>2. \/ q = <<>> \/ Tail(q) = <<>>
      \/ Tail(q) # <<>> /\ Tail(Tail(q)) = <<>>
      \/ Tail(q) # <<>> /\ Tail(Tail(q)) # <<>> /\ Tail(Tail(Tail(q))) = <<>>
      \/ /\ Tail(q) # <<>> /\ Tail(Tail(q)) # <<>> /\ Tail(Tail(Tail(q))) # <<>>
         /\ Tail(Tail(Tail(Tail(q)))) = <<>>
  <2>1. CASE UseCall(q)
    BY <2>1 DEF UseCall, Clientless, Last
  <2>2. CASE StartCall(q)
    BY <2>2 DEF StartCall, Clientless, Last
  <2>3. CASE BuildCall(q)
    BY <2>3 DEF BuildCall, Halts, Stores, Last
  <2> QED BY <2>1, <2>2, <2>3 DEF CallsInv, CallOf
<1> HIDE DEF q
<1>3. CASE q = <<>>
  BY <1>1, <1>3, LengthOfTail DEF q
<1>4. CASE q # <<>>
  <2>1. /\ Tail(q) \in Seq(StepSet) /\ Len(Tail(q)) \in Nat /\ Len(q) = Len(Tail(q)) + 1
        /\ Tail(q) = <<>> => Len(Tail(q)) = 0
    BY <1>1, <1>4, LengthOfTail
  <2>2. CASE Tail(q) = <<>>
    <3>1. Len(q) = 0 + 1
      BY <2>1, <2>2
    <3> QED BY <3>1 DEF q
  <2>3. CASE Tail(q) # <<>>
    <3> DEFINE u == Tail(q)
    <3> HIDE DEF u
    <3>1. /\ Tail(u) \in Seq(StepSet) /\ Len(Tail(u)) \in Nat /\ Len(u) = Len(Tail(u)) + 1
          /\ Tail(u) = <<>> => Len(Tail(u)) = 0
      BY <2>1, <2>3, LengthOfTail DEF u
    <3>2. Len(q) = Len(u) + 1
      BY <2>1 DEF u
    <3>3. CASE Tail(u) = <<>>
      BY <3>1, <3>2, <3>3 DEF q
    <3>4. CASE Tail(u) # <<>>
      <4> DEFINE v == Tail(u)
      <4> HIDE DEF v
      <4>1. /\ Tail(v) \in Seq(StepSet) /\ Len(Tail(v)) \in Nat /\ Len(v) = Len(Tail(v)) + 1
            /\ Tail(v) = <<>> => Len(Tail(v)) = 0
        BY <3>1, <3>4, LengthOfTail DEF v
      <4>2. Len(u) = Len(v) + 1
        BY <3>1 DEF v
      <4>3. Tail(v) = <<>> \/ (Tail(v) # <<>> /\ Tail(Tail(v)) = <<>>)
        BY <1>2, <1>4, <2>3, <3>4 DEF u, v
      <4>4. Len(Tail(v)) <= 1
        <5>1. Tail(v) # <<>> /\ Tail(Tail(v)) = <<>> => Len(Tail(v)) = 0 + 1
          BY <4>1, LengthOfTail
        <5> QED BY <4>1, <4>3, <5>1
      <4> QED BY <3>2, <4>1, <4>2, <4>4 DEF q
    <3> QED BY <3>3, <3>4
  <2> QED BY <2>2, <2>3
<1> QED BY <1>3, <1>4

-----------------------------------------------------------------------------
(* Theorems. *)

\* Client and context.Context: the goroutines, the clients and their switchers, and
\* the steps of every call, are of their types in every state.
THEOREM TypeCorrect == Spec => []TypeOK
<1>1. ASSUME RegistryInv PROVE TypeOK
  <2>1. ASSUME NEW t \in Thread, NEW i \in DOMAIN todo[t] PROVE todo[t][i] \in StepSet
    BY <1>1, <2>1 DEF RegistryInv, CallsInv
  <2>2. \A t \in Thread : \A i \in DOMAIN todo[t] :
          /\ todo[t][i].client \in made \cup {NoClient}
          /\ todo[t][i].do = "await" => todo[t][i].of \in Worker
    BY <2>1 DEF StepSet
  <2>3. \A t \in Thread : Len(todo[t]) <= 5
    BY <1>1, ShortCalls DEF RegistryInv
  <2> QED BY <1>1, <2>2, <2>3 DEF RegistryInv, Typed, TypeOK
<1> QED BY <1>1, Invariant, PTL

\* BuildContext, Start and Stop: when at most one goroutine of the application builds
\* contexts and starts background work, whatever runs unstopped belongs to the
\* global client, whose channels reach it.
THEOREM StoppableForOneStarter == ASSUME Sole PROVE Spec => []WorkStoppable
<1>1. RegistryInv => WorkStoppable
  BY DEF RegistryInv
<1> QED BY <1>1, Invariant, PTL

\* GetSwitcher: the switcher that a client has for a key is never replaced.
THEOREM OneSwitcher == Spec => SwitcherKept
<1> DEFINE Kept == \A s \in Client \X Key : switchers[s] # NoSwitcher => switchers'[s] = switchers[s]
<1>1. ASSUME RegistryInv, [Next]_vars PROVE [Kept]_vars
  <2>1. CASE UNCHANGED switchers
    BY <2>1
  <2>2. ASSUME NEW t \in Thread, Create(t) PROVE Kept
    <3> DEFINE at == <<Head(todo[t]).client, Head(todo[t]).of>>
    <3>1. switchers' = IF switchers[at] = NoSwitcher THEN [switchers EXCEPT ![at] = t] ELSE switchers
      BY <2>2 DEF Create
    <3> HIDE DEF at
    <3> QED BY <1>1, <3>1 DEF RegistryInv, Typed
  <2>3. ASSUME NEW t \in Thread,
               \/ BuildContext(t) \/ StartWork(t) \/ StopWork(t) \/ GetSwitcher(t)
               \/ DefaultClient(t) \/ CompareAndSwap(t) \/ Replace(t) \/ Store(t)
               \/ Start(t) \/ SignalStop(t) \/ AwaitDone(t) \/ LaunchNew(t) \/ Lookup(t)
        PROVE  UNCHANGED switchers
    BY <2>3 DEF BuildContext, StartWork, StopWork, GetSwitcher, DefaultClient, CompareAndSwap,
                Replace, Store, Start, SignalStop, AwaitDone, LaunchNew, Lookup
  <2>4. CASE RunWorker(Tick) \/ RunWorker(Finish) \/ RunWorker(Exit)
    BY <2>1, <2>4 DEF RunWorker
  <2> QED BY <1>1, <2>1, <2>2, <2>3, <2>4, RegistryAssumption DEF Next, Advance, vars
<1> QED BY <1>1, Invariant, PTL DEF Spec, SwitcherKept

\* defaultClient: the client that it stored, or found, stays until BuildContext stores
\* another one.
THEOREM ReplacedByBuildContext == Spec => DefaultKept
<1> DEFINE Kept == global' # global => global = NoClient \/ \E t \in Starter : Store(t)
<1>1. ASSUME RegistryInv, [Next]_vars PROVE [Kept]_vars
  <2>1. CASE UNCHANGED global
    BY <2>1
  <2>2. ASSUME NEW t \in Thread, Store(t) PROVE Kept
    BY <1>1, <2>2, StoreKeeps
  <2>3. ASSUME NEW t \in Thread, CompareAndSwap(t) PROVE Kept
    BY <2>3 DEF CompareAndSwap
  <2>4. ASSUME NEW t \in Thread,
               \/ BuildContext(t) \/ StartWork(t) \/ StopWork(t) \/ GetSwitcher(t)
               \/ DefaultClient(t) \/ Replace(t) \/ Start(t) \/ SignalStop(t)
               \/ AwaitDone(t) \/ LaunchNew(t) \/ Lookup(t) \/ Create(t)
        PROVE  UNCHANGED global
    BY <2>4 DEF BuildContext, StartWork, StopWork, GetSwitcher, DefaultClient, Replace,
                Start, SignalStop, AwaitDone, LaunchNew, Lookup, Create
  <2>5. CASE RunWorker(Tick) \/ RunWorker(Finish) \/ RunWorker(Exit)
    BY <2>1, <2>5 DEF RunWorker
  <2> QED BY <1>1, <2>1, <2>2, <2>3, <2>4, <2>5, RegistryAssumption DEF Next, Advance, vars
<1> QED BY <1>1, Invariant, PTL DEF Spec, DefaultKept
=============================================================================
