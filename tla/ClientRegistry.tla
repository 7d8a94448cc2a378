--------------------------- MODULE ClientRegistry ---------------------------
(***************************************************************************)
(* The clients of a process: the global one, which BuildContext replaces   *)
(* and defaultClient creates when there is none, their cached switchers,   *)
(* and the starting and stopping of their background goroutines.           *)
(*                                                                         *)
(* A goroutine of the application runs one call of the package at a time,  *)
(* as a sequence of steps, each with the client and the object it is       *)
(* about.  A switcher is told by the goroutine that created it.  What      *)
(* BuildContext does to the session is in AuthSession (Discard).           *)
(***************************************************************************)
EXTENDS BackgroundWorker, Integers, Sequences, FiniteSets

CONSTANTS
    Thread,      \* goroutines of the application
    Starter,     \* those that build contexts and start background work
    Key,         \* keys of switchers
    NoSwitcher,  \* no switcher
    AutoUpdate   \* the contexts have a SnapshotAutoUpdateInterval

ASSUME RegistryAssumption ==
    /\ Starter \subseteq Thread
    /\ AutoUpdate \in BOOLEAN

VARIABLES
    global,     \* globalClient
    made,       \* the clients created so far
    switchers,  \* Client.switchers, by client and key
    todo        \* the steps of the call each goroutine is in

workers == <<handle, worker>>
vars    == <<handle, worker, global, made, switchers, todo>>

Step(do, c, x) == [do |-> do, client |-> c, of |-> x]

\* The client that is created next: which one is of no matter.
NewClient == CHOOSE c \in Client : c \notin made

TypeOK ==
    /\ WorkerTypeOK
    /\ global \in made \cup {NoClient}
    /\ made \subseteq Client
    /\ switchers \in [Client \X Key -> Thread \cup {NoSwitcher}]
    /\ \A t \in Thread :
          /\ Len(todo[t]) <= 5
          /\ \A i \in DOMAIN todo[t] :
                /\ todo[t][i].client \in made \cup {NoClient}
                /\ todo[t][i].do = "await" => todo[t][i].of \in Worker

Init ==
    /\ WorkerInit
    /\ global = NoClient
    /\ made = {}
    /\ switchers = [s \in Client \X Key |-> NoSwitcher]
    /\ todo = [t \in Thread |-> <<>>]

-----------------------------------------------------------------------------
(* The calls. *)

Call(t, step) ==
    /\ todo[t] = <<>>
    /\ todo' = [todo EXCEPT ![t] = <<step>>]

\* BuildContext first creates the client.  The last client is kept for defaultClient.
BuildContext(t) ==
    /\ Cardinality(Client \ made) > 1
    /\ made' = made \cup {NewClient}
    /\ Call(t, Step("replace", NewClient, ""))
    /\ UNCHANGED <<workers, global, switchers>>

\* ScheduleSnapshotAutoUpdate and WatchSnapshot, of the global client.
StartWork(t) ==
    /\ \E k \in Kind : Call(t, Step("start", NoClient, k))
    /\ UNCHANGED <<workers, global, made, switchers>>

\* TerminateSnapshotAutoUpdate and UnwatchSnapshot
StopWork(t) ==
    /\ \E k \in Kind : Call(t, Step("stop", NoClient, k))
    /\ UNCHANGED <<workers, global, made, switchers>>

\* GetSwitcher
GetSwitcher(t) ==
    /\ \E key \in Key : Call(t, Step("lookup", NoClient, key))
    /\ UNCHANGED <<workers, global, made, switchers>>

-----------------------------------------------------------------------------
(* The steps. *)

\* Goroutine t takes its next step, which others take the place of.
Does(t, do, steps) ==
    /\ todo[t] # <<>>
    /\ Head(todo[t]).do = do
    /\ Head(todo[t]).client # NoClient
    /\ todo' = [todo EXCEPT ![t] = steps \o Tail(@)]

\* defaultClient, for a call that has no client yet.
DefaultClient(t) ==
    /\ todo[t] # <<>>
    /\ Head(todo[t]).client = NoClient
    /\ \/ /\ global # NoClient
          /\ todo' = [todo EXCEPT ![t][1].client = global]
          /\ UNCHANGED made
       \/ /\ global = NoClient
          /\ Client \ made # {}
          /\ made' = made \cup {NewClient}
          /\ todo' = [todo EXCEPT ![t] = <<Step("swap", NewClient, "")>> \o @]
    /\ UNCHANGED <<workers, global, switchers>>

\* Faulty: the new client is stored whatever is there.
SwapAlways(t) ==
    LET new == Head(todo[t]).client IN
    /\ Does(t, "swap", <<[todo[t][2] EXCEPT !.client = new]>>)
    /\ global' = new
    /\ UNCHANGED <<workers, made, switchers>>

\* CompareAndSwap.  When it fails, the global client is loaded again.
CompareAndSwap(t) ==
    LET new == Head(todo[t]).client IN
    /\ todo[t] # <<>>
    /\ Head(todo[t]).do = "swap"
    /\ \/ /\ global = NoClient
          /\ global' = new
          /\ todo' = [todo EXCEPT ![t] = <<[@[2] EXCEPT !.client = new]>>]
       \/ /\ global # NoClient
          /\ todo' = [todo EXCEPT ![t] = Tail(@)]
          /\ UNCHANGED global
    /\ UNCHANGED <<workers, made, switchers>>

\* Client.stopBackgroundTasks
StopBackgroundTasks(c) == <<Step("stop", c, "updater"), Step("stop", c, "watcher")>>

\* Faulty: the watcher of the client that is replaced is not stopped.
ReplaceHalf(t) ==
    LET new == Head(todo[t]).client IN
    /\ Does(t, "replace",
            (IF global = NoClient THEN <<>> ELSE <<Step("stop", global, "updater")>>)
            \o <<Step("store", new, "")>>
            \o (IF AutoUpdate THEN <<Step("start", new, "updater")>> ELSE <<>>))
    /\ UNCHANGED <<workers, global, made, switchers>>

\* BuildContext loads the global client, to stop its background work before
\* the new one takes its place.
Replace(t) ==
    LET new == Head(todo[t]).client IN
    /\ Does(t, "replace",
            (IF global = NoClient THEN <<>> ELSE StopBackgroundTasks(global))
            \o <<Step("store", new, "")>>
            \o (IF AutoUpdate THEN <<Step("start", new, "updater")>> ELSE <<>>))
    /\ UNCHANGED <<workers, global, made, switchers>>

Store(t) ==
    /\ Does(t, "store", <<>>)
    /\ global' = Head(todo[t]).client
    /\ UNCHANGED <<workers, made, switchers>>

\* Start: an updater always does, a watcher unless the file is missing.
Start(t) ==
    LET c == Head(todo[t]).client  k == Head(todo[t]).of IN
    /\ \/ Does(t, "start", <<Step("stop", c, k), Step("launch", c, k)>>)
       \/ /\ Does(t, "start", <<>>)
          /\ k = "watcher"
    /\ UNCHANGED <<workers, global, made, switchers>>

\* Faulty: Stop waits for a goroutine that never was.
SignalAndWait(t) ==
    LET c == Head(todo[t]).client  k == Head(todo[t]).of  w == handle[c, k] IN
    /\ Does(t, "stop", <<Step("await", c, w)>>)
    /\ Signal(c, k, w)
    /\ UNCHANGED <<global, made, switchers>>

\* Stop
SignalStop(t) ==
    LET c == Head(todo[t]).client  k == Head(todo[t]).of  w == handle[c, k] IN
    /\ Does(t, "stop", IF w = NoWorker THEN <<>> ELSE <<Step("await", c, w)>>)
    /\ Signal(c, k, w)
    /\ UNCHANGED <<global, made, switchers>>

AwaitDone(t) ==
    /\ Does(t, "await", <<>>)
    /\ Await(Head(todo[t]).of)
    /\ UNCHANGED <<global, made, switchers>>

LaunchNew(t) ==
    /\ Does(t, "launch", <<>>)
    /\ Launch(Head(todo[t]).client, Head(todo[t]).of)
    /\ UNCHANGED <<global, made, switchers>>

\* GetSwitcher looks the switcher up under the read lock,
Lookup(t) ==
    LET c == Head(todo[t]).client  key == Head(todo[t]).of IN
    /\ Does(t, "lookup", IF switchers[c, key] = NoSwitcher
                         THEN <<Step("create", c, key)>> ELSE <<>>)
    /\ UNCHANGED <<workers, global, made, switchers>>

\* Faulty: the switcher is not looked up again.
CreateAnyway(t) ==
    LET c == Head(todo[t]).client  key == Head(todo[t]).of IN
    /\ Does(t, "create", <<>>)
    /\ switchers' = [switchers EXCEPT ![<<c, key>>] = t]
    /\ UNCHANGED <<workers, global, made>>

\* and again under the write lock, before it creates it.
Create(t) ==
    LET c == Head(todo[t]).client  key == Head(todo[t]).of IN
    /\ Does(t, "create", <<>>)
    /\ switchers' = IF switchers[c, key] = NoSwitcher
                    THEN [switchers EXCEPT ![<<c, key>>] = t] ELSE switchers
    /\ UNCHANGED <<workers, global, made>>

Advance(t) ==
    \/ DefaultClient(t) \/ CompareAndSwap(t) \/ Replace(t) \/ Store(t)
    \/ Start(t) \/ SignalStop(t) \/ AwaitDone(t) \/ LaunchNew(t)
    \/ Lookup(t) \/ Create(t)

RunWorker(step(_)) ==
    \E w \in Worker : step(w) /\ UNCHANGED <<global, made, switchers, todo>>

Next ==
    \/ \E t \in Starter : BuildContext(t) \/ StartWork(t)
    \/ \E t \in Thread : StopWork(t) \/ GetSwitcher(t) \/ Advance(t)
    \/ RunWorker(Tick) \/ RunWorker(Finish) \/ RunWorker(Exit)

Spec == Init /\ [][Next]_vars

\* Goroutines go on.  A background goroutine takes the stop that it is offered
\* together with its ticks sooner or later, as select chooses at random.
FairSpec ==
    /\ Spec
    /\ \A t \in Thread : WF_vars(Advance(t))
    /\ \A w \in Worker :
          /\ WF_vars(Finish(w) /\ UNCHANGED <<global, made, switchers, todo>>)
          /\ SF_vars(Exit(w) /\ UNCHANGED <<global, made, switchers, todo>>)

-----------------------------------------------------------------------------
(* Properties. *)

\* Background work that nobody has told to stop can be stopped: the global
\* client holds its channels, and no client that was replaced still works.
WorkStoppable ==
    \A w \in Worker :
        Running(w) => /\ worker[w].client = global
                      /\ handle[global, worker[w].kind] = w

\* GetSwitcher: one switcher per client and key, whoever asks first.
SwitcherKept ==
    [][\A s \in Client \X Key :
          switchers[s] # NoSwitcher => switchers'[s] = switchers[s]]_vars

\* Only BuildContext replaces a client that defaultClient has handed out.
DefaultKept ==
    [][global' # global => global = NoClient \/ \E t \in Starter : Store(t)]_vars

\* Stop waits for the goroutine, which may be in the middle of a check: every
\* call returns all the same.
EveryCallReturns == \A t \in Thread : todo[t] # <<>> ~> todo[t] = <<>>
=============================================================================
