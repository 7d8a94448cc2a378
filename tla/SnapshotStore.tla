---------------------------- MODULE SnapshotStore ----------------------------
(***************************************************************************)
(* The snapshot of one client: in memory, in its file, and behind the API. *)
(*                                                                         *)
(* Three goroutines change it: the application (LoadSnapshot,              *)
(* CheckSnapshot, WatchSnapshot), the auto-updater, which checks the API   *)
(* at every tick, and the watcher, which loads the file when it changes.   *)
(* They take no lock across their steps.  The process may crash, the API   *)
(* and the disk may fail, and another program may deploy the file.         *)
(*                                                                         *)
(* Abstractions.  A snapshot is its version.  Writing a file is two steps, *)
(* as os.WriteFile does it: it truncates, then it writes.  dirty says that *)
(* the file's time or size differs from what the watcher saw last, so any  *)
(* two writes are told apart.  The goroutines' Stop is in BackgroundWorker.*)
(***************************************************************************)
EXTENDS Integers

CONSTANTS
    Setup,       \* the setups Init chooses from
    MaxVersion,  \* bound: the versions the API publishes
    MaxCalls,    \* bound: the calls of the application
    MaxFaults    \* bound: how often the process dies or the disk fails

ASSUME StoreAssumption ==
    /\ Setup \subseteq {"memory", "fresh", "seeded", "deployed"}
    /\ MaxVersion \in Nat \ {0}
    /\ MaxCalls \in Nat
    /\ MaxFaults \in Nat

VARIABLES
    setup,      \* how the client is set up
    memory,     \* Client.snapshot, as SnapshotVersion() tells it
    file,       \* the snapshot file
    dirty,      \* the file changed since the watcher's last look
    pc,         \* where each goroutine is
    hand,       \* the version each goroutine holds
    todo,       \* what LoadSnapshot of the application still has to do
    published,  \* the version behind the API
    apiUp,      \* the API is reachable, and answers as it should
    diskUp,     \* the disk can be read and written
    calls,      \* calls the application has made
    faults      \* faults so far

store == <<memory, file, dirty>>
world == <<setup, published, apiUp, diskUp, calls, faults>>
vars  == <<setup, memory, file, dirty, pc, hand, todo,
           published, apiUp, diskUp, calls, faults>>

Goroutine == {"app", "updater", "watcher", "deployer"}

Version == 0..MaxVersion

Whole(v) == [is |-> "whole", version |-> v]
NoFile   == [is |-> "absent", version |-> -1]
Empty    == [is |-> "empty", version |-> -1]
Garbled  == [is |-> "garbled", version |-> -1]

\* memory: no SnapshotLocation; the working directory may have a file of the
\* name, which is read and never written.
\* fresh: an empty SnapshotLocation.
\* seeded: a file is there, on a disk that does not fail, the application leaves
\* the checks to the updater, and what the API answers is complete.
\* deployed: Local, without updater, the file is brought by another program; if
\* asked at all, the API answers.
HasLocation == setup # "memory"
Local       == setup = "deployed"

\* os.Stat finds the file.
Found == diskUp /\ file.is # "absent"

Watching == pc["watcher"] # "off"

TypeOK ==
    /\ setup \in Setup
    /\ memory \in Version
    /\ file \in {NoFile, Empty, Garbled} \cup {Whole(v) : v \in Version}
    /\ dirty \in BOOLEAN
    /\ pc \in [Goroutine -> {"off", "rest", "stat", "read", "version", "ask",
                             "resolve", "open", "write", "set", "decide", "watch"}]
    /\ hand \in [Goroutine -> Version]
    /\ todo \subseteq {"load", "fetch", "watch"}
    /\ published \in Version
    /\ {apiUp, diskUp} \subseteq BOOLEAN
    /\ calls \in 0..MaxCalls
    /\ faults \in 0..MaxFaults

\* Where the goroutines are when the process starts.  BuildContext starts the
\* updater.
Started(s) == [app |-> "rest", watcher |-> "off", deployer |-> "rest",
               updater |-> IF s = "deployed" THEN "off" ELSE "rest"]

Init ==
    /\ setup \in Setup
    /\ memory = 0
    /\ file \in {NoFile, Whole(1)}
    /\ setup \in {"seeded", "deployed"} => file = Whole(1)
    /\ setup = "fresh" => file = NoFile
    /\ dirty = FALSE
    /\ pc = Started(setup)
    /\ hand = [g \in Goroutine |-> 0]
    /\ todo = {}
    /\ published = 1
    /\ apiUp = TRUE
    /\ diskUp = TRUE
    /\ calls = 0
    /\ faults = 0

\* A goroutine goes from a step to another one, with a version in hand.
Step(g, from, to, v) ==
    /\ pc[g] = from
    /\ pc' = [pc EXCEPT ![g] = to]
    /\ hand' = [hand EXCEPT ![g] = IF to = "rest" THEN 0 ELSE v]

\* An error ends what the goroutine was doing: LoadSnapshot and CheckSnapshot
\* return it, the updater and the watcher tell their callback and go on.
Fail(g, from) ==
    /\ Step(g, from, "rest", 0)
    /\ todo' = IF g = "app" THEN {} ELSE todo
    /\ UNCHANGED <<store, world>>

-----------------------------------------------------------------------------
(* loadSnapshotFromFile *)

\* Whatever error Stat returns, the file is taken for absent.
Stat(g) ==
    /\ \/ Found  /\ Step(g, "stat", "read", 0)
       \/ ~Found /\ Step(g, "stat", "open", 0)
    /\ UNCHANGED <<store, todo, world>>

\* Faulty: the error of Unmarshal is not looked at.
ReadUnchecked(g) ==
    /\ Step(g, "read", "set", file.version)
    /\ UNCHANGED <<store, todo, world>>

\* ReadFile and Unmarshal.  The error of ReadFile is dropped, and Unmarshal
\* rejects the content it did not get.
Read(g) ==
    \/ /\ diskUp /\ file.is = "whole"
       /\ Step(g, "read", "set", file.version)
       /\ UNCHANGED <<store, todo, world>>
    \/ /\ ~diskUp \/ file.is # "whole"
       /\ Fail(g, "read")

-----------------------------------------------------------------------------
(* saveSnapshotToFile, and createDefaultSnapshot: without a location there is *)
(* nothing to write.                                                          *)

Open(g) ==
    \/ /\ ~HasLocation
       /\ Step(g, "open", "set", hand[g])
       /\ UNCHANGED <<store, todo, world>>
    \/ /\ HasLocation /\ diskUp
       /\ Step(g, "open", "write", hand[g])
       /\ file' = Empty
       /\ dirty' = Watching
       /\ UNCHANGED <<memory, todo, world>>
    \/ /\ HasLocation /\ ~diskUp
       /\ Fail(g, "open")

\* What the file becomes when a version is written to it.  What another one has
\* written since the file was truncated may be longer, and its end stays.
Written(v) ==
    CASE file.is = "absent"                    -> {NoFile}
      [] file.is = "empty" \/ file = Whole(v)  -> {Whole(v)}
      [] OTHER                                 -> {Whole(v), Garbled}

Write(g) ==
    \/ /\ diskUp
       /\ Step(g, "write", "set", hand[g])
       /\ file' \in Written(hand[g])
       /\ dirty' = Watching
       /\ UNCHANGED <<memory, todo, world>>
    \/ /\ ~diskUp
       /\ Fail(g, "write")

\* Faulty: what the watcher compares with is taken once the file is loaded.
SetAndCompare(g) ==
    /\ Step(g, "set", IF g # "app" THEN "rest"
                      ELSE IF "load" \in todo THEN "decide" ELSE "watch", 0)
    /\ memory' = hand[g]
    /\ dirty' = (dirty /\ g # "watcher")
    /\ UNCHANGED <<file, todo, world>>

\* setSnapshot.  LoadSnapshot then decides whether to check, CheckSnapshot is
\* done, and the watcher calls Success.
SetSnapshot(g) ==
    /\ Step(g, "set", IF g # "app" THEN "rest"
                      ELSE IF "load" \in todo THEN "decide" ELSE "watch", 0)
    /\ memory' = hand[g]
    /\ UNCHANGED <<file, dirty, todo, world>>

-----------------------------------------------------------------------------
(* CheckSnapshot *)

\* The client's version is read,
ReadVersion(g) ==
    /\ Step(g, "version", "ask", memory)
    /\ UNCHANGED <<store, todo, world>>

\* checkSnapshotVersion asks whether it is the current one,
CheckVersion(g) ==
    \/ /\ apiUp
       /\ Step(g, "ask", CASE hand[g] # published -> "resolve"
                           [] g = "app"           -> "watch"
                           [] OTHER               -> "rest", 0)
       /\ UNCHANGED <<store, todo, world>>
    \/ /\ ~apiUp
       /\ Fail(g, "ask")

\* Faulty: the snapshot is set before it is saved.
ResolveAndSet(g) ==
    \/ /\ apiUp
       /\ Step(g, "resolve", "open", published)
       /\ memory' = published
       /\ UNCHANGED <<file, dirty, todo, world>>
    \/ /\ ~apiUp /\ setup # "seeded"
       /\ Step(g, "resolve", "open", 0)
       /\ UNCHANGED <<store, todo, world>>
    \/ /\ ~apiUp
       /\ Fail(g, "resolve")

\* and resolveSnapshot gets the current one, to be saved and then set.  An answer
\* of an API in trouble, without a domain, is taken for the empty snapshot.
Resolve(g) ==
    \/ /\ apiUp
       /\ Step(g, "resolve", "open", published)
       /\ UNCHANGED <<store, todo, world>>
    \/ /\ ~apiUp /\ setup # "seeded"
       /\ Step(g, "resolve", "open", 0)
       /\ UNCHANGED <<store, todo, world>>
    \/ /\ ~apiUp
       /\ Fail(g, "resolve")

Advance(g) ==
    \/ Stat(g) \/ Read(g) \/ Open(g) \/ Write(g) \/ SetSnapshot(g)
    \/ ReadVersion(g) \/ CheckVersion(g) \/ Resolve(g)

-----------------------------------------------------------------------------
(* The application. *)

Call(first, steps) ==
    /\ calls < MaxCalls
    /\ calls' = calls + 1
    /\ Step("app", "rest", first, 0)
    /\ todo' = steps
    /\ UNCHANGED <<store, setup, published, apiUp, diskUp, faults>>

\* LoadSnapshot, with FetchRemote and WatchSnapshot.  The application watches
\* once.
LoadSnapshot ==
    \E options \in SUBSET {"fetch", "watch"} :
        /\ Watching => "watch" \notin options
        /\ Call("stat", {"load"} \cup options)

CheckSnapshot == setup # "seeded" /\ Call("version", {})

WatchSnapshot == ~Watching /\ Call("watch", {"watch"})

\* shouldCheckSnapshot
Decide ==
    /\ Step("app", "decide",
            IF memory = 0 /\ ("fetch" \in todo \/ ~Local) THEN "version" ELSE "watch", 0)
    /\ todo' = todo \ {"load"}
    /\ UNCHANGED <<store, world>>

\* snapshotWatcher.Start, when asked for: the file must be there, and what it
\* looks like now is what the watcher compares with.
StartWatch ==
    /\ pc["app"] = "watch"
    /\ IF "watch" \in todo /\ HasLocation /\ Found
       THEN /\ pc' = [pc EXCEPT !["app"] = "rest", !["watcher"] = "rest"]
            /\ dirty' = FALSE
       ELSE /\ pc' = [pc EXCEPT !["app"] = "rest"]
            /\ UNCHANGED dirty
    /\ todo' = {}
    /\ UNCHANGED <<memory, file, hand, world>>

App == Advance("app") \/ Decide \/ StartWatch

-----------------------------------------------------------------------------
(* The background goroutines. *)

\* Faulty: an error ends the loop.
TickOrEnd ==
    /\ IF apiUp THEN Step("updater", "rest", "version", 0)
                ELSE Step("updater", "rest", "off", 0)
    /\ UNCHANGED <<store, todo, world>>

\* A tick of the updater.
Tick ==
    /\ Step("updater", "rest", "version", 0)
    /\ UNCHANGED <<store, todo, world>>

\* The watcher's tick, when it finds the file and sees a difference: it takes
\* the new look for the old one and loads.  Otherwise it goes on.
Poll ==
    /\ dirty /\ Found
    /\ Step("watcher", "rest", "stat", 0)
    /\ dirty' = FALSE
    /\ UNCHANGED <<memory, file, todo, world>>

-----------------------------------------------------------------------------
(* The environment. *)

\* A new configuration is published.
Publish ==
    /\ published < MaxVersion
    /\ published' = published + 1
    /\ UNCHANGED <<store, pc, hand, todo, setup, apiUp, diskUp, calls, faults>>

\* Another program puts the published snapshot in the place of the file, either
\* writing over it or removing it first.
Deploy ==
    /\ setup = "deployed"
    /\ \/ /\ Step("deployer", "rest", "write", published)
          /\ file' \in {NoFile, Empty}
       \/ /\ Step("deployer", "write", "rest", 0)
          /\ file' \in IF file = NoFile THEN {Whole(hand["deployer"])}
                                        ELSE Written(hand["deployer"])
    /\ dirty' = Watching
    /\ UNCHANGED <<memory, todo, world>>

\* The process dies and is started again.
Crash ==
    /\ faults < MaxFaults
    /\ faults' = faults + 1
    /\ memory' = 0
    /\ dirty' = FALSE
    /\ pc' = [Started(setup) EXCEPT !["deployer"] = pc["deployer"]]
    /\ hand' = [g \in Goroutine |-> IF g = "deployer" THEN hand[g] ELSE 0]
    /\ todo' = {}
    /\ UNCHANGED <<file, setup, published, apiUp, diskUp, calls>>

FlipApi ==
    /\ ~Local
    /\ apiUp' = ~apiUp
    /\ UNCHANGED <<store, pc, hand, todo, setup, published, diskUp, calls, faults>>

FlipDisk ==
    /\ setup \in {"fresh", "deployed"}
    /\ diskUp => faults < MaxFaults
    /\ diskUp' = ~diskUp
    /\ faults' = IF diskUp THEN faults + 1 ELSE faults
    /\ UNCHANGED <<store, pc, hand, todo, setup, published, apiUp, calls>>

Next ==
    \/ App \/ LoadSnapshot \/ CheckSnapshot \/ WatchSnapshot
    \/ Tick \/ Advance("updater")
    \/ Poll \/ Advance("watcher")
    \/ Publish \/ Deploy \/ Crash \/ FlipApi \/ FlipDisk

Spec == Init /\ [][Next]_vars

\* Running goroutines go on, and the tickers tick.
FairSpec ==
    /\ Spec
    /\ WF_vars(App)
    /\ WF_vars(Tick) /\ WF_vars(Advance("updater"))
    /\ WF_vars(Poll) /\ WF_vars(Advance("watcher"))

-----------------------------------------------------------------------------
(* Properties. *)

\* saveSnapshotToFile comes before setSnapshot: where only the updater checks,
\* a program that is started again does not find an older snapshot than the one
\* it served, however loads, checks and a watcher interleave.
Persisted ==
    setup = "seeded" /\ file.is = "whole" => memory <= file.version

\* ScheduleSnapshotAutoUpdate: once API and disk stay up, memory ends up with
\* the published version, whatever loads, torn files, failures and crashes did.
MemoryConverges ==
    setup # "deployed" =>
        (<>[](apiUp /\ diskUp) => <>[](memory = published))

\* snapshotWatcher: a snapshot that is written completely under a watcher is
\* loaded while the disk stays up, unless it is replaced before.
WatcherFollows ==
    \A v \in Version :
        (Watching /\ dirty /\ file = Whole(v) /\ []diskUp)
        ~> (memory = v \/ file # Whole(v) \/ ~Watching)
=============================================================================
