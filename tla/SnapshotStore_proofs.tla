------------------------ MODULE SnapshotStore_proofs ------------------------
(***************************************************************************)
(* Proofs about SnapshotStore, for every number of versions, calls and     *)
(* faults.                                                                 *)
(***************************************************************************)
EXTENDS SnapshotStore, TLAPS

-----------------------------------------------------------------------------
(* Types. *)

Label == {"off", "rest", "stat", "read", "version", "ask",
          "resolve", "open", "write", "set", "decide", "watch"}

LEMMA StepTyped ==
    ASSUME TypeOK, NEW g \in Goroutine, NEW from, NEW to \in Label, NEW v \in Version,
           Step(g, from, to, v)
    PROVE  pc' \in [Goroutine -> Label] /\ hand' \in [Goroutine -> Version]
<1>1. 0 \in Version
  BY StoreAssumption DEF Version
<1>2. pc \in [Goroutine -> Label] /\ hand \in [Goroutine -> Version]
  BY DEF TypeOK, Label
<1>3. pc' \in [Goroutine -> Label]
  BY <1>2 DEF Step
<1>4. hand' \in [Goroutine -> Version]
  BY <1>1, <1>2 DEF Step
<1> QED BY <1>3, <1>4

LEMMA FailTyped ==
    ASSUME TypeOK, NEW g \in Goroutine, NEW from, Fail(g, from)
    PROVE  TypeOK'
<1>1. 0 \in Version /\ "rest" \in Label
  BY StoreAssumption DEF Version, Label
<1>2. pc' \in [Goroutine -> Label] /\ hand' \in [Goroutine -> Version]
  BY <1>1, StepTyped DEF Fail
<1>3. todo' \subseteq {"load", "fetch", "watch"}
  BY DEF Fail, TypeOK
<1> QED BY <1>2, <1>3 DEF Fail, TypeOK, Label, store, world

LEMMA AdvanceTyped ==
    ASSUME TypeOK, NEW g \in Goroutine, Advance(g)
    PROVE  TypeOK'
<1>0. 0 \in Version /\ hand[g] \in Version /\ memory \in Version /\ published \in Version
  BY StoreAssumption DEF TypeOK, Version
<1>1. Label = {"off", "rest", "stat", "read", "version", "ask",
               "resolve", "open", "write", "set", "decide", "watch"}
  BY DEF Label
<1>2. CASE Stat(g)
  <2>1. pc' \in [Goroutine -> Label] /\ hand' \in [Goroutine -> Version]
    BY <1>0, <1>1, <1>2, StepTyped DEF Stat
  <2> QED BY <1>1, <1>2, <2>1 DEF Stat, TypeOK, store, world
<1>3. CASE Read(g)
  <2>1. CASE Fail(g, "read")
    BY <2>1, FailTyped
  <2>2. CASE ~Fail(g, "read")
    <3>1. file.version \in Version
      BY <1>3, <2>2 DEF Read, TypeOK, NoFile, Empty, Garbled, Whole
    <3>2. pc' \in [Goroutine -> Label] /\ hand' \in [Goroutine -> Version]
      BY <1>1, <1>3, <2>2, <3>1, StepTyped DEF Read
    <3> QED BY <1>1, <1>3, <2>2, <3>2 DEF Read, TypeOK, store, world
  <2> QED BY <2>1, <2>2
<1>4. CASE Open(g)
  <2>1. CASE Fail(g, "open")
    BY <2>1, FailTyped
  <2>2. CASE ~Fail(g, "open")
    <3>1. pc' \in [Goroutine -> Label] /\ hand' \in [Goroutine -> Version]
      BY <1>0, <1>1, <1>4, <2>2, StepTyped DEF Open
    <3> QED BY <1>1, <1>4, <2>2, <3>1 DEF Open, TypeOK, store, world, Watching
  <2> QED BY <2>1, <2>2
<1>5. CASE Write(g)
  <2>1. CASE Fail(g, "write")
    BY <2>1, FailTyped
  <2>2. CASE ~Fail(g, "write")
    <3>1. pc' \in [Goroutine -> Label] /\ hand' \in [Goroutine -> Version]
      BY <1>0, <1>1, <1>5, <2>2, StepTyped DEF Write
    <3>2. Written(hand[g]) \subseteq {NoFile, Garbled, Whole(hand[g])}
      BY DEF Written
    <3>3. file' \in {NoFile, Empty, Garbled} \cup {Whole(v) : v \in Version}
      BY <1>0, <1>5, <2>2, <3>2 DEF Write
    <3>4. dirty' \in BOOLEAN /\ UNCHANGED <<memory, todo, world>>
      BY <1>5, <2>2 DEF Write, Watching
    <3> QED BY <1>1, <3>1, <3>3, <3>4 DEF TypeOK, world
  <2> QED BY <2>1, <2>2
<1>6. CASE SetSnapshot(g)
  <2>1. (IF g # "app" THEN "rest" ELSE IF "load" \in todo THEN "decide" ELSE "watch") \in Label
    BY <1>1
  <2>2. pc' \in [Goroutine -> Label] /\ hand' \in [Goroutine -> Version]
    BY <1>0, <1>6, <2>1, StepTyped DEF SetSnapshot
  <2> QED BY <1>0, <1>1, <1>6, <2>2 DEF SetSnapshot, TypeOK, world
<1>7. CASE ReadVersion(g)
  <2>1. pc' \in [Goroutine -> Label] /\ hand' \in [Goroutine -> Version]
    BY <1>0, <1>1, <1>7, StepTyped DEF ReadVersion
  <2> QED BY <1>1, <1>7, <2>1 DEF ReadVersion, TypeOK, store, world
<1>8. CASE CheckVersion(g)
  <2>1. CASE Fail(g, "ask")
    BY <2>1, FailTyped
  <2>2. CASE ~Fail(g, "ask")
    <3>1. PICK to \in Label : Step(g, "ask", to, 0)
      BY <1>1, <1>8, <2>2 DEF CheckVersion
    <3>2. pc' \in [Goroutine -> Label] /\ hand' \in [Goroutine -> Version]
      BY <1>0, <3>1, StepTyped
    <3> QED BY <1>1, <1>8, <2>2, <3>2 DEF CheckVersion, TypeOK, store, world
  <2> QED BY <2>1, <2>2
<1>9. CASE Resolve(g)
  <2>1. CASE Fail(g, "resolve")
    BY <2>1, FailTyped
  <2>2. CASE ~Fail(g, "resolve")
    <3>1. pc' \in [Goroutine -> Label] /\ hand' \in [Goroutine -> Version]
      BY <1>0, <1>1, <1>9, <2>2, StepTyped DEF Resolve
    <3> QED BY <1>1, <1>9, <2>2, <3>1 DEF Resolve, TypeOK, store, world
  <2> QED BY <2>1, <2>2
<1> QED BY <1>2, <1>3, <1>4, <1>5, <1>6, <1>7, <1>8, <1>9 DEF Advance

LEMMA CallTyped ==
    ASSUME TypeOK, NEW first \in Label, NEW steps \in SUBSET {"load", "fetch", "watch"},
           Call(first, steps)
    PROVE  TypeOK'
<1>1. 0 \in Version /\ "app" \in Goroutine
  BY StoreAssumption DEF Version, Goroutine
<1>2. pc' \in [Goroutine -> Label] /\ hand' \in [Goroutine -> Version]
  BY <1>1, StepTyped DEF Call
<1>3. calls' \in 0..MaxCalls
  BY StoreAssumption DEF Call, TypeOK
<1> QED BY <1>2, <1>3 DEF Call, TypeOK, Label, store

LEMMA AppTyped ==
    ASSUME TypeOK, App \/ LoadSnapshot \/ CheckSnapshot \/ WatchSnapshot
    PROVE  TypeOK'
<1>1. /\ 0 \in Version /\ "app" \in Goroutine
      /\ {"stat", "version", "watch", "rest"} \subseteq Label
  BY StoreAssumption DEF Version, Goroutine, Label
<1>2. CASE Advance("app")
  BY <1>1, <1>2, AdvanceTyped
<1>3. CASE Decide
  <2>1. PICK to \in Label : Step("app", "decide", to, 0)
    BY <1>1, <1>3 DEF Decide
  <2>2. pc' \in [Goroutine -> Label] /\ hand' \in [Goroutine -> Version]
    BY <1>1, <2>1, StepTyped
  <2> QED BY <1>3, <2>2 DEF Decide, TypeOK, Label, store, world
<1>4. CASE StartWatch
  BY <1>4 DEF StartWatch, TypeOK, Goroutine, world
<1>5. CASE LoadSnapshot
  <2>1. PICK options \in SUBSET {"fetch", "watch"} : Call("stat", {"load"} \cup options)
    BY <1>5 DEF LoadSnapshot
  <2>2. {"load"} \cup options \in SUBSET {"load", "fetch", "watch"}
    OBVIOUS
  <2> QED BY <1>1, <2>1, <2>2, CallTyped
<1>6. CASE CheckSnapshot
  BY <1>1, <1>6, CallTyped DEF CheckSnapshot
<1>7. CASE WatchSnapshot
  BY <1>1, <1>7, CallTyped DEF WatchSnapshot
<1> QED BY <1>2, <1>3, <1>4, <1>5, <1>6, <1>7 DEF App

LEMMA WorldTyped ==
    ASSUME TypeOK, Tick \/ Poll \/ Publish \/ Deploy \/ Crash \/ FlipApi \/ FlipDisk
    PROVE  TypeOK'
<1>0. /\ 0 \in Version /\ published \in Version
      /\ {"updater", "watcher", "deployer"} \subseteq Goroutine
      /\ {"version", "stat", "write", "rest"} \subseteq Label
  BY StoreAssumption DEF Version, Goroutine, Label, TypeOK
<1>1. CASE Tick
  <2>1. pc' \in [Goroutine -> Label] /\ hand' \in [Goroutine -> Version]
    BY <1>0, <1>1, StepTyped DEF Tick
  <2> QED BY <1>1, <2>1 DEF Tick, TypeOK, Label, store, world
<1>2. CASE Poll
  <2>1. pc' \in [Goroutine -> Label] /\ hand' \in [Goroutine -> Version]
    BY <1>0, <1>2, StepTyped DEF Poll
  <2> QED BY <1>2, <2>1 DEF Poll, TypeOK, Label, world
<1>3. CASE Publish
  BY <1>3, StoreAssumption DEF Publish, TypeOK, Version, store
<1>4. CASE Deploy
  <2>1. pc' \in [Goroutine -> Label] /\ hand' \in [Goroutine -> Version]
    BY <1>0, <1>4, StepTyped DEF Deploy
  <2>2. hand["deployer"] \in Version
    BY <1>0 DEF TypeOK
  <2>3. file' \in {NoFile, Empty, Garbled} \cup {Whole(v) : v \in Version}
    BY <1>4, <2>2 DEF Deploy, Written
  <2> QED BY <1>4, <2>1, <2>3 DEF Deploy, TypeOK, Label, Watching, world
<1>5. CASE Crash
  <2>1. pc' \in [Goroutine -> Label]
    BY <1>0, <1>5 DEF Crash, Started, Goroutine, Label, TypeOK
  <2>2. hand' \in [Goroutine -> Version] /\ faults' \in 0..MaxFaults
    BY <1>0, <1>5, StoreAssumption DEF Crash, TypeOK
  <2> QED BY <1>0, <1>5, <2>1, <2>2 DEF Crash, TypeOK, Label
<1>6. CASE FlipApi
  BY <1>6 DEF FlipApi, TypeOK, store
<1>7. CASE FlipDisk
  BY <1>7, StoreAssumption DEF FlipDisk, TypeOK, store
<1> QED BY <1>1, <1>2, <1>3, <1>4, <1>5, <1>6, <1>7

LEMMA TypeInductive == TypeOK /\ [Next]_vars => TypeOK'
<1>1. ASSUME TypeOK, UNCHANGED vars PROVE TypeOK'
  BY <1>1 DEF TypeOK, vars
<1>2. "updater" \in Goroutine /\ "watcher" \in Goroutine
  BY DEF Goroutine
<1> QED BY <1>1, <1>2, AdvanceTyped, AppTyped, WorldTyped DEF Next

\* A snapshot keeps its types: in memory and in every hand there is a version,
\* never what a torn, missing or unreadable file lacks.
THEOREM TypeCorrect == Spec => []TypeOK
<1>1. Init => TypeOK
  <2> SUFFICES ASSUME Init PROVE TypeOK
    OBVIOUS
  <2>1. 0 \in Version /\ 1 \in Version
    BY StoreAssumption DEF Version
  <2>2. pc \in [Goroutine -> Label]
    BY DEF Init, Started, Goroutine, Label
  <2>3. file \in {NoFile, Empty, Garbled} \cup {Whole(v) : v \in Version}
    BY <2>1 DEF Init
  <2>4. hand \in [Goroutine -> Version] /\ memory \in Version /\ published \in Version
    BY <2>1 DEF Init
  <2>5. 0 \in 0..MaxCalls /\ 0 \in 0..MaxFaults
    BY StoreAssumption
  <2>6. calls \in 0..MaxCalls /\ faults \in 0..MaxFaults
    BY <2>5 DEF Init
  <2> QED BY <2>2, <2>3, <2>4, <2>6 DEF Init, TypeOK, Label
<1> QED BY <1>1, TypeInductive, PTL DEF Spec

-----------------------------------------------------------------------------
(* What is served is in the file, where only the updater checks: the inductive *)
(* invariant behind Persisted.                                                 *)

\* The two that only read the file.
Reader == {"app", "watcher"}

\* Nothing above v has been loaded, nor is about to be.
NoneAbove(v) ==
    /\ memory <= v
    /\ \A g \in Reader : pc[g] = "set" => hand[g] <= v

\* Only the updater checks, so that it alone writes the file, and what was
\* published before is not written after what was published later.
SoleWriter ==
    /\ diskUp /\ published >= 1
    /\ file = Empty \/ \E v \in 1..published : file = Whole(v)
    /\ pc["app"] \in {"rest", "stat", "read", "set", "decide", "watch"}
    /\ pc["watcher"] \in {"off", "rest", "stat", "read", "set"}
    /\ pc["updater"] \in {"rest", "version", "ask", "resolve", "open", "write", "set"}

\* What is loaded is a snapshot: the application has no reason to check.
Loaded ==
    /\ \A g \in Reader : pc[g] = "set" => hand[g] >= 1
    /\ pc["app"] = "decide" => memory >= 1

\* What is served is in the file, or in the hand of the updater that writes it.
Behind ==
    /\ file.is = "whole" => NoneAbove(file.version)
    /\ file.is = "empty" => NoneAbove(IF pc["updater"] = "write" THEN hand["updater"] ELSE 0)
    /\ CASE pc["updater"] = "open"  -> /\ hand["updater"] \in 1..published
                                       /\ file.is = "whole" => file.version <= hand["updater"]
         [] pc["updater"] = "write" -> hand["updater"] \in 1..published /\ file = Empty
         [] pc["updater"] = "set"   -> file = Whole(hand["updater"])
         [] OTHER                   -> TRUE

SeededInv == setup = "seeded" => SoleWriter /\ Loaded /\ Behind

LEMMA StepMoves ==
    ASSUME TypeOK, NEW g \in Goroutine, NEW from, NEW to, NEW v, Step(g, from, to, v)
    PROVE  /\ pc[g] = from /\ pc'[g] = to
           /\ hand'[g] = IF to = "rest" THEN 0 ELSE v
           /\ \A h \in Goroutine \ {g} : pc'[h] = pc[h] /\ hand'[h] = hand[h]
BY DEF Step, TypeOK

LEMMA Numbers ==
    ASSUME TypeOK
    PROVE  /\ memory \in Nat /\ published \in Nat
           /\ \A g \in Goroutine : hand[g] \in Nat
BY StoreAssumption DEF TypeOK, Version

\* The file is there, and can be read.
LEMMA FileFound ==
    ASSUME SoleWriter, TypeOK
    PROVE  /\ Found
           /\ file.is = "empty" <=> file = Empty
           /\ file.is # "empty" => /\ file.is = "whole" /\ file = Whole(file.version)
                                   /\ file.version \in 1..published
BY Numbers DEF SoleWriter, Found, Empty, Whole

\* A step of a reader that sets nothing and reads nothing leaves all as it was.
LEMMA NothingLoaded ==
    ASSUME TypeOK, Loaded, Behind,
           UNCHANGED <<memory, file>>, published' \in Nat, published <= published',
           pc'["updater"] = pc["updater"], hand'["updater"] = hand["updater"],
           \A g \in Reader : pc'[g] = "set" => pc[g] = "set" /\ hand'[g] = hand[g],
           pc'["app"] = "decide" => pc["app"] = "decide"
    PROVE  Loaded' /\ Behind'
<1>1. Loaded'
  BY DEF Loaded
<1>2. \A v : NoneAbove(v) => NoneAbove(v)'
  BY DEF NoneAbove
<1>3. file'.is = "whole" => NoneAbove(file.version)'
  BY <1>2 DEF Behind
<1>4. file'.is = "empty"
         => NoneAbove(IF pc["updater"] = "write" THEN hand["updater"] ELSE 0)'
  BY <1>2 DEF Behind
<1> QED BY <1>1, <1>3, <1>4, Numbers DEF Behind, NoneAbove, Goroutine

LEMMA ReaderKeeps ==
    ASSUME TypeOK, setup = "seeded", SoleWriter, Loaded, Behind,
           NEW g \in Reader, Advance(g)
    PROVE  (SoleWriter /\ Loaded /\ Behind)'
<1>0. /\ g \in Goroutine /\ g # "updater" /\ Reader \subseteq Goroutine
      /\ "updater" \in Goroutine \ {g}
      /\ \A h \in Reader : h # g => h \in Goroutine \ {g}
      /\ pc[g] \in {"off", "rest", "stat", "read", "set", "decide", "watch"}
  BY DEF Reader, Goroutine, SoleWriter
<1>1. CASE Stat(g)
  <2>1. Step(g, "stat", "read", 0) /\ UNCHANGED <<store, todo, world>>
    BY <1>1, FileFound DEF Stat
  <2>2. /\ pc'[g] = "read"
        /\ \A h \in Goroutine \ {g} : pc'[h] = pc[h] /\ hand'[h] = hand[h]
    BY <1>0, <2>1, StepMoves
  <2>3. SoleWriter'
    BY <1>0, <2>1, <2>2 DEF SoleWriter, store, world, Reader
  <2>4. Loaded' /\ Behind'
    BY <1>0, <2>1, <2>2, NothingLoaded, Numbers DEF store, world, Reader
  <2> QED BY <2>3, <2>4
<1>2. CASE Read(g)
  <2>1. CASE Fail(g, "read")
    <3>1. /\ pc'[g] = "rest"
          /\ \A h \in Goroutine \ {g} : pc'[h] = pc[h] /\ hand'[h] = hand[h]
      BY <1>0, <2>1, StepMoves DEF Fail
    <3>2. SoleWriter'
      BY <1>0, <2>1, <3>1 DEF SoleWriter, Fail, store, world, Reader
    <3>3. Loaded' /\ Behind'
      BY <1>0, <2>1, <3>1, NothingLoaded, Numbers DEF Fail, store, world, Reader
    <3> QED BY <3>2, <3>3
  <2>2. CASE /\ file.is = "whole"
             /\ Step(g, "read", "set", file.version)
             /\ UNCHANGED <<store, todo, world>>
    <3>1. /\ pc'[g] = "set" /\ hand'[g] = file.version
          /\ \A h \in Goroutine \ {g} : pc'[h] = pc[h] /\ hand'[h] = hand[h]
      BY <1>0, <2>2, StepMoves
    <3>2. file.version \in Nat /\ file.version >= 1 /\ file.is # "empty"
      BY <2>2, FileFound, Numbers
    <3>3. SoleWriter'
      BY <1>0, <2>2, <3>1 DEF SoleWriter, store, world, Reader
    <3>4. Loaded'
      BY <1>0, <2>2, <3>1, <3>2 DEF Loaded, store, Reader
    <3>5. NoneAbove(file.version)'
      BY <1>0, <2>2, <3>1, <3>2 DEF Behind, NoneAbove, store, Reader
    <3>6. Behind'
      BY <1>0, <2>2, <3>1, <3>2, <3>5 DEF Behind, NoneAbove, store, world
    <3> QED BY <3>3, <3>4, <3>6
  <2> QED BY <1>2, <2>1, <2>2 DEF Read
<1>3. CASE SetSnapshot(g)
  <2>1. /\ pc[g] = "set" /\ pc'[g] \in {"rest", "decide", "watch"}
        /\ g = "watcher" => pc'[g] = "rest"
        /\ \A h \in Goroutine \ {g} : pc'[h] = pc[h] /\ hand'[h] = hand[h]
    BY <1>0, <1>3, StepMoves DEF SetSnapshot, Reader
  <2>2. memory' = hand[g] /\ UNCHANGED <<file, world>>
    BY <1>3 DEF SetSnapshot
  <2>3. SoleWriter'
    BY <1>0, <2>1, <2>2 DEF SoleWriter, world, Reader
  <2>4. Loaded'
    BY <1>0, <2>1, <2>2 DEF Loaded, Reader
  <2>5. ASSUME NEW v, NoneAbove(v) PROVE NoneAbove(v)'
    BY <1>0, <2>1, <2>2, <2>5 DEF NoneAbove, Reader
  <2>6. Behind'
    <3>1. file'.is = "whole" => NoneAbove(file.version)'
      BY <2>2, <2>5 DEF Behind
    <3>2. file'.is = "empty"
             => NoneAbove(IF pc["updater"] = "write" THEN hand["updater"] ELSE 0)'
      <4> DEFINE bound == IF pc["updater"] = "write" THEN hand["updater"] ELSE 0
      <4>1. bound' = bound
        BY <1>0, <2>1
      <4>2. \A v : NoneAbove(v) => memory' <= v /\ \A h \in Reader : pc'[h] = "set" => hand'[h] <= v
        BY <2>5 DEF NoneAbove
      <4>3. file.is = "empty" => NoneAbove(bound)
        BY DEF Behind
      <4> HIDE DEF bound
      <4>4. file'.is = "empty" => NoneAbove(bound)'
        BY <2>2, <4>1, <4>2, <4>3 DEF NoneAbove
      <4> QED BY <4>4 DEF bound
    <3> QED BY <1>0, <2>1, <2>2, <3>1, <3>2 DEF Behind, NoneAbove, world
  <2> QED BY <2>3, <2>4, <2>6
<1>4. CASE Open(g) \/ Write(g) \/ ReadVersion(g) \/ CheckVersion(g) \/ Resolve(g)
  BY <1>0, <1>4 DEF Open, Write, ReadVersion, CheckVersion, Resolve, Fail, Step
<1> QED BY <1>1, <1>2, <1>3, <1>4 DEF Advance

\* A step of the updater leaves the readers where they are.
LEMMA UpdaterMoves ==
    ASSUME TypeOK, NEW from, NEW to, NEW v, Step("updater", from, to, v)
    PROVE  /\ pc["updater"] = from /\ pc'["updater"] = to
           /\ hand'["updater"] = IF to = "rest" THEN 0 ELSE v
           /\ \A g \in Reader : pc'[g] = pc[g] /\ hand'[g] = hand[g]
           /\ pc'["app"] = pc["app"] /\ pc'["watcher"] = pc["watcher"]
BY StepMoves DEF Goroutine, Reader

\* Between its writes the updater changes nothing that is served.
LEMMA UpdaterThinks ==
    ASSUME TypeOK, SoleWriter, Loaded, Behind, UNCHANGED <<memory, file, world>>,
           NEW from \in {"rest", "version", "ask", "resolve"},
           NEW to \in {"rest", "version", "ask", "resolve", "open"}, NEW v,
           Step("updater", from, to, v), to = "open" => v = published
    PROVE  (SoleWriter /\ Loaded /\ Behind)'
<1>1. /\ pc["updater"] = from /\ pc'["updater"] = to
      /\ to = "open" => hand'["updater"] = published
      /\ \A g \in Reader : pc'[g] = pc[g] /\ hand'[g] = hand[g]
      /\ pc'["app"] = pc["app"] /\ pc'["watcher"] = pc["watcher"]
  BY UpdaterMoves
<1>2. SoleWriter' /\ Loaded'
  BY <1>1 DEF SoleWriter, Loaded, world
<1>3. /\ file.is = "whole" => NoneAbove(file.version)
      /\ file.is = "empty" => NoneAbove(0)
      /\ file.is = "whole" => file.version <= published
      /\ published \in 1..published
  BY <1>1, FileFound, Numbers DEF Behind, SoleWriter
<1>4. /\ file'.is = "whole" => NoneAbove(file.version)'
      /\ file'.is = "empty" => NoneAbove(0)'
  BY <1>1, <1>3 DEF NoneAbove
<1> QED BY <1>1, <1>2, <1>3, <1>4 DEF Behind, world

LEMMA UpdaterKeeps ==
    ASSUME TypeOK, setup = "seeded", SoleWriter, Loaded, Behind, Advance("updater")
    PROVE  (SoleWriter /\ Loaded /\ Behind)'
<1> DEFINE h == hand["updater"]
<1>0. h \in Nat /\ Reader \subseteq Goroutine
  BY Numbers DEF Goroutine, Reader
<1>1. CASE ReadVersion("updater")
  BY <1>1, UpdaterThinks DEF ReadVersion, store
<1>2. CASE CheckVersion("updater")
  <2>1. PICK to \in {"rest", "resolve"} :
           Step("updater", "ask", to, 0) /\ UNCHANGED <<store, world>>
    BY <1>2 DEF CheckVersion, Fail
  <2> QED BY <2>1, UpdaterThinks DEF store
<1>3. CASE Resolve("updater")
  <2>1. PICK to \in {"rest", "open"}, v \in {0, published} :
           /\ Step("updater", "resolve", to, v) /\ UNCHANGED <<store, world>>
           /\ to = "open" => v = published
    BY <1>3 DEF Resolve, Fail
  <2> QED BY <2>1, UpdaterThinks DEF store
<1>4. CASE Open("updater")
  <2>1. Step("updater", "open", "write", h) /\ file' = Empty /\ UNCHANGED <<memory, world>>
    BY <1>4 DEF Open, HasLocation, SoleWriter
  <2>2. /\ pc["updater"] = "open" /\ pc'["updater"] = "write" /\ hand'["updater"] = h
        /\ \A g \in Reader : pc'[g] = pc[g] /\ hand'[g] = hand[g]
        /\ pc'["app"] = pc["app"] /\ pc'["watcher"] = pc["watcher"]
    BY <2>1, UpdaterMoves
  <2>3. h \in 1..published /\ (file.is = "whole" => file.version <= h)
    BY <2>2 DEF Behind
  <2>4. NoneAbove(h)
    <3>1. CASE file.is = "whole"
      <4>1. NoneAbove(file.version) /\ file.version \in Nat /\ file.version <= h
        BY <2>3, <3>1, FileFound, Numbers DEF Behind
      <4> QED BY <1>0, <4>1, Numbers DEF NoneAbove
    <3>2. CASE file.is = "empty"
      <4>1. NoneAbove(0)
        BY <2>2, <3>2 DEF Behind
      <4> QED BY <1>0, <4>1, Numbers DEF NoneAbove
    <3> QED BY <3>1, <3>2, FileFound
  <2>5. SoleWriter' /\ Loaded'
    BY <2>1, <2>2 DEF SoleWriter, Loaded, world
  <2>6. NoneAbove(hand["updater"])'
    BY <2>1, <2>2, <2>4 DEF NoneAbove
  <2> QED BY <2>1, <2>2, <2>3, <2>5, <2>6 DEF Behind, Empty, world
<1>5. CASE Write("updater")
  <2>1. pc["updater"] = "write" /\ file = Empty /\ h \in 1..published /\ NoneAbove(h)
    <3>1. pc["updater"] = "write"
      BY <1>5 DEF Write, Step, Fail
    <3>2. file = Empty /\ h \in 1..published
      BY <3>1 DEF Behind
    <3> QED BY <3>1, <3>2 DEF Behind, Empty
  <2>2. /\ Step("updater", "write", "set", h)
        /\ file' = Whole(h) /\ UNCHANGED <<memory, world>>
    BY <1>5, <2>1 DEF Write, SoleWriter, Written, Empty
  <2>3. /\ pc'["updater"] = "set" /\ hand'["updater"] = h
        /\ \A g \in Reader : pc'[g] = pc[g] /\ hand'[g] = hand[g]
        /\ pc'["app"] = pc["app"] /\ pc'["watcher"] = pc["watcher"]
    BY <2>2, UpdaterMoves
  <2>4. SoleWriter' /\ Loaded'
    BY <2>1, <2>2, <2>3 DEF SoleWriter, Loaded, world
  <2>5. file'.is = "whole" /\ file'.version = h
    BY <2>2 DEF Whole
  <2>6. NoneAbove(file.version)'
    BY <2>1, <2>2, <2>3, <2>5 DEF NoneAbove
  <2> QED BY <2>2, <2>3, <2>4, <2>5, <2>6 DEF Behind
<1>6. CASE SetSnapshot("updater")
  <2>1. /\ Step("updater", "set", "rest", 0)
        /\ memory' = h /\ UNCHANGED <<file, world>>
    BY <1>6 DEF SetSnapshot
  <2>2. /\ pc["updater"] = "set" /\ pc'["updater"] = "rest"
        /\ \A g \in Reader : pc'[g] = pc[g] /\ hand'[g] = hand[g]
        /\ pc'["app"] = pc["app"] /\ pc'["watcher"] = pc["watcher"]
    BY <2>1, UpdaterMoves
  <2>3. file = Whole(h) /\ file.is = "whole" /\ file.version = h /\ h >= 1
    <3>1. file = Whole(h)
      BY <2>2 DEF Behind
    <3>2. file.is = "whole" /\ file.version = h
      BY <3>1 DEF Whole
    <3> QED BY <3>1, <3>2, FileFound
  <2>4. SoleWriter' /\ Loaded'
    BY <2>1, <2>2, <2>3 DEF SoleWriter, Loaded, world
  <2>5. NoneAbove(file.version)'
    BY <1>0, <2>1, <2>2, <2>3 DEF Behind, NoneAbove
  <2> QED BY <2>1, <2>2, <2>3, <2>4, <2>5 DEF Behind
<1>7. CASE Stat("updater") \/ Read("updater")
  BY <1>7 DEF Stat, Read, Fail, Step, SoleWriter
<1> QED BY <1>1, <1>2, <1>3, <1>4, <1>5, <1>6, <1>7 DEF Advance

LEMMA RestKeeps ==
    ASSUME TypeOK, setup = "seeded", SoleWriter, Loaded, Behind,
           \/ Decide \/ StartWatch \/ LoadSnapshot \/ CheckSnapshot \/ WatchSnapshot
           \/ Tick \/ Poll \/ Publish \/ Deploy \/ Crash \/ FlipApi \/ FlipDisk
    PROVE  (SoleWriter /\ Loaded /\ Behind)'
<1>0. /\ {"app", "watcher"} \subseteq Goroutine /\ Reader = {"app", "watcher"}
      /\ "updater" \in Goroutine \ {"app"} /\ "updater" \in Goroutine \ {"watcher"}
      /\ "watcher" \in Goroutine \ {"app"} /\ "app" \in Goroutine \ {"watcher"}
  BY DEF Goroutine, Reader
<1>1. ASSUME NEW g \in Reader, NEW from, NEW v,
             NEW to \in {"stat", "watch"}, g = "watcher" => to = "stat",
             Step(g, from, to, v), UNCHANGED <<memory, file, setup, published, diskUp>>
      PROVE  (SoleWriter /\ Loaded /\ Behind)'
  <2>1. /\ pc'[g] = to
        /\ \A h \in Goroutine \ {g} : pc'[h] = pc[h] /\ hand'[h] = hand[h]
    BY <1>0, <1>1, StepMoves
  <2>2. SoleWriter'
    BY <1>0, <1>1, <2>1 DEF SoleWriter
  <2>3. Loaded' /\ Behind'
    BY <1>0, <1>1, <2>1, NothingLoaded, Numbers
  <2> QED BY <2>2, <2>3
<1>2. CASE Decide
  <2>1. pc["app"] = "decide" /\ memory >= 1
    BY <1>2 DEF Decide, Step, Loaded
  <2>2. Step("app", "decide", "watch", 0)
    BY <1>2, <2>1, Numbers DEF Decide
  <2> QED BY <1>0, <1>1, <1>2, <2>2 DEF Decide, store, world
<1>3. CASE StartWatch
  <2>1. /\ UNCHANGED <<memory, file, hand, world>> /\ pc'["app"] = "rest"
        /\ pc'["updater"] = pc["updater"]
        /\ pc'["watcher"] \in {pc["watcher"], "rest"}
    BY <1>0, <1>3 DEF StartWatch, TypeOK, Goroutine
  <2>2. SoleWriter'
    BY <2>1 DEF SoleWriter, world
  <2>3. Loaded' /\ Behind'
    BY <1>0, <2>1, NothingLoaded, Numbers DEF world
  <2> QED BY <2>2, <2>3
<1>4. CASE LoadSnapshot \/ WatchSnapshot
  BY <1>0, <1>1, <1>4 DEF LoadSnapshot, WatchSnapshot, Call, store
<1>5. CASE Tick
  BY <1>5, UpdaterThinks DEF Tick, store
<1>6. CASE Poll
  BY <1>0, <1>1, <1>6 DEF Poll, world
<1>7. CASE Publish
  <2>1. /\ UNCHANGED <<memory, file, pc, hand, diskUp>> /\ published' = published + 1
    BY <1>7 DEF Publish, store
  <2>2. published <= published' /\ published' \in Nat /\ \A v \in 1..published : v \in 1..published'
    BY <2>1, Numbers
  <2>3. SoleWriter'
    BY <2>1, <2>2, Numbers DEF SoleWriter
  <2>4. Loaded' /\ Behind'
    BY <2>1, <2>2, NothingLoaded
  <2> QED BY <2>3, <2>4
<1>8. CASE Crash
  <2>1. /\ memory' = 0 /\ UNCHANGED <<file, setup, published, diskUp>>
        /\ pc'["app"] = "rest" /\ pc'["watcher"] = "off" /\ pc'["updater"] = "rest"
    BY <1>8 DEF Crash, Started
  <2>2. SoleWriter' /\ Loaded'
    BY <1>0, <2>1 DEF SoleWriter, Loaded
  <2>3. \A v \in Nat : NoneAbove(v)'
    BY <1>0, <2>1 DEF NoneAbove
  <2>4. file'.is = "whole" => NoneAbove(file.version)'
    BY <2>1, FileFound, Numbers DEF NoneAbove, Reader
  <2> QED BY <2>1, <2>2, <2>3, <2>4 DEF Behind
<1>9. CASE FlipApi
  <2>1. UNCHANGED <<memory, file, pc, hand, published, diskUp>>
    BY <1>9 DEF FlipApi, store
  <2> QED BY <2>1, NothingLoaded, Numbers DEF SoleWriter
<1>10. CASE CheckSnapshot \/ Deploy \/ FlipDisk
  BY <1>10 DEF CheckSnapshot, Deploy, FlipDisk
<1> QED BY <1>2, <1>3, <1>4, <1>5, <1>6, <1>7, <1>8, <1>9, <1>10

LEMMA SeededInductive == TypeOK /\ SeededInv /\ [Next]_vars => SeededInv'
<1> SUFFICES ASSUME TypeOK, SeededInv, [Next]_vars, setup' = "seeded"
             PROVE  (SoleWriter /\ Loaded /\ Behind)'
  BY DEF SeededInv
<1>1. setup = "seeded" /\ SoleWriter /\ Loaded /\ Behind
  <2>1. setup' = setup
    BY DEF Next, App, Advance, Stat, Read, Open, Write, SetSnapshot, ReadVersion, CheckVersion,
           Resolve, Fail, Decide, StartWatch, LoadSnapshot, CheckSnapshot, WatchSnapshot, Call,
           Tick, Poll, Publish, Deploy, Crash, FlipApi, FlipDisk, world, vars
  <2> QED BY <2>1 DEF SeededInv
<1>2. CASE UNCHANGED vars
  BY <1>1, <1>2, NothingLoaded, Numbers DEF vars, SoleWriter
<1>3. "app" \in Reader /\ "watcher" \in Reader
  BY DEF Reader
<1> QED BY <1>1, <1>2, <1>3, ReaderKeeps, UpdaterKeeps, RestKeeps DEF Next, App

\* saveSnapshotToFile comes before setSnapshot: where only the updater checks, a
\* whole file is never older than what is served, however loads, a watcher and
\* crashes come in between, so that a restart does not go back.
THEOREM SavedBeforeServed == Spec => []Persisted
<1>1. Init => SeededInv
  <2> SUFFICES ASSUME Init, setup = "seeded" PROVE SoleWriter /\ Loaded /\ Behind
    BY DEF SeededInv
  <2>1. /\ pc["app"] = "rest" /\ pc["watcher"] = "off" /\ pc["updater"] = "rest"
        /\ memory = 0 /\ file = Whole(1) /\ published = 1 /\ diskUp
    BY DEF Init, Started
  <2>2. \A v \in Nat : NoneAbove(v)
    BY <2>1 DEF NoneAbove, Reader
  <2>3. file.is = "whole" /\ file.version = 1
    BY <2>1 DEF Whole
  <2> QED BY <2>1, <2>2, <2>3 DEF SoleWriter, Loaded, Behind, Reader
<1>2. SeededInv => Persisted
  BY DEF SeededInv, Behind, NoneAbove, Persisted
<1> QED BY <1>1, <1>2, SeededInductive, TypeCorrect, PTL DEF Spec
=============================================================================
