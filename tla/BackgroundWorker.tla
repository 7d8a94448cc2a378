-------------------------- MODULE BackgroundWorker --------------------------
(***************************************************************************)
(* The background goroutines of clients: one auto-updater and one watcher  *)
(* per client, each with a stop and a done channel.                        *)
(*                                                                         *)
(* Start is Stop followed by Launch, and Stop is Signal followed by Await: *)
(* each takes the worker's lock for itself.  What the goroutines do        *)
(* between their ticks is in SnapshotStore.                                *)
(***************************************************************************)
CONSTANTS
    Client,   \* the clients ever created
    Worker,   \* bound: the goroutines that exist at a time
    NoClient, \* no client
    NoWorker  \* no goroutine

ASSUME WorkerAssumption == NoClient \notin Client /\ NoWorker \notin Worker

VARIABLES
    handle,   \* the goroutine whose channels a client's worker holds
    worker    \* the goroutines

Kind == {"updater", "watcher"}

Unused == [pc |-> "unused", client |-> NoClient, kind |-> "updater", stopped |-> FALSE]

WorkerTypeOK ==
    /\ handle \in [Client \X Kind -> Worker \cup {NoWorker}]
    /\ worker \in [Worker -> [pc      : {"unused", "waiting", "working", "done"},
                              client  : Client \cup {NoClient},
                              kind    : Kind,
                              stopped : BOOLEAN]]

WorkerInit ==
    /\ handle = [h \in Client \X Kind |-> NoWorker]
    /\ worker = [w \in Worker |-> Unused]

\* The goroutine that starts next: which one is of no matter.
Spare == CHOOSE w \in Worker : worker[w] = Unused

Fresh(c, k) == [pc |-> "waiting", client |-> c, kind |-> k, stopped |-> FALSE]

\* The goroutine of w runs, and nobody has told it to stop.
Running(w) == worker[w].pc \in {"waiting", "working"} /\ ~worker[w].stopped

-----------------------------------------------------------------------------
(* Stop and Start, for the caller. *)

\* Faulty: the stop channel is not closed.
Forget(c, k, w) ==
    /\ w = handle[c, k]
    /\ handle' = [handle EXCEPT ![<<c, k>>] = NoWorker]
    /\ UNCHANGED worker

\* Stop takes the channels, whose worker is w if there is one, and closes stop.
Signal(c, k, w) ==
    /\ w = handle[c, k]
    /\ handle' = [handle EXCEPT ![<<c, k>>] = NoWorker]
    /\ worker' = IF w = NoWorker THEN worker
                                 ELSE [worker EXCEPT ![w].stopped = TRUE]

\* Stop returns when done is closed.
Await(w) ==
    /\ worker[w].pc = "done"
    /\ worker' = [worker EXCEPT ![w] = Unused]
    /\ UNCHANGED handle

\* Start installs new channels, whatever is there, and starts the goroutine.
Launch(c, k) ==
    /\ \E w \in Worker : worker[w] = Unused
    /\ handle' = [handle EXCEPT ![<<c, k>>] = Spare]
    /\ worker' = [worker EXCEPT ![Spare] = Fresh(c, k)]

-----------------------------------------------------------------------------
(* The goroutine. *)

\* A tick.  When the goroutine is told to stop as well, it takes either.
Tick(w) ==
    /\ worker[w].pc = "waiting"
    /\ worker' = [worker EXCEPT ![w].pc = "working"]
    /\ UNCHANGED handle

Finish(w) ==
    /\ worker[w].pc = "working"
    /\ worker' = [worker EXCEPT ![w].pc = "waiting"]
    /\ UNCHANGED handle

Exit(w) ==
    /\ worker[w].pc = "waiting" /\ worker[w].stopped
    /\ worker' = [worker EXCEPT ![w].pc = "done"]
    /\ UNCHANGED handle
=============================================================================
