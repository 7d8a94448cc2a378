----------------------------- MODULE MCThrottle -----------------------------
(* Small instances of Throttle for TLC. *)
EXTENDS Throttle

\* One strategy whose input is given later.
OneInput == {<<"value", "a">>}

\* A second strategy is given later.
TwoStrategies == {<<"value", "a">>, <<"numeric", "5">>}

\* One worker, frozen or not, and logged when throttled or always.
OneWorker == [Freeze : BOOLEAN, Logger : BOOLEAN, SilentMode : {FALSE},
              ThrottleMaxWorkers : {1}]

\* One worker and no limit, with and without silent mode.
AnyWorkers == [Freeze : {FALSE}, Logger : {FALSE}, SilentMode : BOOLEAN,
               ThrottleMaxWorkers : {0, 1}]

\* Mocks with silent mode on top are left to the proofs.
NoSilentMode == {o \in AnyWorkers : ~o.SilentMode}

Frozen == [Freeze : {TRUE}, Logger : {FALSE}, SilentMode : {FALSE},
           ThrottleMaxWorkers : {0}]

Default == [Freeze : {FALSE}, Logger : {FALSE}, SilentMode : {FALSE},
            ThrottleMaxWorkers : {0}]

ThrottleSymmetry == Permutations(Caller) \cup Permutations(Slot)
=============================================================================
