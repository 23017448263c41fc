--------------------------- MODULE AwsSdkLifecycle ---------------------------
(***************************************************************************)
(* The constructor and the destructor of Connection, which share the AWS   *)
(* SDK: the first connection of the process initialises it (a check of     *)
(* awsSDKReady_, a lock, a second check), and the destructor that brings   *)
(* refCount_ to zero shuts it down, without taking the lock.               *)
(*                                                                         *)
(* Every connection is allocated and freed by a thread of its own.  With   *)
(* Phased, allocations may overlap with each other and so may frees, but   *)
(* an allocation never overlaps with a free; without it anything may.      *)
(***************************************************************************)
EXTENDS Integers, FiniteSets

CONSTANTS Conns,    \* the Connection objects
          Nobody,   \* not a Connection: the mutex is free
          Phased    \* whether allocations and frees are kept apart

ASSUME LifecycleAssumption ==
  /\ IsFiniteSet(Conns)
  /\ Nobody \notin Conns
  /\ Phased \in BOOLEAN

VARIABLES pc,            \* where the constructor or destructor of each one is
          mutex_,        \* the holder of Connection::mutex_, or Nobody
          awsSDKReady_,
          refCount_,
          sdk            \* calls of Aws::InitAPI less calls of Aws::ShutdownAPI

vars == <<pc, mutex_, awsSDKReady_, refCount_, sdk>>

Constructing == {"check", "lock", "recheck", "init", "publish", "count"}
Destroying == {"uncount", "shutdown", "clear"}

TypeOK ==
  /\ pc \in [Conns -> {"none", "live"} \cup Constructing \cup Destroying]
  /\ mutex_ \in Conns \cup {Nobody}
  /\ awsSDKReady_ \in BOOLEAN
  /\ refCount_ \in Nat
  /\ sdk \in Int

Init ==
  /\ pc = [c \in Conns |-> "none"]
  /\ mutex_ = Nobody
  /\ awsSDKReady_ = FALSE
  /\ refCount_ = 0
  /\ sdk = 0

Goto(c, label) == pc' = [pc EXCEPT ![c] = label]

-----------------------------------------------------------------------------
(* The constructor.                                                        *)

Construct(c) ==
  /\ pc[c] = "none"
  /\ Phased => \A d \in Conns : pc[d] \notin Destroying
  /\ Goto(c, "check")
  /\ UNCHANGED <<mutex_, awsSDKReady_, refCount_, sdk>>

\* if (!awsSDKReady_), outside the lock
Check(c) ==
  /\ pc[c] = "check"
  /\ Goto(c, IF awsSDKReady_ THEN "count" ELSE "lock")
  /\ UNCHANGED <<mutex_, awsSDKReady_, refCount_, sdk>>

\* std::lock_guard< std::mutex > lock(mutex_)
Lock(c) ==
  /\ pc[c] = "lock"
  /\ mutex_ = Nobody
  /\ mutex_' = c
  /\ Goto(c, "recheck")
  /\ UNCHANGED <<awsSDKReady_, refCount_, sdk>>

\* Mutant: awsSDKReady_ is not read again under the lock.
NoRecheck(c) ==
  /\ pc[c] = "recheck"
  /\ Goto(c, "init")
  /\ UNCHANGED <<mutex_, awsSDKReady_, refCount_, sdk>>

\* if (!awsSDKReady_), under the lock
Recheck(c) ==
  /\ pc[c] = "recheck"
  /\ IF awsSDKReady_
     THEN Goto(c, "count") /\ mutex_' = Nobody
     ELSE Goto(c, "init") /\ UNCHANGED mutex_
  /\ UNCHANGED <<awsSDKReady_, refCount_, sdk>>

\* Mutant: awsSDKReady_ is set before the SDK is initialised.
InitAPIAfterFlag(c) ==
  \/ /\ pc[c] = "init" /\ ~awsSDKReady_
     /\ awsSDKReady_' = TRUE
     /\ UNCHANGED <<pc, mutex_, refCount_, sdk>>
  \/ /\ pc[c] = "init" /\ awsSDKReady_
     /\ sdk' = sdk + 1
     /\ Goto(c, "publish")
     /\ UNCHANGED <<mutex_, awsSDKReady_, refCount_>>

InitAPI(c) ==
  /\ pc[c] = "init"
  /\ sdk' = sdk + 1
  /\ Goto(c, "publish")
  /\ UNCHANGED <<mutex_, awsSDKReady_, refCount_>>

\* awsSDKReady_ = true, and the lock is released
Publish(c) ==
  /\ pc[c] = "publish"
  /\ awsSDKReady_' = TRUE
  /\ mutex_' = Nobody
  /\ Goto(c, "count")
  /\ UNCHANGED <<refCount_, sdk>>

\* ++refCount_
Count(c) ==
  /\ pc[c] = "count"
  /\ refCount_' = refCount_ + 1
  /\ Goto(c, "live")
  /\ UNCHANGED <<mutex_, awsSDKReady_, sdk>>

-----------------------------------------------------------------------------
(* The destructor.                                                         *)

\* Close() lets go of the query client.
Destruct(c) ==
  /\ pc[c] = "live"
  /\ Phased => \A d \in Conns : pc[d] \notin Constructing
  /\ Goto(c, "uncount")
  /\ UNCHANGED <<mutex_, awsSDKReady_, refCount_, sdk>>

\* Mutant: the counter is compared before it is decremented.
UncountLate(c) ==
  /\ pc[c] = "uncount"
  /\ refCount_' = refCount_ - 1
  /\ Goto(c, IF refCount_ = 0 THEN "shutdown" ELSE "none")
  /\ UNCHANGED <<mutex_, awsSDKReady_, sdk>>

\* 0 == --refCount_
Uncount(c) ==
  /\ pc[c] = "uncount"
  /\ refCount_' = refCount_ - 1
  /\ Goto(c, IF refCount_' = 0 THEN "shutdown" ELSE "none")
  /\ UNCHANGED <<mutex_, awsSDKReady_, sdk>>

ShutdownAPI(c) ==
  /\ pc[c] = "shutdown"
  /\ sdk' = sdk - 1
  /\ Goto(c, "clear")
  /\ UNCHANGED <<mutex_, awsSDKReady_, refCount_>>

\* awsSDKReady_ = false
Clear(c) ==
  /\ pc[c] = "clear"
  /\ awsSDKReady_' = FALSE
  /\ Goto(c, "none")
  /\ UNCHANGED <<mutex_, refCount_, sdk>>

-----------------------------------------------------------------------------
Step(c) ==
  \/ Construct(c) \/ Check(c) \/ Lock(c) \/ Recheck(c) \/ InitAPI(c)
  \/ Publish(c) \/ Count(c)
  \/ Destruct(c) \/ Uncount(c) \/ ShutdownAPI(c) \/ Clear(c)

Next == \E c \in Conns : Step(c)

Spec == Init /\ [][Next]_vars

-----------------------------------------------------------------------------
\* "InitAPI is executed before all Connection objects start to run", and no
\* shutdown takes the SDK away from a connection that lives.
SdkUpWhileLive ==
  \A c \in Conns : pc[c] = "live" => sdk > 0

\* The SDK is initialised once, and "shutdown only once by the last Connection
\* destructor": InitAPI only when it is down, ShutdownAPI only when it is up.
SdkOnce == sdk \in {0, 1}

\* When the last connection is gone, so is the SDK.
SdkDownWhenUnused == (\A c \in Conns : pc[c] = "none") => sdk = 0

\* Why they hold when allocations and frees are kept apart (the inductive
\* invariant): the mutex is held exactly in the locked part; awsSDKReady_ and
\* the SDK agree except while one thread stands between the two; refCount_
\* counts the connections past the increment; a free is only under way when
\* no allocation is.
Locked == {"recheck", "init", "publish"}
Counted == {"live", "uncount"}
LifecycleInv ==
  /\ \A c \in Conns : pc[c] \in Locked <=> mutex_ = c
  /\ refCount_ = Cardinality({c \in Conns : pc[c] \in Counted})
  /\ sdk = IF \/ \E c \in Conns : pc[c] = "publish"
              \/ awsSDKReady_ /\ \A c \in Conns : pc[c] # "clear"
           THEN 1 ELSE 0
  /\ \A c \in Conns : pc[c] \in {"init", "publish"} => ~awsSDKReady_
  /\ \A c \in Conns : pc[c] \in {"count", "live", "uncount", "shutdown", "clear"}
                        => awsSDKReady_
  /\ \A c, d \in Conns : pc[c] \in Destroying => pc[d] \notin Constructing
  /\ \A c, d \in Conns : pc[c] \in {"shutdown", "clear"} =>
                           pc[d] \notin Counted /\ (pc[d] \in {"shutdown", "clear"} => c = d)
  /\ awsSDKReady_ => \E c \in Conns : pc[c] \in {"count", "live", "uncount", "shutdown", "clear"}
=============================================================================
