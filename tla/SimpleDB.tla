------------------------------- MODULE SimpleDB -------------------------------
(***************************************************************************)
(* The life of a database, simpledb/simpledb.go: Start with its recovery,  *)
(* the two background loops (checkpoint and page cleaner), the numbering   *)
(* and start of transactions, and Close.  Any number of goroutines call    *)
(* these methods at the same time; a critical section of SimpleDB.mu is    *)
(* one step, and so is a run of statements that no other goroutine sees.   *)
(***************************************************************************)
EXTENDS Integers, Sequences, FiniteSets

CONSTANTS
    Clients,    \* goroutines that call the methods
    Loops,      \* the background loops
    None,
    MaxTx       \* bound: new transactions

ASSUME LoopsAssumption == IsFiniteSet(Loops)
ASSUME NoneAssumption == None \notin Loops \cup {"nil", "closed", "error"}

VARIABLES
    state,      \* SimpleDB.state
    recovered,  \* nothing is left to recover: the files are new, or Recover went through
    launched,   \* wg, cancel and the tickers are set
    stopped,    \* the tickers are stopped
    cancelled,  \* tickCtx is done
    wg,         \* counter of the WaitGroup
    tick,       \* the loops whose ticker channel holds a tick
    loop,       \* where each loop is
    bgErr,      \* the loop whose error is kept
    failed,     \* the loops that ended with an error
    once,       \* state of errOnce and closeOnce
    pc,         \* where each client is
    result,     \* what its last call returned, if that was a Close that was allowed
    counter,    \* atomicNextTxNum
    num,        \* the number a client's new transaction has got
    starts      \* transaction numbers of the START records

startVars == <<recovered, launched>>
loopVars == <<stopped, cancelled, wg, tick, loop, bgErr, failed>>
txVars == <<counter, num, starts>>
vars == <<state, startVars, loopVars, once, pc, result, txVars>>

Init ==
    /\ state = "created" /\ recovered \in BOOLEAN /\ launched = FALSE
    /\ stopped = FALSE /\ cancelled = FALSE /\ wg = 0 /\ tick = {}
    /\ loop = [l \in Loops |-> "none"] /\ bgErr = None /\ failed = {}
    /\ once = [err |-> "new", close |-> "new"]
    /\ pc = [c \in Clients |-> "idle"]
    /\ result = [c \in Clients |-> None]
    /\ counter = 0 /\ num = [c \in Clients |-> 0] /\ starts = <<>>

Goto(c, p) == pc' = [pc EXCEPT ![c] = p]
Return(c, r) == Goto(c, "idle") /\ result' = [result EXCEPT ![c] = r]

-----------------------------------------------------------------------------
(* Start. *)

\* Mutant of Claim: the state is set after the recovery only.
ClaimLater == UNCHANGED state
Claim == state' = "starting"

Start(c) ==
    /\ pc[c] = "idle"
    /\ IF state = "created"
       THEN Claim /\ Goto(c, "recover") /\ UNCHANGED result
       ELSE Return(c, None) /\ UNCHANGED state
    /\ UNCHANGED <<startVars, loopVars, once, txVars>>

(* The recovery runner is made, and recovers unless the files are new. *)
Recover(c) ==
    /\ pc[c] = "recover"
    /\ \/ recovered' = TRUE /\ Goto(c, "launch")
       \/ UNCHANGED recovered /\ Goto(c, "unstart")
    /\ UNCHANGED <<state, launched, loopVars, once, result, txVars>>

\* Mutant of Adding: one wg.Add for the first loop only.
AddingOne == 1
Adding == Cardinality(Loops)

(* The tickers and the WaitGroup are published with the state. *)
Launch(c) ==
    /\ pc[c] = "launch"
    /\ state' = "started" /\ launched' = TRUE /\ wg' = wg + Adding
    /\ Goto(c, "spawn")
    /\ UNCHANGED <<recovered, stopped, cancelled, tick, loop, bgErr, failed, once, result, txVars>>

Spawn(c) ==
    /\ pc[c] = "spawn"
    /\ loop' = [l \in Loops |-> "select"]
    /\ Return(c, None)
    /\ UNCHANGED <<state, startVars, stopped, cancelled, wg, tick, bgErr, failed, once,
                   txVars>>

StartFails(c) ==
    /\ pc[c] = "unstart"
    /\ state' = "created"
    /\ Return(c, None)
    /\ UNCHANGED <<startVars, loopVars, once, txVars>>

-----------------------------------------------------------------------------
(* NewTransaction. *)

MayStart == state = "started"

NewTransaction(c) ==
    /\ pc[c] = "idle"
    /\ IF MayStart
       THEN /\ counter + Cardinality({d \in Clients : pc[d] = "add"}) < MaxTx
            /\ Goto(c, "add") /\ UNCHANGED result
       ELSE Return(c, None)
    /\ UNCHANGED <<state, startVars, loopVars, once, txVars>>

(* nextTxNumber adds one, and reads the counter in a second step. *)
AddNumber(c) ==
    /\ pc[c] = "add"
    /\ counter' = counter + 1
    /\ Goto(c, "read")
    /\ UNCHANGED <<state, startVars, loopVars, once, result, num, starts>>

ReadNumber(c) ==
    /\ pc[c] = "read"
    /\ num' = [num EXCEPT ![c] = counter]
    /\ Goto(c, "begin")
    /\ UNCHANGED <<state, startVars, loopVars, once, result, counter, starts>>

(* NewRecoveryMgr writes the START record. *)
Begin(c) ==
    /\ pc[c] = "begin"
    /\ \/ starts' = Append(starts, num[c])
       \/ UNCHANGED starts
    /\ num' = [num EXCEPT ![c] = 0]
    /\ Return(c, None)
    /\ UNCHANGED <<state, startVars, loopVars, once, counter>>

-----------------------------------------------------------------------------
(* Close. *)

Close(c) ==
    /\ pc[c] = "idle"
    /\ \/ state \in {"created", "starting"} /\ Return(c, None)
       \/ state = "closed" /\ Return(c, "nil")
       \/ state = "started" /\ Goto(c, "once") /\ UNCHANGED result
    /\ UNCHANGED <<state, startVars, loopVars, once, txVars>>

(* closeOnce: the second caller waits until the first is through. *)
CloseOnce(c) ==
    /\ pc[c] = "once"
    /\ \/ /\ once.close = "new"
          /\ once' = [once EXCEPT !.close = "running"] /\ Goto(c, "stop") /\ UNCHANGED result
       \/ /\ once.close = "done"
          /\ Return(c, "nil") /\ UNCHANGED once
    /\ UNCHANGED <<state, startVars, loopVars, txVars>>

\* Mutant of StopLoops: the handles are read before Launch published them.
StopNothing(c) ==
    /\ pc[c] = "stop"
    /\ Goto(c, "wait")
    /\ UNCHANGED <<state, startVars, loopVars, once, result, txVars>>

(* The tickers are stopped and the context of the loops is cancelled. *)
StopLoops(c) ==
    /\ pc[c] = "stop"
    /\ stopped' = TRUE /\ cancelled' = TRUE
    /\ Goto(c, "wait")
    /\ UNCHANGED <<state, startVars, wg, tick, loop, bgErr, failed, once, result,
                   txVars>>

\* Mutant of AllDone: nobody waits for the loops.
AllDoneAtOnce == TRUE
AllDone == wg = 0

(* wg.Wait, and the end of doClose with its closeOnce. *)
WaitLoops(c) ==
    /\ pc[c] = "wait" /\ AllDone
    /\ state' = "closed" /\ once' = [once EXCEPT !.close = "done"]
    /\ Return(c, IF bgErr = None THEN "closed" ELSE "error")
    /\ UNCHANGED <<startVars, loopVars, txVars>>

-----------------------------------------------------------------------------
(* The background loops. *)

LoopGoto(l, p) == loop' = [loop EXCEPT ![l] = p]

(* A stopped ticker sends nothing more; its channel holds one tick. *)
Tick(l) ==
    /\ launched /\ ~stopped /\ l \notin tick
    /\ tick' = tick \cup {l}
    /\ UNCHANGED <<state, startVars, stopped, cancelled, wg, loop, bgErr, failed, once, pc,
                   result, txVars>>

(* The select takes a tick even when the context is done as well. *)
Round(l) ==
    /\ loop[l] = "select" /\ l \in tick
    /\ tick' = tick \ {l} /\ LoopGoto(l, "work")
    /\ UNCHANGED <<state, startVars, stopped, cancelled, wg, bgErr, failed, once, pc, result, txVars>>

Leave(l) ==
    /\ loop[l] = "select" /\ cancelled
    /\ LoopGoto(l, "leave")
    /\ UNCHANGED <<state, startVars, stopped, cancelled, wg, tick, bgErr, failed, once, pc,
                   result, txVars>>

(* Checkpoint or FlushDirtyPages. *)
Work(l) ==
    /\ loop[l] = "work"
    /\ \/ LoopGoto(l, "select") /\ UNCHANGED failed
       \/ LoopGoto(l, "fail") /\ failed' = failed \cup {l}
    /\ UNCHANGED <<state, startVars, stopped, cancelled, wg, tick, bgErr, once, pc, result, txVars>>

\* Mutant of KeepError: the loop ends without keeping its error.
KeepNoError(l) == UNCHANGED bgErr
KeepError(l) == bgErr' = l

(* failBackground keeps the first error; the other loop waits for errOnce. *)
FailFirst(l) ==
    /\ loop[l] = "fail" /\ once.err = "new"
    /\ once' = [once EXCEPT !.err = "running"]
    /\ KeepError(l)
    /\ LoopGoto(l, "cancel")
    /\ UNCHANGED <<state, startVars, stopped, cancelled, wg, tick, failed, pc, result,
                   txVars>>

FailNext(l) ==
    /\ loop[l] = "fail" /\ once.err = "done"
    /\ LoopGoto(l, "leave")
    /\ UNCHANGED <<state, startVars, stopped, cancelled, wg, tick, bgErr, failed, once, pc,
                   result, txVars>>

\* Mutant of CancelAll: a failed loop ends alone.
CancelNone == UNCHANGED cancelled
CancelAll == cancelled' = TRUE

FailCancel(l) ==
    /\ loop[l] = "cancel"
    /\ CancelAll /\ once' = [once EXCEPT !.err = "done"]
    /\ LoopGoto(l, "leave")
    /\ UNCHANGED <<state, startVars, stopped, wg, tick, bgErr, failed, pc, result,
                   txVars>>

(* The deferred wg.Done. *)
Done(l) ==
    /\ loop[l] = "leave"
    /\ wg' = wg - 1 /\ LoopGoto(l, "done")
    /\ UNCHANGED <<state, startVars, stopped, cancelled, tick, bgErr, failed, once, pc, result, txVars>>

-----------------------------------------------------------------------------
StartStep(c) == Recover(c) \/ Launch(c) \/ Spawn(c) \/ StartFails(c)
TxStep(c) == AddNumber(c) \/ ReadNumber(c) \/ Begin(c)
CloseStep(c) == CloseOnce(c) \/ StopLoops(c) \/ WaitLoops(c)
LoopStep(l) ==
    Round(l) \/ Leave(l) \/ Work(l) \/ FailFirst(l) \/ FailNext(l) \/ FailCancel(l) \/ Done(l)

ClientStep(c) == StartStep(c) \/ TxStep(c) \/ CloseStep(c)

Next ==
    \/ \E c \in Clients : Start(c) \/ NewTransaction(c) \/ Close(c) \/ ClientStep(c)
    \/ \E l \in Loops : Tick(l) \/ LoopStep(l)

Spec == Init /\ [][Next]_vars

(* Goroutines run, checkpoints and flushes come to an end, and a select     *)
(* that finds its context done again and again takes that case once: it     *)
(* chooses at random.                                                       *)
FairSpec ==
    /\ Spec
    /\ \A c \in Clients : WF_vars(ClientStep(c))
    /\ \A l \in Loops : WF_vars(LoopStep(l)) /\ SF_vars(Leave(l))

-----------------------------------------------------------------------------
(* Properties. *)

StartPCs == {"recover", "launch", "spawn", "unstart"}
TxPCs == {"add", "read", "begin"}

(* The type invariant; the WaitGroup's counter does not become negative.    *)
TypeOK ==
    /\ state \in {"created", "starting", "started", "closed"}
    /\ recovered \in BOOLEAN /\ launched \in BOOLEAN
    /\ stopped \in BOOLEAN /\ cancelled \in BOOLEAN
    /\ wg \in 0 .. Cardinality(Loops) /\ tick \subseteq Loops
    /\ loop \in [Loops -> {"none", "select", "work", "fail", "cancel", "leave", "done"}]
    /\ bgErr \in Loops \cup {None} /\ failed \subseteq Loops
    /\ once \in [err : {"new", "running", "done"}, close : {"new", "running", "done"}]
    /\ pc \in [Clients -> StartPCs \cup TxPCs \cup {"idle", "once", "stop", "wait"}]
    /\ result \in [Clients -> {None, "nil", "closed", "error"}]
    /\ counter \in Nat /\ num \in [Clients -> Nat] /\ starts \in Seq(Nat)

(* Of several Starts one goes on, and none after it has succeeded           *)
(* (simpledb_test.go:342): recovery runs alone, with no loop and no         *)
(* transaction beside it, and no transaction begins before one recovery is  *)
(* through, whatever Starts failed before (simpledb_test.go:293, 515).      *)
RecoveryAlone ==
    /\ \A c \in Clients : pc[c] = "recover" =>
          /\ ~launched /\ starts = <<>>
          /\ \A d \in Clients \ {c} : pc[d] \notin StartPCs \cup TxPCs
    /\ (starts # <<>> \/ \E c \in Clients : pc[c] \in TxPCs) => recovered

(* After any Close has returned without a refusal no loop runs any more:    *)
(* neither a checkpoint nor the page cleaner writes to the files            *)
(* (simpledb_test.go:562).                                                  *)
QuietWhenClosed ==
    (state = "closed" \/ \E c \in Clients : result[c] # None) =>
        \A l \in Loops : loop[l] = "done"

(* The Close that closes reports an error if a loop has failed, up to the   *)
(* moment it returns (simpledb_test.go:861, 942).                           *)
CloseReports ==
    /\ \A c \in Clients : result[c] = "closed" => failed = {}
    /\ bgErr # None => bgErr \in failed

(* Every call returns: Close waits for loops that end, and for the Close    *)
(* before it.                                                               *)
CallsReturn == \A c \in Clients : pc[c] # "idle" ~> pc[c] = "idle"

(* When one loop fails the other one ends too, without a Close.             *)
FailureStopsAll == failed # {} ~> \A l \in Loops : loop[l] = "done"

(* A transaction number is in one START record only                         *)
(* (recovery_test.go:363); transaction.go:177 does not keep this.           *)
StartedOnce == \A i, j \in DOMAIN starts : starts[i] = starts[j] => i = j
=============================================================================
