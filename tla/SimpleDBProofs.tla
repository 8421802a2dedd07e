--------------------------- MODULE SimpleDBProofs ---------------------------
(***************************************************************************)
(* Recovery runs alone and before every transaction, no loop runs behind a *)
(* Close, and the closing Close reports a failed loop: for any number of   *)
(* goroutines, loops and transactions.                                     *)
(***************************************************************************)
EXTENDS SimpleDB, FiniteSetTheorems, TLAPS

ClosePCs == {"once", "stop", "wait"}

\* The loops the WaitGroup still waits for.
Active == {l \in Loops : loop[l] # "done"}

\* One Start at a time, and the state says how far it is.
StartOrder ==
    /\ \A c, d \in Clients : pc[c] \in StartPCs /\ pc[d] \in StartPCs => c = d
    /\ \A c \in Clients :
          /\ pc[c] \in {"recover", "launch", "unstart"} => state = "starting"
          /\ pc[c] = "launch" => recovered
          /\ pc[c] = "spawn" => launched
    /\ launched <=> state \in {"started", "closed"}
    /\ launched => recovered

\* Before the launch there are no transactions, no loops and no Close.
BeforeLaunch ==
    ~launched =>
        /\ starts = <<>> /\ wg = 0
        /\ \A l \in Loops : loop[l] = "none"
        /\ \A c \in Clients : pc[c] \notin TxPCs \cup ClosePCs

\* The WaitGroup counts the loops that are not done, from the launch on.
LoopsCounted ==
    /\ launched => wg = Cardinality(Active)
    /\ (\E c \in Clients : pc[c] = "spawn") => \A l \in Loops : loop[l] = "none"

\* A loop that failed has an error kept, by itself or by another loop.
ErrorKept ==
    /\ \A l \in Loops : loop[l] \in {"fail", "cancel"} => l \in failed
    /\ \A l \in failed : loop[l] = "fail" \/ bgErr # None
    /\ once.err # "new" => bgErr # None
    /\ once.close = "done" => state = "closed"

Inv ==
    /\ TypeOK /\ StartOrder /\ BeforeLaunch /\ LoopsCounted /\ ErrorKept
    /\ QuietWhenClosed /\ CloseReports

USE DEF StartPCs, TxPCs, ClosePCs, Goto, Return, LoopGoto, startVars, loopVars, txVars

-----------------------------------------------------------------------------
\* The active loops are finitely many, and no more than all.
LEMMA ActiveFinite ==
    /\ IsFiniteSet(Active) /\ Cardinality(Active) \in 0 .. Cardinality(Loops)
    /\ Cardinality(Active) = 0 <=> Active = {}
    /\ Cardinality(Loops) \in Nat
  <1>1. Active \in SUBSET Loops
    BY DEF Active
  <1>2. /\ IsFiniteSet(Active) /\ Cardinality(Active) <= Cardinality(Loops)
        /\ Cardinality(Active) \in Nat /\ Cardinality(Loops) \in Nat
    BY <1>1, LoopsAssumption, FS_Subset, FS_CardinalityType
  <1> QED BY <1>2, FS_EmptySet

\* A WaitGroup at zero means that every loop is done.
LEMMA ZeroMeansDone ==
    ASSUME Inv, launched, wg = 0
    PROVE  \A l \in Loops : loop[l] = "done"
  <1>1. Active = {}
    BY ActiveFinite DEF Inv, LoopsCounted
  <1> QED BY <1>1 DEF Active

\* A step that moves a client keeps the types of the program counters.
LEMMA GotoType ==
    ASSUME TypeOK, NEW c \in Clients,
           NEW p \in StartPCs \cup TxPCs \cup {"idle", "once", "stop", "wait"}, Goto(c, p)
    PROVE  pc' \in [Clients -> StartPCs \cup TxPCs \cup {"idle", "once", "stop", "wait"}]
  BY DEF TypeOK

\* A return keeps the types of the program counters and of the results.
LEMMA ReturnType ==
    ASSUME TypeOK, NEW c \in Clients, NEW r \in {None, "nil", "closed", "error"}, Return(c, r)
    PROVE  /\ pc' \in [Clients -> StartPCs \cup TxPCs \cup {"idle", "once", "stop", "wait"}]
           /\ result' \in [Clients -> {None, "nil", "closed", "error"}]
  <1>1. pc' \in [Clients -> StartPCs \cup TxPCs \cup {"idle", "once", "stop", "wait"}]
    BY GotoType
  <1>2. result' \in [Clients -> {None, "nil", "closed", "error"}]
    BY DEF TypeOK
  <1> QED BY <1>1, <1>2

\* The steps of a client that is in Start.
LEMMA StartKeeps ==
    ASSUME Inv, NEW c \in Clients, Start(c) \/ StartStep(c)
    PROVE  Inv'
  <1>1. CASE Start(c)
    <2>1. Active' = Active
      BY <1>1 DEF Start, Active
    <2>2. TypeOK
      BY DEF Inv
    <2>3. /\ pc' \in [Clients -> StartPCs \cup TxPCs \cup {"idle", "once", "stop", "wait"}]
          /\ result' \in [Clients -> {None, "nil", "closed", "error"}]
      <3>1. CASE Return(c, None)
        BY <2>2, <3>1, ReturnType
      <3>2. CASE Goto(c, "recover") /\ UNCHANGED result
        <4>1. pc' \in [Clients -> StartPCs \cup TxPCs \cup {"idle", "once", "stop", "wait"}]
          BY <2>2, <3>2, GotoType
        <4> QED BY <2>2, <3>2, <4>1 DEF TypeOK
      <3> QED BY <1>1, <3>1, <3>2 DEF Start
    <2>4. state' \in {state, "starting"}
      BY <1>1 DEF Start, Claim
    <2>5. TypeOK'
      BY <1>1, <2>2, <2>3, <2>4 DEF TypeOK, Start
    <2>6. StartOrder'
      BY <1>1, <2>1, NoneAssumption DEF Inv, TypeOK, StartOrder, BeforeLaunch, Start, Claim
    <2>7. BeforeLaunch'
      BY <1>1, <2>1, NoneAssumption DEF Inv, TypeOK, BeforeLaunch, StartOrder, Start, Claim
    <2>8. LoopsCounted'
      BY <1>1, <2>1, NoneAssumption DEF Inv, TypeOK, LoopsCounted, StartOrder, Start, Claim
    <2>9. ErrorKept'
      BY <1>1, <2>1, NoneAssumption DEF Inv, TypeOK, ErrorKept, Start, Claim
    <2>10. QuietWhenClosed'
      BY <1>1, <2>1, NoneAssumption DEF Inv, TypeOK, QuietWhenClosed, Start, Claim
    <2>11. CloseReports'
      BY <1>1, <2>1, NoneAssumption DEF Inv, TypeOK, CloseReports, QuietWhenClosed, Start, Claim
    <2> QED BY <2>5, <2>6, <2>7, <2>8, <2>9, <2>10, <2>11 DEF Inv
  <1>2. CASE Recover(c)
    <2>1. Active' = Active
      BY <1>2 DEF Recover, Active
    <2>2. TypeOK
      BY DEF Inv
    <2>3. pc' \in [Clients -> StartPCs \cup TxPCs \cup {"idle", "once", "stop", "wait"}]
      <3>1. Goto(c, "launch") \/ Goto(c, "unstart")
        BY <1>2 DEF Recover
      <3> QED BY <2>2, <3>1, GotoType
    <2>4. recovered' \in BOOLEAN
      BY <1>2, <2>2 DEF TypeOK, Recover
    <2>5. TypeOK'
      <3>1. UNCHANGED <<state, launched, loopVars, once, result, txVars>>
        BY <1>2 DEF Recover
      <3> QED BY <2>2, <2>3, <2>4, <3>1 DEF TypeOK
    <2>6. StartOrder'
      BY <1>2, <2>1, NoneAssumption DEF Inv, TypeOK, StartOrder, BeforeLaunch, Recover
    <2>7. BeforeLaunch'
      BY <1>2, <2>1, NoneAssumption DEF Inv, TypeOK, BeforeLaunch, StartOrder, Recover
    <2>8. LoopsCounted'
      BY <1>2, <2>1, NoneAssumption DEF Inv, TypeOK, LoopsCounted, StartOrder, Recover
    <2>9. ErrorKept'
      BY <1>2, <2>1, NoneAssumption DEF Inv, TypeOK, ErrorKept, Recover
    <2>10. QuietWhenClosed'
      BY <1>2, <2>1, NoneAssumption DEF Inv, TypeOK, QuietWhenClosed, Recover
    <2>11. CloseReports'
      BY <1>2, <2>1, NoneAssumption DEF Inv, TypeOK, CloseReports, QuietWhenClosed, Recover
    <2> QED BY <2>5, <2>6, <2>7, <2>8, <2>9, <2>10, <2>11 DEF Inv
  <1>3. CASE Launch(c)
    <2>1. ~launched /\ wg = 0
      BY <1>3 DEF Inv, StartOrder, BeforeLaunch, Launch
    <2>2. Active' = Loops
      BY <1>3, <2>1 DEF Inv, BeforeLaunch, Launch, Active
    <2>3. wg' = Cardinality(Loops) /\ wg' \in 0 .. Cardinality(Loops)
      BY <1>3, <2>1, ActiveFinite DEF Launch, Adding
    <2> QED BY <1>3, <2>1, <2>2, <2>3 DEF Inv, TypeOK, StartOrder, BeforeLaunch, LoopsCounted,
               ErrorKept, QuietWhenClosed, CloseReports, Launch
  <1>4. CASE Spawn(c)
    <2>1. \A l \in Loops : loop[l] = "none"
      BY <1>4 DEF Inv, LoopsCounted, Spawn
    <2>2. Active' = Active
      BY <1>4, <2>1 DEF Spawn, Active
    <2> QED BY <1>4, <2>1, <2>2, NoneAssumption DEF Inv, TypeOK, StartOrder, BeforeLaunch,
               LoopsCounted, ErrorKept, QuietWhenClosed, CloseReports, Spawn
  <1>5. CASE StartFails(c)
    <2>1. Active' = Active
      BY <1>5 DEF StartFails, Active
    <2> QED BY <1>5, <2>1, NoneAssumption DEF Inv, TypeOK, StartOrder, BeforeLaunch,
               LoopsCounted, ErrorKept, QuietWhenClosed, CloseReports, StartFails
  <1> QED BY <1>1, <1>2, <1>3, <1>4, <1>5 DEF StartStep

\* The steps of a client that begins a transaction.
LEMMA TxKeeps ==
    ASSUME Inv, NEW c \in Clients, NewTransaction(c) \/ TxStep(c)
    PROVE  Inv'
  <1>1. Active' = Active
    BY DEF TxStep, NewTransaction, AddNumber, ReadNumber, Begin, Active
  <1>2. CASE NewTransaction(c)
    <2>2. TypeOK
      BY DEF Inv
    <2>3. /\ pc' \in [Clients -> StartPCs \cup TxPCs \cup {"idle", "once", "stop", "wait"}]
          /\ result' \in [Clients -> {None, "nil", "closed", "error"}]
      <3>1. CASE Return(c, None)
        BY <2>2, <3>1, ReturnType
      <3>2. CASE Goto(c, "add") /\ UNCHANGED result
        <4>1. pc' \in [Clients -> StartPCs \cup TxPCs \cup {"idle", "once", "stop", "wait"}]
          BY <2>2, <3>2, GotoType
        <4> QED BY <2>2, <3>2, <4>1 DEF TypeOK
      <3> QED BY <1>2, <3>1, <3>2 DEF NewTransaction
    <2>5. TypeOK'
      BY <1>2, <2>2, <2>3 DEF TypeOK, NewTransaction
    <2>6. StartOrder'
      BY <1>1, <1>2, NoneAssumption DEF Inv, TypeOK, StartOrder, BeforeLaunch, MayStart,
         NewTransaction
    <2>7. BeforeLaunch'
      BY <1>1, <1>2, NoneAssumption DEF Inv, TypeOK, BeforeLaunch, StartOrder, MayStart,
         NewTransaction
    <2>8. LoopsCounted'
      BY <1>1, <1>2, NoneAssumption DEF Inv, TypeOK, LoopsCounted, StartOrder, MayStart,
         NewTransaction
    <2>9. ErrorKept'
      BY <1>1, <1>2, NoneAssumption DEF Inv, TypeOK, ErrorKept, MayStart, NewTransaction
    <2>10. QuietWhenClosed'
      BY <1>1, <1>2, NoneAssumption DEF Inv, TypeOK, QuietWhenClosed, MayStart, NewTransaction
    <2>11. CloseReports'
      BY <1>1, <1>2, NoneAssumption DEF Inv, TypeOK, CloseReports, QuietWhenClosed, MayStart,
         NewTransaction
    <2> QED BY <2>5, <2>6, <2>7, <2>8, <2>9, <2>10, <2>11 DEF Inv
  <1>3. CASE AddNumber(c)
    BY <1>1, <1>3, NoneAssumption DEF Inv, TypeOK, StartOrder, BeforeLaunch, LoopsCounted,
       ErrorKept, QuietWhenClosed, CloseReports, AddNumber
  <1>4. CASE ReadNumber(c)
    BY <1>1, <1>4 DEF Inv, TypeOK, StartOrder, BeforeLaunch, LoopsCounted, ErrorKept,
       QuietWhenClosed, CloseReports, ReadNumber
  <1>5. CASE Begin(c)
    <2>3. starts \in Seq(Nat) /\ num[c] \in Nat
      BY DEF Inv, TypeOK
    <2>4. starts' \in Seq(Nat)
      BY <1>5, <2>3 DEF Begin
    <2>5. TypeOK'
      BY <1>1, <1>5, <2>4, NoneAssumption DEF Inv, TypeOK, Begin
    <2>6. StartOrder'
      BY <1>1, <1>5, NoneAssumption DEF Inv, TypeOK, StartOrder, BeforeLaunch, Begin
    <2>7. BeforeLaunch'
      BY <1>1, <1>5, NoneAssumption DEF Inv, TypeOK, BeforeLaunch, StartOrder, Begin
    <2>8. LoopsCounted'
      BY <1>1, <1>5, NoneAssumption DEF Inv, TypeOK, LoopsCounted, StartOrder, Begin
    <2>9. ErrorKept'
      BY <1>1, <1>5, NoneAssumption DEF Inv, TypeOK, ErrorKept, Begin
    <2>10. QuietWhenClosed'
      BY <1>1, <1>5, NoneAssumption DEF Inv, TypeOK, QuietWhenClosed, Begin
    <2>11. CloseReports'
      BY <1>1, <1>5, NoneAssumption DEF Inv, TypeOK, CloseReports, QuietWhenClosed, Begin
    <2> QED BY <2>5, <2>6, <2>7, <2>8, <2>9, <2>10, <2>11 DEF Inv
  <1> QED BY <1>2, <1>3, <1>4, <1>5 DEF TxStep

\* The steps of a client that closes.
LEMMA CloseKeeps ==
    ASSUME Inv, NEW c \in Clients, Close(c) \/ CloseStep(c)
    PROVE  Inv'
  <1>1. Active' = Active
    BY DEF CloseStep, Close, CloseOnce, StopLoops, WaitLoops, Active
  <1>2. CASE Close(c)
    <2>2. TypeOK
      BY DEF Inv
    <2>3. /\ pc' \in [Clients -> StartPCs \cup TxPCs \cup {"idle", "once", "stop", "wait"}]
          /\ result' \in [Clients -> {None, "nil", "closed", "error"}]
      <3>1. CASE Return(c, None) \/ Return(c, "nil")
        BY <2>2, <3>1, ReturnType
      <3>2. CASE Goto(c, "once") /\ UNCHANGED result
        <4>1. pc' \in [Clients -> StartPCs \cup TxPCs \cup {"idle", "once", "stop", "wait"}]
          BY <2>2, <3>2, GotoType
        <4> QED BY <2>2, <3>2, <4>1 DEF TypeOK
      <3> QED BY <1>2, <3>1, <3>2 DEF Close
    <2>5. TypeOK'
      BY <1>2, <2>2, <2>3 DEF TypeOK, Close
    <2>6. StartOrder'
      BY <1>1, <1>2, NoneAssumption DEF Inv, TypeOK, StartOrder, BeforeLaunch, Close
    <2>7. BeforeLaunch'
      BY <1>1, <1>2, NoneAssumption DEF Inv, TypeOK, BeforeLaunch, StartOrder, Close
    <2>8. LoopsCounted'
      BY <1>1, <1>2, NoneAssumption DEF Inv, TypeOK, LoopsCounted, StartOrder, Close
    <2>9. ErrorKept'
      BY <1>1, <1>2, NoneAssumption DEF Inv, TypeOK, ErrorKept, Close
    <2>10. QuietWhenClosed'
      BY <1>1, <1>2, NoneAssumption DEF Inv, TypeOK, QuietWhenClosed, Close
    <2>11. CloseReports'
      BY <1>1, <1>2, NoneAssumption DEF Inv, TypeOK, CloseReports, QuietWhenClosed, Close
    <2> QED BY <2>5, <2>6, <2>7, <2>8, <2>9, <2>10, <2>11 DEF Inv
  <1>3. CASE CloseOnce(c)
    <2>5. TypeOK'
      BY <1>1, <1>3, NoneAssumption DEF Inv, TypeOK, CloseOnce
    <2>6. StartOrder'
      BY <1>1, <1>3, NoneAssumption DEF Inv, TypeOK, StartOrder, BeforeLaunch, CloseOnce
    <2>7. BeforeLaunch'
      BY <1>1, <1>3, NoneAssumption DEF Inv, TypeOK, BeforeLaunch, StartOrder, CloseOnce
    <2>8. LoopsCounted'
      BY <1>1, <1>3, NoneAssumption DEF Inv, TypeOK, LoopsCounted, StartOrder, CloseOnce
    <2>9. ErrorKept'
      BY <1>1, <1>3, NoneAssumption DEF Inv, TypeOK, ErrorKept, CloseOnce
    <2>10. QuietWhenClosed'
      BY <1>1, <1>3, NoneAssumption DEF Inv, TypeOK, QuietWhenClosed, ErrorKept, CloseOnce
    <2>11. CloseReports'
      BY <1>1, <1>3, NoneAssumption DEF Inv, TypeOK, CloseReports, QuietWhenClosed, CloseOnce
    <2> QED BY <2>5, <2>6, <2>7, <2>8, <2>9, <2>10, <2>11 DEF Inv
  <1>4. CASE StopLoops(c)
    BY <1>1, <1>4 DEF Inv, TypeOK, StartOrder, BeforeLaunch, LoopsCounted, ErrorKept,
       QuietWhenClosed, CloseReports, StopLoops
  <1>5. CASE WaitLoops(c)
    <2>1. \A l \in Loops : loop[l] = "done"
      BY <1>5, ZeroMeansDone DEF Inv, BeforeLaunch, WaitLoops, AllDone
    <2>2. bgErr = None => failed = {}
      BY <2>1 DEF Inv, TypeOK, ErrorKept
    <2> QED BY <1>1, <1>5, <2>1, <2>2, NoneAssumption DEF Inv, TypeOK, StartOrder, BeforeLaunch,
               LoopsCounted, ErrorKept, QuietWhenClosed, CloseReports, WaitLoops
  <1> QED BY <1>2, <1>3, <1>4, <1>5 DEF CloseStep

\* The steps of a loop and its ticker.  A loop that steps is active, so that no
\* Close has returned.
LEMMA LoopKeeps ==
    ASSUME Inv, NEW l \in Loops, Tick(l) \/ LoopStep(l)
    PROVE  Inv'
  <1>1. CASE Tick(l)
    <2>1. Active' = Active
      BY <1>1 DEF Tick, Active
    <2> QED BY <1>1, <2>1, NoneAssumption DEF Inv, TypeOK, StartOrder, BeforeLaunch,
               LoopsCounted, ErrorKept, QuietWhenClosed, CloseReports, Tick
  <1>2. ASSUME LoopStep(l)
        PROVE  /\ loop[l] \notin {"none", "done"} /\ launched
               /\ \A c \in Clients : pc[c] # "spawn" /\ result[c] # "closed"
               /\ state # "closed" /\ \A c \in Clients : result[c] = None
    <2>1. loop[l] \notin {"none", "done"}
      BY <1>2 DEF LoopStep, Round, Leave, Work, FailFirst, FailNext, FailCancel, Done
    <2> QED BY <2>1, NoneAssumption DEF Inv, BeforeLaunch, LoopsCounted, QuietWhenClosed
  <1>3. CASE Done(l)
    <2>1. Active' = Active \ {l} /\ l \in Active
      BY <1>3 DEF Done, Active, Inv, TypeOK
    <2>2. Cardinality(Active') = Cardinality(Active) - 1
      BY <2>1, ActiveFinite, FS_RemoveElement
    <2>3. wg' = Cardinality(Active') /\ wg' \in 0 .. Cardinality(Loops)
      <3>1. wg = Cardinality(Active) /\ wg # 0
        BY <1>2, <1>3, <2>1, ActiveFinite DEF Inv, LoopsCounted, LoopStep
      <3> QED BY <1>3, <2>2, <3>1, ActiveFinite DEF Done
    <2>4. LoopStep(l)
      BY <1>3 DEF LoopStep
    <2> QED BY <1>2, <1>3, <2>3, <2>4 DEF Inv, TypeOK, StartOrder, BeforeLaunch, LoopsCounted,
               ErrorKept, QuietWhenClosed, CloseReports, Done
  <1>4. ASSUME LoopStep(l), ~Done(l) PROVE Active' = Active
    BY <1>4, <1>2 DEF LoopStep, Round, Leave, Work, FailFirst, FailNext, FailCancel, Active,
       Inv, TypeOK
  <1>5. CASE Round(l) \/ Leave(l)
    <2>1. /\ loop[l] = "select" /\ LoopStep(l) /\ ~Done(l)
          /\ loop' = [loop EXCEPT ![l] = "work"] \/ loop' = [loop EXCEPT ![l] = "leave"]
          /\ tick' \in {tick, tick \ {l}}
          /\ UNCHANGED <<state, startVars, stopped, cancelled, wg, bgErr, failed, once, pc,
                         result, txVars>>
      BY <1>5 DEF LoopStep, Round, Leave, Done
    <2>2. Active' = Active
      BY <1>4, <2>1
    <2>3. /\ loop'[l] \in {"work", "leave"} /\ \A k \in Loops \ {l} : loop'[k] = loop[k]
          /\ loop' \in [Loops -> {"none", "select", "work", "fail", "cancel", "leave", "done"}]
      BY <2>1 DEF Inv, TypeOK
    <2>4. TypeOK'
      BY <2>1, <2>3 DEF Inv, TypeOK
    <2>5. StartOrder' /\ BeforeLaunch'
      BY <1>2, <2>1 DEF Inv, StartOrder, BeforeLaunch
    <2>6. LoopsCounted'
      BY <1>2, <2>1, <2>2 DEF Inv, LoopsCounted
    <2>7. ErrorKept'
      BY <2>1, <2>3 DEF Inv, TypeOK, ErrorKept
    <2>8. QuietWhenClosed' /\ CloseReports'
      BY <1>2, <2>1 DEF Inv, QuietWhenClosed, CloseReports
    <2> QED BY <2>4, <2>5, <2>6, <2>7, <2>8 DEF Inv
  <1>6. CASE Work(l)
    BY <1>2, <1>4, <1>6 DEF Inv, TypeOK, StartOrder, BeforeLaunch, LoopsCounted, ErrorKept,
       LoopStep, QuietWhenClosed, CloseReports, Work, Done
  <1>7. CASE FailFirst(l)
    BY <1>2, <1>4, <1>7, NoneAssumption DEF Inv, TypeOK, StartOrder, BeforeLaunch, LoopsCounted,
       ErrorKept, LoopStep, QuietWhenClosed, CloseReports, FailFirst, KeepError, Done
  <1>8. CASE FailNext(l)
    BY <1>2, <1>4, <1>8 DEF Inv, TypeOK, StartOrder, BeforeLaunch, LoopsCounted, ErrorKept,
       LoopStep, QuietWhenClosed, CloseReports, FailNext, Done
  <1>9. CASE FailCancel(l)
    <2>5. TypeOK'
      BY <1>2, <1>4, <1>9 DEF Inv, TypeOK, LoopStep, FailCancel, CancelAll, Done
    <2>6. StartOrder'
      BY <1>2, <1>4, <1>9 DEF Inv, TypeOK, StartOrder, BeforeLaunch, LoopStep, FailCancel,
         CancelAll, Done
    <2>7. BeforeLaunch'
      BY <1>2, <1>4, <1>9 DEF Inv, TypeOK, BeforeLaunch, StartOrder, LoopStep, FailCancel,
         CancelAll, Done
    <2>8. LoopsCounted'
      BY <1>2, <1>4, <1>9 DEF Inv, TypeOK, LoopsCounted, StartOrder, LoopStep, FailCancel,
         CancelAll, Done
    <2>9. ErrorKept'
      BY <1>2, <1>4, <1>9 DEF Inv, TypeOK, ErrorKept, LoopStep, FailCancel, CancelAll, Done
    <2>10. QuietWhenClosed'
      BY <1>2, <1>4, <1>9 DEF Inv, TypeOK, QuietWhenClosed, LoopStep, FailCancel, CancelAll,
         Done
    <2>11. CloseReports'
      BY <1>2, <1>4, <1>9 DEF Inv, TypeOK, CloseReports, QuietWhenClosed, LoopStep, FailCancel,
         CancelAll, Done
    <2> QED BY <2>5, <2>6, <2>7, <2>8, <2>9, <2>10, <2>11 DEF Inv
  <1> QED BY <1>1, <1>3, <1>5, <1>6, <1>7, <1>8, <1>9 DEF LoopStep

-----------------------------------------------------------------------------
\* Before Start nothing is launched, and the invariant holds.
LEMMA InitInv == Init => Inv
  <1> SUFFICES ASSUME Init PROVE Inv
    OBVIOUS
  <1>1. TypeOK
    <2>1. wg \in 0 .. Cardinality(Loops)
      BY ActiveFinite DEF Init
    <2>2. starts \in Seq(Nat)
      BY DEF Init
    <2>3. once \in [err : {"new", "running", "done"}, close : {"new", "running", "done"}]
      BY DEF Init
    <2> QED BY <2>1, <2>2, <2>3 DEF Init, TypeOK
  <1>2. StartOrder /\ BeforeLaunch /\ LoopsCounted
    BY DEF Init, StartOrder, BeforeLaunch, LoopsCounted
  <1>3. ErrorKept /\ QuietWhenClosed /\ CloseReports
    BY NoneAssumption DEF Init, ErrorKept, QuietWhenClosed, CloseReports
  <1> QED BY <1>1, <1>2, <1>3 DEF Inv

\* Inv is inductive: Start, NewTransaction, Close and the loops keep it
\* (simpledb.go:151-323).
THEOREM LifecycleInvariant == Spec => []Inv
  <1>1. Inv /\ [Next]_vars => Inv'
    <2> SUFFICES ASSUME Inv, [Next]_vars PROVE Inv'
      OBVIOUS
    <2>1. CASE UNCHANGED vars
      <3>1. Active' = Active
        BY <2>1 DEF vars, Active
      <3> QED BY <2>1, <3>1 DEF Inv, TypeOK, StartOrder, BeforeLaunch, LoopsCounted, ErrorKept,
                 QuietWhenClosed, CloseReports, vars
    <2>2. CASE Next
      BY <2>2, StartKeeps, TxKeeps, CloseKeeps, LoopKeeps DEF Next, ClientStep
    <2> QED BY <2>1, <2>2
  <1> QED BY InitInv, <1>1, PTL DEF Spec

\* Type correctness; the WaitGroup is never negative (simpledb.go:204, 215).
THEOREM TypesKept == Spec => []TypeOK
  <1>1. Inv => TypeOK
    BY DEF Inv
  <1> QED BY <1>1, LifecycleInvariant, PTL

\* Recovery runs alone and before every transaction, whatever Starts race or
\* failed (simpledb.go:151-198).
THEOREM OneRecoveryFirst == Spec => []RecoveryAlone
  <1>1. Inv => RecoveryAlone
    BY DEF Inv, StartOrder, BeforeLaunch, RecoveryAlone
  <1> QED BY <1>1, LifecycleInvariant, PTL

\* No loop runs once any Close has returned (simpledb.go:263-309).
THEOREM NothingAfterClose == Spec => []QuietWhenClosed
  <1>1. Inv => QuietWhenClosed
    BY DEF Inv
  <1> QED BY <1>1, LifecycleInvariant, PTL

\* The Close that closes reports a loop that failed (simpledb.go:299, 311).
THEOREM ErrorsReported == Spec => []CloseReports
  <1>1. Inv => CloseReports
    BY DEF Inv
  <1> QED BY <1>1, LifecycleInvariant, PTL
=============================================================================
