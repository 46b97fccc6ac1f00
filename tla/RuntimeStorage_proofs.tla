----------------------- MODULE RuntimeStorage_proofs -----------------------
(***************************************************************************)
(* The lifecycle of the emulator keeps its two atomics in step for any     *)
(* number of tasks that request a stop or report a failure.  The           *)
(* persistent store keeps its promises for any number of sessions, failing *)
(* calls and resets of the board.                                          *)
(***************************************************************************)
EXTENDS Runtime, StorageFatfs, TLAPS

-----------------------------------------------------------------------------
(* The lifecycle *)

Finalized == {"FinalizedStoppedNone", "FinalizedStoppedExternal", "FinalizedFailed"}
Unreasoned == {"OpenNone", "FinalizedStoppedNone"}
Halting == {"StopRequested", "Stopping"} \cup Terminal
FailCalls == {"fail_load", "fail_decide", "fail_cas"}

\* Only the owner leaves Stopping, and it finalizes the outcome first.
Phases ==
    /\ at \in {"term", "finish", "publish"} <=> state = "Stopping"
    /\ at \in {"term", "finish"} => outcome \notin Finalized
    /\ at = "publish" => outcome \in Finalized
    /\ outcome \in Finalized => at = "publish" \/ state \in Terminal
    /\ at = "answer" => state \in Terminal
    /\ at \in {"check_stop", "core_init", "complete_init"} =>
        state \in {"Initializing", "StopRequested"}

\* Whoever stops the runtime, or has seen it stop, has a reason on record.
Reasoned ==
    /\ outcome # "FinalizedStoppedNone"
    /\ state \in Halting \/ accepted = 1 => outcome # "OpenNone"
    /\ at = "cleanup" /\ pc[Owner] = "idle" => outcome # "OpenNone"
    /\ \A t \in Tasks :
        pc[t] = "stop_cas" \/ saw[t] \in Halting => outcome # "OpenNone"

\* Behind claim_fatal the outcome stays fatal.
Claimed ==
    /\ marked = 1 => outcome \in Fatal
    /\ \A t \in Tasks : pc[t] \in FailCalls => outcome \in Fatal

\* The core is gone before the outcome is final.
Released ==
    /\ at \in {"finish", "publish", "answer", "destroyed"} => core = 0
    /\ state \in Terminal => core = 0

RInv == TypeOK /\ Phases /\ Reasoned /\ Claimed /\ Released /\ TerminalAgrees

\* A new lifecycle satisfies the invariant.
LEMMA LifecycleInitHolds == LifecycleInit => RInv
BY DEF LifecycleInit, RInv, TypeOK, OwnerTypes, TaskTypes, Flag, Places, Results, Calls, States, Active,
       Terminal, Outcomes, Open, Fatal, Phases, Reasoned, Claimed, Released, TerminalAgrees,
       Finalized, Halting, FailCalls

\* A task that only moves within its call leaves everything else to stand.
LEMMA QuietStep ==
    ASSUME RInv, NEW t \in Tasks,
           CallStop(t) \/ StopRefused(t) \/ StopAlready(t) \/ CallFailure(t) \/ FailDecide(t)
    PROVE  RInv'
<1> USE RuntimeAssumption
    DEF CallStop, StopRefused, StopAlready, CallFailure, FailDecide, Goto, Return, life, told
<1>1. TypeOK'
  BY DEF RInv, TypeOK, OwnerTypes, TaskTypes, Flag, Calls
<1>2. Phases' /\ Released' /\ TerminalAgrees'
  BY DEF RInv, Phases, Released, TerminalAgrees
<1>3. Reasoned'
  <2>1. Owner \in Tasks
    BY Zenon DEF Tasks
  <2>2. pc[t] \in FailCalls \/ saw[t] \in Halting => outcome # "OpenNone"
    BY Zenon DEF RInv, Reasoned, Claimed, Fatal
  <2>3. pc'[Owner] = "idle" => pc[Owner] = "idle" \/ outcome # "OpenNone"
    BY <2>1, <2>2, Zenon DEF RInv, TypeOK, TaskTypes, FailCalls, Halting
  <2>4. \A u \in Tasks : pc'[u] = "stop_cas" => pc[u] = "stop_cas"
    BY Zenon DEF RInv, TypeOK, TaskTypes
  <2>5. accepted' = 1 => accepted = 1 \/ outcome # "OpenNone"
    BY <2>2, Zenon DEF Halting
  <2> QED
    BY <2>3, <2>4, <2>5, Zenon DEF RInv, Reasoned
<1>4. Claimed'
  BY Zenon DEF RInv, TypeOK, TaskTypes, Claimed, FailCalls
<1> QED
  BY <1>1, <1>2, <1>3, <1>4, Zenon DEF RInv

\* Loading state_ learns of a stop only when there is a reason.
LEMMA LoadStep ==
    ASSUME RInv, NEW t \in Tasks,
           StopLoad(t) \/ StopAgain(t) \/ FailLoad(t) \/ FailAgain(t)
    PROVE  RInv'
<1> USE DEF StopLoad, StopAgain, FailLoad, FailAgain, Goto, Load, life, told
<1>1. TypeOK'
  BY Zenon DEF RInv, TypeOK, OwnerTypes, TaskTypes, Flag, Calls
<1>2. Phases' /\ Released' /\ TerminalAgrees'
  BY Zenon DEF RInv, Phases, Released, TerminalAgrees
<1>3. Reasoned'
  BY Zenon DEF RInv, TypeOK, TaskTypes, Tasks, Reasoned
<1>4. Claimed'
  BY Zenon DEF RInv, TypeOK, TaskTypes, Claimed, FailCalls
<1> QED
  BY <1>1, <1>2, <1>3, <1>4, Zenon DEF RInv

\* An external stop claims an outcome that is open without a reason.
LEMMA StopClaimStep ==
    ASSUME RInv, NEW t \in Tasks, StopClaim(t)
    PROVE  RInv'
<1> USE DEF StopClaim, Goto, told
<1>1. TypeOK'
  BY Zenon DEF RInv, TypeOK, OwnerTypes, TaskTypes, Flag, Calls, Active, Outcomes, Open
<1>2. Phases' /\ Released' /\ TerminalAgrees'
  BY Zenon DEF RInv, Phases, Released, TerminalAgrees, Finalized
<1>3. Reasoned'
  BY Zenon DEF RInv, Reasoned
<1>4. Claimed'
  BY Zenon DEF RInv, TypeOK, TaskTypes, Claimed, FailCalls, Fatal
<1> QED
  BY <1>1, <1>2, <1>3, <1>4, Zenon DEF RInv

\* A failure claims an outcome that is not final.
LEMMA FailClaimStep ==
    ASSUME RInv, NEW t \in Tasks, FailClaim(t)
    PROVE  RInv'
<1> USE DEF FailClaim, Goto, Return, told
<1>1. TypeOK'
  BY Zenon DEF RInv, TypeOK, OwnerTypes, TaskTypes, Flag, Calls, Outcomes, Open, Fatal
<1>2. Phases' /\ Released' /\ TerminalAgrees'
  BY Zenon DEF RInv, TypeOK, Phases, Released, TerminalAgrees, Finalized, Open, Terminal
<1>3. Reasoned'
  BY Zenon DEF RInv, TypeOK, TaskTypes, Reasoned, Open
<1>4. Claimed'
  BY Zenon DEF RInv, TypeOK, TaskTypes, Claimed, FailCalls, Fatal, Open
<1> QED
  BY <1>1, <1>2, <1>3, <1>4, Zenon DEF RInv

\* The exchange finds a state it may stop, with a reason on record.
LEMMA ExchangeStep ==
    ASSUME RInv, NEW t \in Tasks, StopExchange(t) \/ FailExchange(t)
    PROVE  RInv'
<1> USE DEF StopExchange, FailExchange, Goto, Return
<1>0. state \in Active
  BY Zenon DEF RInv, TypeOK, TaskTypes
<1>1. TypeOK'
  BY DEF RInv, TypeOK, OwnerTypes, TaskTypes, Flag, Calls, States, Active
<1>2. Phases' /\ Released' /\ TerminalAgrees'
  BY <1>0, Zenon DEF RInv, Phases, Released, TerminalAgrees, Active, Terminal
<1>3. outcome # "OpenNone"
  BY Zenon DEF RInv, Reasoned, Claimed, FailCalls, Fatal
<1>4. Reasoned'
  BY <1>3, Zenon DEF RInv, Reasoned
<1>5. Claimed'
  BY Zenon DEF RInv, TypeOK, TaskTypes, Claimed, FailCalls
<1> QED
  BY <1>1, <1>2, <1>4, <1>5, Zenon DEF RInv

-----------------------------------------------------------------------------
(* The owner task *)

\* Steps of the owner that change neither atomic nor the core.
LEMMA OwnerQuietStep ==
    ASSUME RInv,
           Start \/ CheckCancelled \/ CheckStop \/ Setup \/ RunRefused \/ CheckLoop \/ Iterate
           \/ AnswerCleanup \/ Destroy
    PROVE  RInv'
<1> USE DEF Start, CheckCancelled, CheckStop, Setup, RunRefused, CheckLoop, Iterate,
            AnswerCleanup, Destroy, Owns, MoveOn, Answer, Goto, life, calls, told, StopRequested
<1>1. TypeOK'
  BY Zenon DEF RInv, TypeOK, OwnerTypes, TaskTypes, Tasks, Flag, Calls, Places, Results
<1>2. Phases' /\ Released'
  BY DEF RInv, TypeOK, OwnerTypes, Flag, Phases, Released
<1>3. TerminalAgrees'
  BY Zenon DEF RInv, Phases, TerminalAgrees, Terminal, Fatal
<1>4. Reasoned'
  BY Zenon DEF RInv, TypeOK, TaskTypes, Tasks, Phases, Reasoned, Halting
<1>5. Claimed'
  BY Zenon DEF RInv, TypeOK, TaskTypes, Tasks, Claimed, FailCalls
<1> QED
  BY <1>1, <1>2, <1>3, <1>4, <1>5, Zenon DEF RInv

\* The owner's exchanges on the way up.
LEMMA AdvanceStep ==
    ASSUME RInv, BeginInitialization \/ CompleteInitialization \/ BeginRunning
    PROVE  RInv'
<1> USE DEF BeginInitialization, CompleteInitialization, BeginRunning, Exchange, Owns, MoveOn,
            Answer, calls, told
<1>1. TypeOK'
  BY Zenon DEF RInv, TypeOK, OwnerTypes, TaskTypes, Flag, Places, Results, States, Active
<1>2. Phases' /\ Released'
  BY Zenon DEF RInv, Phases, Released, Terminal
<1>3. TerminalAgrees'
  BY Zenon DEF RInv, TerminalAgrees
<1>4. Reasoned'
  BY Zenon DEF RInv, Phases, Reasoned, Halting, Terminal
<1>5. Claimed'
  BY Zenon DEF RInv, Claimed
<1> QED
  BY <1>1, <1>2, <1>3, <1>4, <1>5, Zenon DEF RInv

\* pccore_init and pccore_term.
LEMMA CoreStep ==
    ASSUME RInv, CoreInit \/ TerminateCore
    PROVE  RInv'
<1> USE DEF CoreInit, TerminateCore, Owns, MoveOn, life, calls, told
<1>1. TypeOK'
  BY DEF RInv, TypeOK, OwnerTypes, TaskTypes, Flag, Places
<1>2. Phases' /\ Released' /\ TerminalAgrees'
  BY Zenon DEF RInv, Phases, Released, TerminalAgrees, Terminal
<1>3. Reasoned' /\ Claimed'
  BY Zenon DEF RInv, Reasoned, Claimed
<1> QED
  BY <1>1, <1>2, <1>3, Zenon DEF RInv

\* begin_stopping.
LEMMA BeginStoppingStep ==
    ASSUME RInv, BeginStopping
    PROVE  RInv'
<1> USE DEF BeginStopping, Owns, MoveOn, calls, told
<1>1. TypeOK'
  BY Zenon DEF RInv, TypeOK, OwnerTypes, TaskTypes, Flag, Places, States
<1>2. Phases' /\ Released' /\ TerminalAgrees'
  BY Zenon DEF RInv, TypeOK, Phases, Released, TerminalAgrees, States, Active, Terminal
<1>3. Reasoned' /\ Claimed'
  BY Zenon DEF RInv, Reasoned, Claimed
<1> QED
  BY <1>1, <1>2, <1>3, Zenon DEF RInv

\* finish_cleanup: the outcome is what it was, for good.
LEMMA FinalizeStep ==
    ASSUME RInv, Finalize
    PROVE  RInv'
<1> USE DEF Finalize, Owns, MoveOn, calls, told
<1>0. /\ outcome \in {"OpenExternal", "FatalPending"}
      /\ outcome = "OpenExternal" => outcome' = "FinalizedStoppedExternal"
      /\ outcome = "FatalPending" => outcome' = "FinalizedFailed"
  BY Zenon DEF RInv, TypeOK, Outcomes, Open, Fatal, Phases, Reasoned, Finalized, Halting, Final
<1>1. TypeOK'
  BY <1>0, Zenon DEF RInv, TypeOK, OwnerTypes, TaskTypes, Flag, Places, Outcomes, Fatal
<1>2. Phases' /\ Released'
  BY <1>0, Zenon DEF RInv, Phases, Released, Finalized
<1>3. TerminalAgrees'
  BY Zenon DEF RInv, Phases, TerminalAgrees
<1>4. Reasoned' /\ Claimed'
  BY <1>0, Zenon DEF RInv, Reasoned, Claimed, Fatal
<1> QED
  BY <1>1, <1>2, <1>3, <1>4, Zenon DEF RInv

\* finish_cleanup: the state follows.
LEMMA PublishStep ==
    ASSUME RInv, Publish
    PROVE  RInv'
<1> USE DEF Publish, Owns, MoveOn, calls, told
<1>1. TypeOK'
  BY Zenon DEF RInv, TypeOK, OwnerTypes, TaskTypes, Flag, Places, States, Terminal
<1>2. Phases' /\ Released'
  BY Zenon DEF RInv, Phases, Released, Terminal
<1>3. TerminalAgrees'
  BY Zenon DEF RInv, Phases, TerminalAgrees, Finalized
<1>4. Reasoned' /\ Claimed'
  BY Zenon DEF RInv, Phases, Reasoned, Claimed, Halting, Finalized
<1> QED
  BY <1>1, <1>2, <1>3, <1>4, Zenon DEF RInv

-----------------------------------------------------------------------------
(* Theorems *)

\* Every access of any task keeps the invariant.
LEMMA StepHolds == RInv /\ [LifecycleNext]_lifecycleVars => RInv'
<1> SUFFICES ASSUME RInv, [LifecycleNext]_lifecycleVars PROVE RInv'
  BY Zenon
<1>1. CASE UNCHANGED lifecycleVars
  <2> USE <1>1 DEF lifecycleVars, life, calls, told
  <2>1. TypeOK' /\ TerminalAgrees'
    BY Zenon DEF RInv, TypeOK, OwnerTypes, TaskTypes, TerminalAgrees
  <2>2. Phases' /\ Reasoned' /\ Claimed' /\ Released'
    BY Zenon DEF RInv, Phases, Reasoned, Claimed, Released
  <2> QED
    BY <2>1, <2>2, Zenon DEF RInv
<1>2. ASSUME NEW t \in Tasks, CallStop(t) \/ CallFailure(t) \/ StopCall(t) \/ FailureCall(t)
      PROVE  RInv'
  BY <1>2, QuietStep, LoadStep, StopClaimStep, FailClaimStep, ExchangeStep, Zenon
  DEF StopCall, FailureCall
<1>3. CASE OwnerStep
  BY <1>3, OwnerQuietStep, AdvanceStep, CoreStep, BeginStoppingStep, FinalizeStep, PublishStep, Zenon
  DEF OwnerStep
<1> QED
  BY <1>1, <1>2, <1>3, Zenon DEF LifecycleNext

\* So the invariant always holds.
LEMMA LifecycleInvariance == LifecycleSpec => []RInv
BY LifecycleInitHolds, StepHolds, PTL DEF LifecycleSpec

\* States, outcomes and program counters of the lifecycle stay in their types.
THEOREM LifecycleTypes == LifecycleSpec => []TypeOK
BY LifecycleInvariance, PTL DEF RInv

\* mark_failure() and finish_cleanup() race safely: a failure that was accepted
\* is never answered with Stopped.
THEOREM FailuresAreFinal == LifecycleSpec => []FailureIsFinal
<1>1. RInv => FailureIsFinal
  BY Zenon DEF RInv, Claimed, TerminalAgrees, FailureIsFinal, Fatal
<1> QED
  BY <1>1, LifecycleInvariance, PTL

\* state_ and terminal_outcome_ agree at the end, and so does run()'s answer.
THEOREM TerminalStatesAgree == LifecycleSpec => []TerminalAgrees
BY LifecycleInvariance, PTL DEF RInv

\* stop_reason() is never None for a stop that was accepted or a runtime that
\* has ended.
THEOREM StopsHaveReasons == LifecycleSpec => []AcceptedHasReason
<1>1. RInv => AcceptedHasReason
  BY Zenon DEF RInv, Reasoned, AcceptedHasReason, Halting
<1> QED
  BY <1>1, LifecycleInvariance, PTL

\* pccore_term() has run before the runtime has ended or is destroyed.
THEOREM CoreIsReleased == LifecycleSpec => []CoreReleased
<1>1. RInv => CoreReleased
  BY Zenon DEF RInv, Released, CoreReleased
<1> QED
  BY <1>1, LifecycleInvariance, PTL

\* No task takes state_ back.
THEOREM OnlyForward == LifecycleSpec => NeverBackwards
<1>1. /\ Rank["Created"] = 0 /\ Rank["Initializing"] = 1 /\ Rank["Ready"] = 2
      /\ Rank["Running"] = 3 /\ Rank["StopRequested"] = 4 /\ Rank["Stopping"] = 5
      /\ Rank["Stopped"] = 6 /\ Rank["Failed"] = 6
  BY Zenon DEF Rank, States, Active, Terminal
<1>2. RInv /\ [LifecycleNext]_lifecycleVars => [Forward]_lifecycleVars
  <2> SUFFICES ASSUME RInv, LifecycleNext PROVE Forward
    BY Zenon
  <2>1. ASSUME NEW t \in Tasks, CallStop(t) \/ CallFailure(t) \/ StopCall(t) \/ FailureCall(t)
        PROVE  state' = state \/ (state \in Active /\ state' = "StopRequested")
    BY <2>1, Zenon DEF RInv, TypeOK, TaskTypes, CallStop, CallFailure, StopCall, FailureCall, StopLoad,
       StopRefused, StopAlready, StopClaim, StopExchange, StopAgain, FailClaim, FailLoad,
       FailDecide, FailExchange, FailAgain, life
  <2>2. CASE OwnerStep
    <3>1. \/ state' = state
          \/ state = "Created" /\ state' = "Initializing"
          \/ state = "Initializing" /\ state' = "Ready"
          \/ state = "Ready" /\ state' = "Running"
          \/ state \in Active /\ state' = "Stopping"
          \/ state = "Stopping" /\ state' \in Terminal
      BY <2>2, Zenon DEF RInv, Phases, Terminal, OwnerStep, Start, CheckCancelled, BeginInitialization,
         CheckStop, CoreInit, CompleteInitialization, Setup, BeginRunning, RunRefused, CheckLoop,
         Iterate, BeginStopping, TerminateCore, Finalize, Publish, AnswerCleanup, Destroy,
         Exchange, Owns, life
    <3> QED
      BY <3>1, <1>1 DEF Forward, Active, Terminal
  <2>3. ASSUME NEW t \in Tasks, CallStop(t) \/ CallFailure(t) \/ StopCall(t) \/ FailureCall(t)
        PROVE  Forward
    BY <2>1, <2>3, <1>1 DEF Forward, Active
  <2> QED
    BY <2>2, <2>3, Zenon DEF LifecycleNext
<1> QED
  BY <1>2, LifecycleInvariance, PTL DEF LifecycleSpec, NeverBackwards

-----------------------------------------------------------------------------
(* The persistent store *)

\* Where a call stands tells what the session has done so far.
Session ==
    /\ w_active = 0 => step = "none" /\ w_moved = 0 /\ w_fd = 0
    /\ w_active = 1 => w_path \in Paths /\ w_staging \in Numbers /\ r_path = NoPath /\ mounted = 1
    /\ mounted = 0 => r_path = NoPath
    /\ w_moved = 1 => w_backup \in Numbers
    /\ w_fd = 1 => step = "none" /\ w_moved = 0
    /\ step \in {"rollback", "restore", "unlink_backup"} => w_moved = 1
    /\ step = "backup" => w_moved = 0 /\ w_exists = 1
    /\ step = "install" => w_moved = w_exists

\* The staged file of the session is newer than anything committed.
Staged ==
    /\ \A p \in Paths : committed[p].by <= sessions
    /\ w_fd = 1 \/ step \in {"backup", "install"} =>
        /\ tmp[w_staging].by = sessions
        /\ \A p \in Paths : committed[p].by < sessions
        /\ step # "install" => (w_exists = 1 <=> content[w_path] # NoFile)
    /\ step \in {"backup", "install"} => Whole(tmp[w_staging])

\* Sessions have numbers of their own, so no two paths share a committed file.
Distinct ==
    \A p, q \in Paths : p # q /\ committed[p] = committed[q] => committed[p] = NoFile

\* A moved target is under its backup name until it comes back or is replaced.
Moved ==
    /\ step = "install" => content[w_path] = NoFile
    /\ w_moved = 1 /\ step \notin {"unlink_backup", "unlink_staging"} =>
        /\ content[w_path] = NoFile
        /\ committed[w_path] # NoFile
        /\ bak[w_backup] = committed[w_path]
    /\ w_moved = 1 /\ step \in {"unlink_backup", "unlink_staging"} =>
        /\ content[w_path] = committed[w_path]
        /\ committed[w_path] # NoFile
    /\ step = "unlink_backup" => \A p \in Paths : bak[w_backup] # committed[p]

\* Only failing calls keep a moved target from its path.
Counted ==
    /\ step = "rollback" => failures >= 1
    /\ w_moved = 1 /\ step \in {"none", "discard", "restore"} => failures >= 2
    /\ failures < 3 /\ displaced = 0 =>
        \A p \in Paths : content[p] = committed[p] \/ (w_moved = 1 /\ p = w_path)

SInv ==
    /\ StorageTypeOK /\ Session /\ Staged /\ Distinct /\ Moved /\ Counted
    /\ OnlyCommittedVisible /\ CommittedSurvives /\ ReaderUndisturbed

-----------------------------------------------------------------------------
(* Facts about contents and about steps that move no file. *)

\* Contents are pairs of a session and an amount; a whole one is a file.
LEMMA Contents ==
    /\ NoFile \in Content /\ NoFile.by = 0 /\ ~Whole(NoFile)
    /\ \A f \in Content : f.by \in Nat /\ f.written \in 0..Size
    /\ \A a \in Nat, b \in 0..Size :
        [by |-> a, written |-> b] \in Content /\ [by |-> a, written |-> b].by = a
BY StorageAssumption DEF NoFile, Content, Whole

\* What is visible and what survives depends on three functions only.
LEMMA Still ==
    ASSUME Distinct, OnlyCommittedVisible, CommittedSurvives,
           UNCHANGED <<content, bak, committed>>
    PROVE  Distinct' /\ OnlyCommittedVisible' /\ CommittedSurvives'
BY Zenon DEF Distinct, OnlyCommittedVisible, CommittedSurvives

\* rollback and abort move the backup of the session back to its path.
LEMMA MoveBack ==
    ASSUME SInv, w_active = 1, w_moved = 1, step \in {"rollback", "restore"},
           content' = [content EXCEPT ![w_path] = bak[w_backup]],
           bak' = [bak EXCEPT ![w_backup] = NoFile],
           UNCHANGED committed
    PROVE  /\ content' \in [Paths -> Content] /\ bak' \in [Numbers -> Content]
           /\ content'[w_path] = committed[w_path]
           /\ \A p \in Paths : p # w_path => content'[p] = content[p]
           /\ Distinct' /\ OnlyCommittedVisible' /\ CommittedSurvives'
<1>1. w_path \in Paths /\ w_backup \in Numbers
  BY Zenon DEF SInv, Session
<1>2. /\ content \in [Paths -> Content] /\ committed \in [Paths -> Content]
      /\ bak \in [Numbers -> Content]
  BY Zenon DEF SInv, StorageTypeOK, FileTypes
<1>3. bak[w_backup] = committed[w_path] /\ committed[w_path] # NoFile
  BY Zenon DEF SInv, Moved
<1>4. content' \in [Paths -> Content] /\ bak' \in [Numbers -> Content]
  BY <1>1, <1>2, Contents, Zenon
<1>5. content'[w_path] = committed[w_path]
  BY <1>1, <1>2, <1>3, Zenon
<1>6. \A p \in Paths : p # w_path => content'[p] = content[p]
  BY <1>1, <1>2, Zenon
<1>7. Distinct'
  BY Zenon DEF SInv, Distinct
<1>8. OnlyCommittedVisible'
  BY <1>5, <1>6, Zenon DEF SInv, OnlyCommittedVisible
<1>9. CommittedSurvives'
  <2> SUFFICES ASSUME NEW p \in Paths, committed[p] # NoFile
               PROVE  /\ Whole(committed[p])
                      /\ \/ content'[p] = committed[p]
                         \/ \E n \in Numbers : bak'[n] = committed[p]
    BY Zenon DEF CommittedSurvives
  <2>1. Whole(committed[p]) /\ (content[p] = committed[p] \/ \E n \in Numbers : bak[n] = committed[p])
    BY Zenon DEF SInv, CommittedSurvives
  <2>2. CASE p = w_path
    BY <2>1, <2>2, <1>5, Zenon
  <2>3. CASE p # w_path
    <3>1. committed[p] # committed[w_path]
      BY <1>1, <2>3, Zenon DEF SInv, Distinct
    <3>2. \A n \in Numbers : bak[n] = committed[p] => bak'[n] = committed[p]
      BY <1>2, <1>3, <3>1, Zenon
    <3> QED
      BY <2>1, <2>3, <1>6, <3>2, Zenon
  <2> QED
    BY <2>2, <2>3, Zenon
<1> QED
  BY <1>4, <1>5, <1>6, <1>7, <1>8, <1>9, Zenon

-----------------------------------------------------------------------------
(* One lemma per action. *)

\* The invariant holds before a store is mounted.
LEMMA InitHolds == Init => SInv
<1> SUFFICES ASSUME Init PROVE SInv
  BY Zenon
<1>1. StorageTypeOK
  BY Contents, StorageAssumption
  DEF Init, StorageTypeOK, FileTypes, WriteTypes, CounterTypes, Bit, Numbers, Steps
<1>2. Session /\ Moved /\ ReaderUndisturbed
  BY DEF Init, Session, Moved, ReaderUndisturbed
<1>3. Staged
  BY Contents DEF Init, Staged
<1>4. Distinct /\ Counted /\ OnlyCommittedVisible /\ CommittedSurvives
  BY DEF Init, Distinct, Counted, OnlyCommittedVisible, CommittedSurvives
<1> QED
  BY <1>1, <1>2, <1>3, <1>4, Zenon DEF SInv

\* Mounting unlinks staging files no session uses.
LEMMA MountStep ==
    ASSUME SInv, Mount
    PROVE  SInv'
<1> USE DEF Mount, files, writing, reading, faults
<1>0. /\ FileTypes /\ WriteTypes /\ CounterTypes /\ Session /\ Staged /\ Distinct /\ Moved /\ Counted
      /\ OnlyCommittedVisible /\ CommittedSurvives /\ ReaderUndisturbed
  BY Zenon DEF SInv, StorageTypeOK
<1>1. FileTypes'
  BY <1>0, Contents, Zenon DEF FileTypes, WriteTypes, CounterTypes, Session, Numbers
<1>2. WriteTypes'
  BY <1>0, StorageAssumption, Zenon DEF WriteTypes, CounterTypes, Numbers, Bit, Steps
<1>3. CounterTypes'
  BY <1>0, Contents, StorageAssumption DEF CounterTypes, FileTypes, Numbers, Bit
<1>4. Session'
  BY <1>0, StorageAssumption, Zenon DEF Session, WriteTypes, CounterTypes, Bit, Numbers
<1>5. Staged'
  BY <1>0, Contents DEF Staged, Session, FileTypes, CounterTypes, WriteTypes, Bit, Whole
<1>6. Moved'
  BY <1>0, Zenon DEF Moved, Session, WriteTypes, Bit
<1>7. Counted'
  BY <1>0, Zenon DEF Counted, Moved, Session, CounterTypes, WriteTypes, Bit
<1>8. ReaderUndisturbed'
  BY <1>0, Zenon DEF ReaderUndisturbed, Session, WriteTypes, Bit
<1>9. Distinct' /\ OnlyCommittedVisible' /\ CommittedSurvives'
  BY <1>0, Still, Zenon
<1> QED
  BY <1>1, <1>2, <1>3, <1>4, <1>5, <1>6, <1>7, <1>8, <1>9, Zenon DEF SInv, StorageTypeOK

\* So does a mount that gives up half-way.
LEMMA MountFailsStep ==
    ASSUME SInv, NEW gone \in SUBSET Numbers, MountFails(gone)
    PROVE  SInv'
<1> USE DEF MountFails, Fails, writing, reading
<1>0. /\ FileTypes /\ WriteTypes /\ CounterTypes /\ Session /\ Staged /\ Distinct /\ Moved /\ Counted
      /\ OnlyCommittedVisible /\ CommittedSurvives /\ ReaderUndisturbed
  BY Zenon DEF SInv, StorageTypeOK
<1>1. FileTypes'
  BY <1>0, Contents, Zenon DEF FileTypes, WriteTypes, CounterTypes, Session, Numbers
<1>2. WriteTypes'
  BY <1>0, StorageAssumption, Zenon DEF WriteTypes, CounterTypes, Numbers, Bit, Steps
<1>3. CounterTypes'
  BY <1>0, Contents, StorageAssumption DEF CounterTypes, FileTypes, Numbers, Bit
<1>4. Session'
  BY <1>0, StorageAssumption, Zenon DEF Session, WriteTypes, CounterTypes, Bit, Numbers
<1>5. Staged'
  BY <1>0, Contents DEF Staged, Session, FileTypes, CounterTypes, WriteTypes, Bit, Whole
<1>6. Moved'
  BY <1>0, Zenon DEF Moved, Session, WriteTypes, Bit
<1>7. Counted'
  BY <1>0 DEF Counted, Moved, Session, CounterTypes, WriteTypes, Bit
<1>8. ReaderUndisturbed'
  BY <1>0, Zenon DEF ReaderUndisturbed, Session, WriteTypes, Bit
<1>9. Distinct' /\ OnlyCommittedVisible' /\ CommittedSurvives'
  BY <1>0, Still, Zenon
<1> QED
  BY <1>1, <1>2, <1>3, <1>4, <1>5, <1>6, <1>7, <1>8, <1>9, Zenon DEF SInv, StorageTypeOK

\* Unmounting finds no session open.
LEMMA UnmountStep ==
    ASSUME SInv, Unmount
    PROVE  SInv'
<1> USE DEF Unmount, Idle, files, writing, reading, faults
<1>0. /\ FileTypes /\ WriteTypes /\ CounterTypes /\ Session /\ Staged /\ Distinct /\ Moved /\ Counted
      /\ OnlyCommittedVisible /\ CommittedSurvives /\ ReaderUndisturbed
  BY Zenon DEF SInv, StorageTypeOK
<1>1. FileTypes'
  BY <1>0, Contents, Zenon DEF FileTypes, WriteTypes, CounterTypes, Session, Numbers
<1>2. WriteTypes'
  BY <1>0, StorageAssumption, Zenon DEF WriteTypes, CounterTypes, Numbers, Bit, Steps
<1>3. CounterTypes'
  BY <1>0, Contents, StorageAssumption DEF CounterTypes, FileTypes, Numbers, Bit
<1>4. Session'
  BY <1>0, StorageAssumption, Zenon DEF Session, WriteTypes, CounterTypes, Bit, Numbers
<1>5. Staged'
  BY <1>0, Contents, Zenon DEF Staged, Session, FileTypes, CounterTypes, WriteTypes, Bit, Whole
<1>6. Moved'
  BY <1>0, Zenon DEF Moved, Session, WriteTypes, Bit
<1>7. Counted'
  BY <1>0, Zenon DEF Counted, Moved, Session, CounterTypes, WriteTypes, Bit
<1>8. ReaderUndisturbed'
  BY <1>0, Zenon DEF ReaderUndisturbed, Session, WriteTypes, Bit
<1>9. Distinct' /\ OnlyCommittedVisible' /\ CommittedSurvives'
  BY <1>0, Still, Zenon
<1> QED
  BY <1>1, <1>2, <1>3, <1>4, <1>5, <1>6, <1>7, <1>8, <1>9, Zenon DEF SInv, StorageTypeOK

\* A new session is newer than anything committed.
LEMMA BeginWriteStep ==
    ASSUME SInv, NEW p \in Paths, NEW replace \in BOOLEAN, NEW n \in Numbers,
           BeginWrite(p, replace, n)
    PROVE  SInv'
<1> USE DEF BeginWrite, Idle, Opens, reading, faults
<1>0. /\ FileTypes /\ WriteTypes /\ CounterTypes /\ Session /\ Staged /\ Distinct /\ Moved /\ Counted
      /\ OnlyCommittedVisible /\ CommittedSurvives /\ ReaderUndisturbed
  BY Zenon DEF SInv, StorageTypeOK
<1>1. FileTypes'
  <2>1. [by |-> sessions + 1, written |-> 0] \in Content
    BY <1>0, Contents, StorageAssumption DEF CounterTypes
  <2> QED
    BY <1>0, <2>1, Zenon DEF FileTypes
<1>2. WriteTypes'
  BY <1>0, StorageAssumption DEF WriteTypes, CounterTypes, Numbers, Bit, Steps
<1>3. CounterTypes'
  BY <1>0, Contents, StorageAssumption DEF CounterTypes, FileTypes, Numbers, Bit
<1>4. Session'
  BY <1>0, StorageAssumption DEF Session, WriteTypes, CounterTypes, Bit, Numbers
<1>5. Staged'
  BY <1>0, Contents DEF Staged, Session, FileTypes, CounterTypes, WriteTypes, Bit, Whole
<1>6. Moved'
  BY <1>0 DEF Moved, Session, WriteTypes, Bit
<1>7. Counted'
  BY <1>0 DEF Counted, Moved, Session, CounterTypes, WriteTypes, Bit
<1>8. ReaderUndisturbed'
  BY <1>0, Zenon DEF ReaderUndisturbed, Session, WriteTypes, Bit
<1>9. Distinct' /\ OnlyCommittedVisible' /\ CommittedSurvives'
  BY <1>0, Still, Zenon
<1> QED
  BY <1>1, <1>2, <1>3, <1>4, <1>5, <1>6, <1>7, <1>8, <1>9, Zenon DEF SInv, StorageTypeOK

\* A session that could not be begun leaves at most an empty staging file.
LEMMA BeginWriteFailsStep ==
    ASSUME SInv, NEW n \in Numbers, BeginWriteFails(n)
    PROVE  SInv'
<1> USE DEF BeginWriteFails, Idle, Opens, writing, reading
<1>0. /\ FileTypes /\ WriteTypes /\ CounterTypes /\ Session /\ Staged /\ Distinct /\ Moved /\ Counted
      /\ OnlyCommittedVisible /\ CommittedSurvives /\ ReaderUndisturbed
  BY Zenon DEF SInv, StorageTypeOK
<1>1. FileTypes'
  <2>1. [by |-> sessions + 1, written |-> 0] \in Content
    BY <1>0, Contents, StorageAssumption DEF CounterTypes
  <2> QED
    BY <1>0, <2>1 DEF FileTypes
<1>2. WriteTypes'
  BY <1>0, StorageAssumption, Zenon DEF WriteTypes, CounterTypes, Numbers, Bit, Steps
<1>3. CounterTypes'
  BY <1>0, Contents, StorageAssumption DEF CounterTypes, FileTypes, Numbers, Bit
<1>4. Session'
  BY <1>0, StorageAssumption, Zenon DEF Session, WriteTypes, CounterTypes, Bit, Numbers
<1>5. Staged'
  BY <1>0, Contents DEF Staged, Session, FileTypes, CounterTypes, WriteTypes, Bit, Whole
<1>6. Moved'
  BY <1>0, Zenon DEF Moved, Session, WriteTypes, Bit
<1>7. Counted'
  BY <1>0 DEF Counted, Moved, Session, CounterTypes, WriteTypes, Bit
<1>8. ReaderUndisturbed'
  BY <1>0, Zenon DEF ReaderUndisturbed, Session, WriteTypes, Bit
<1>9. Distinct' /\ OnlyCommittedVisible' /\ CommittedSurvives'
  BY <1>0, Still, Zenon
<1> QED
  BY <1>1, <1>2, <1>3, <1>4, <1>5, <1>6, <1>7, <1>8, <1>9, Zenon DEF SInv, StorageTypeOK

\* Writing touches the staging file of the session only.
LEMMA WriteStep ==
    ASSUME SInv, Write
    PROVE  SInv'
<1> USE DEF Write, writing, reading, faults
<1>0. /\ FileTypes /\ WriteTypes /\ CounterTypes /\ Session /\ Staged /\ Distinct /\ Moved /\ Counted
      /\ OnlyCommittedVisible /\ CommittedSurvives /\ ReaderUndisturbed
  BY Zenon DEF SInv, StorageTypeOK
<1>1. FileTypes'
  <2>1. w_staging \in Numbers
    BY <1>0, Zenon DEF Session
  <2>2. [by |-> tmp[w_staging].by, written |-> tmp[w_staging].written + 1] \in Content
    BY <1>0, <2>1, Contents, StorageAssumption DEF FileTypes
  <2> QED
    BY Zenon, <1>0, <2>2 DEF FileTypes
<1>2. WriteTypes'
  BY <1>0, StorageAssumption, Zenon DEF WriteTypes, CounterTypes, Numbers, Bit, Steps
<1>3. CounterTypes'
  BY <1>0, Contents, StorageAssumption, Zenon DEF CounterTypes, FileTypes, Numbers, Bit
<1>4. Session'
  BY <1>0, StorageAssumption, Zenon DEF Session, WriteTypes, CounterTypes, Bit, Numbers
<1>5. Staged'
  BY <1>0, Contents, Zenon DEF Staged, Session, FileTypes, CounterTypes, WriteTypes, Bit, Whole
<1>6. Moved'
  BY <1>0, Zenon DEF Moved, Session, WriteTypes, Bit
<1>7. Counted'
  BY <1>0, Zenon DEF Counted, Moved, Session, CounterTypes, WriteTypes, Bit
<1>8. ReaderUndisturbed'
  BY <1>0, Zenon DEF ReaderUndisturbed, Session, WriteTypes, Bit
<1>9. Distinct' /\ OnlyCommittedVisible' /\ CommittedSurvives'
  BY <1>0, Still, Zenon
<1> QED
  BY <1>1, <1>2, <1>3, <1>4, <1>5, <1>6, <1>7, <1>8, <1>9, Zenon DEF SInv, StorageTypeOK

\* A reader sees what is at the path when it opens.
LEMMA BeginReadStep ==
    ASSUME SInv, NEW p \in Paths, BeginRead(p)
    PROVE  SInv'
<1> USE DEF BeginRead, Idle, files, writing, faults
<1>0. /\ FileTypes /\ WriteTypes /\ CounterTypes /\ Session /\ Staged /\ Distinct /\ Moved /\ Counted
      /\ OnlyCommittedVisible /\ CommittedSurvives /\ ReaderUndisturbed
  BY Zenon DEF SInv, StorageTypeOK
<1>1. FileTypes'
  BY <1>0, Contents, Zenon DEF FileTypes, WriteTypes, CounterTypes, Session, Numbers
<1>2. WriteTypes'
  BY <1>0, StorageAssumption, Zenon DEF WriteTypes, CounterTypes, Numbers, Bit, Steps
<1>3. CounterTypes'
  BY <1>0, Contents, StorageAssumption, Zenon DEF CounterTypes, FileTypes, Numbers, Bit
<1>4. Session'
  BY <1>0, StorageAssumption DEF Session, WriteTypes, CounterTypes, Bit, Numbers
<1>5. Staged'
  BY <1>0, Contents, Zenon DEF Staged, Session, FileTypes, CounterTypes, WriteTypes, Bit, Whole
<1>6. Moved'
  BY <1>0, Zenon DEF Moved, Session, WriteTypes, Bit
<1>7. Counted'
  BY <1>0, Zenon DEF Counted, Moved, Session, CounterTypes, WriteTypes, Bit
<1>8. ReaderUndisturbed'
  BY <1>0, Zenon DEF ReaderUndisturbed, Session, WriteTypes, Bit
<1>9. Distinct' /\ OnlyCommittedVisible' /\ CommittedSurvives'
  BY <1>0, Still, Zenon
<1> QED
  BY <1>1, <1>2, <1>3, <1>4, <1>5, <1>6, <1>7, <1>8, <1>9, Zenon DEF SInv, StorageTypeOK

\* Closing a reader changes no file.
LEMMA CloseReadStep ==
    ASSUME SInv, CloseRead
    PROVE  SInv'
<1> USE DEF CloseRead, files, writing, faults
<1>0. /\ FileTypes /\ WriteTypes /\ CounterTypes /\ Session /\ Staged /\ Distinct /\ Moved /\ Counted
      /\ OnlyCommittedVisible /\ CommittedSurvives /\ ReaderUndisturbed
  BY Zenon DEF SInv, StorageTypeOK
<1>1. FileTypes'
  BY <1>0, Contents, Zenon DEF FileTypes, WriteTypes, CounterTypes, Session, Numbers
<1>2. WriteTypes'
  BY <1>0, StorageAssumption, Zenon DEF WriteTypes, CounterTypes, Numbers, Bit, Steps
<1>3. CounterTypes'
  BY <1>0, Contents, StorageAssumption, Zenon DEF CounterTypes, FileTypes, Numbers, Bit
<1>4. Session'
  BY <1>0, StorageAssumption, Zenon DEF Session, WriteTypes, CounterTypes, Bit, Numbers
<1>5. Staged'
  BY <1>0, Contents, Zenon DEF Staged, Session, FileTypes, CounterTypes, WriteTypes, Bit, Whole
<1>6. Moved'
  BY <1>0, Zenon DEF Moved, Session, WriteTypes, Bit
<1>7. Counted'
  BY <1>0, Zenon DEF Counted, Moved, Session, CounterTypes, WriteTypes, Bit
<1>8. ReaderUndisturbed'
  BY <1>0, Zenon DEF ReaderUndisturbed, Session, WriteTypes, Bit
<1>9. Distinct' /\ OnlyCommittedVisible' /\ CommittedSurvives'
  BY <1>0, Still, Zenon
<1> QED
  BY <1>1, <1>2, <1>3, <1>4, <1>5, <1>6, <1>7, <1>8, <1>9, Zenon DEF SInv, StorageTypeOK

\* A file that is committed was written to the end.
LEMMA CommitStep ==
    ASSUME SInv, Commit
    PROVE  SInv'
<1> USE DEF Commit, Succeeds, Fails, files, kept, reading
<1>0. /\ FileTypes /\ WriteTypes /\ CounterTypes /\ Session /\ Staged /\ Distinct /\ Moved /\ Counted
      /\ OnlyCommittedVisible /\ CommittedSurvives /\ ReaderUndisturbed
  BY Zenon DEF SInv, StorageTypeOK
<1>1. FileTypes'
  BY <1>0, Contents, Zenon DEF FileTypes, WriteTypes, CounterTypes, Session, Numbers
<1>2. WriteTypes'
  BY <1>0, StorageAssumption DEF WriteTypes, CounterTypes, Numbers, Bit, Steps
<1>3. CounterTypes'
  BY <1>0, Contents, StorageAssumption DEF CounterTypes, FileTypes, Numbers, Bit
<1>4. Session'
  BY <1>0, StorageAssumption DEF Session, WriteTypes, CounterTypes, Bit, Numbers
<1>5. Staged'
  BY <1>0, Contents, Zenon DEF Staged, Session, FileTypes, CounterTypes, WriteTypes, Bit, Whole
<1>6. Moved'
  BY <1>0, Zenon DEF Moved, Staged, Session, WriteTypes, Bit
<1>7. Counted'
  BY <1>0 DEF Counted, Moved, Session, CounterTypes, WriteTypes, Bit
<1>8. ReaderUndisturbed'
  BY <1>0, Zenon DEF ReaderUndisturbed, Session, WriteTypes, Bit
<1>9. Distinct' /\ OnlyCommittedVisible' /\ CommittedSurvives'
  BY <1>0, Still, Zenon
<1> QED
  BY <1>1, <1>2, <1>3, <1>4, <1>5, <1>6, <1>7, <1>8, <1>9, Zenon DEF SInv, StorageTypeOK

\* The target is under its backup name before the path is free.
LEMMA BackupStep ==
    ASSUME SInv, Backup
    PROVE  SInv'
<1> USE DEF Backup, Succeeds, Fails, kept, reading
<1>0. /\ FileTypes /\ WriteTypes /\ CounterTypes /\ Session /\ Staged /\ Distinct /\ Moved /\ Counted
      /\ OnlyCommittedVisible /\ CommittedSurvives /\ ReaderUndisturbed
  BY Zenon DEF SInv, StorageTypeOK
<1>a. /\ w_active = 1 /\ w_path \in Paths /\ sequence \in Numbers /\ r_path = NoPath
      /\ w_moved = 0
  BY <1>0 DEF Session, WriteTypes, CounterTypes, Bit
<1>b. content[w_path] = committed[w_path] /\ content[w_path] # NoFile
  BY <1>0, <1>a, Zenon DEF Session, Staged, OnlyCommittedVisible
<1>c. \/ /\ bak[sequence] = NoFile /\ w_moved' = 1 /\ w_backup' = sequence /\ step' = "install"
         /\ bak' = [bak EXCEPT ![sequence] = committed[w_path]]
         /\ content' = [content EXCEPT ![w_path] = NoFile]
      \/ step' = "discard" /\ UNCHANGED <<content, bak, w_moved>>
  BY <1>b, Zenon
<1>1. FileTypes'
  BY <1>0, <1>a, <1>c, Contents, Zenon DEF FileTypes
<1>2. WriteTypes'
  BY <1>0, StorageAssumption DEF WriteTypes, CounterTypes, Numbers, Bit, Steps
<1>3. CounterTypes'
  BY <1>0, Contents, StorageAssumption DEF CounterTypes, FileTypes, Numbers, Bit
<1>4. Session'
  BY <1>0, StorageAssumption, Zenon DEF Session, WriteTypes, CounterTypes, Bit, Numbers
<1>5. Staged'
  BY <1>0, Contents, Zenon DEF Staged, Session, FileTypes, CounterTypes, WriteTypes, Bit, Whole
<1>6. Moved'
  BY <1>0, <1>a, <1>b, <1>c, Zenon DEF FileTypes, Moved
<1>7. Counted'
  BY SMTT(30), <1>0, <1>a, <1>c DEF FileTypes, CounterTypes, Counted
<1>8. ReaderUndisturbed'
  BY <1>a, Zenon DEF ReaderUndisturbed
<1>9. Distinct' /\ OnlyCommittedVisible' /\ CommittedSurvives'
  <2>1. CASE UNCHANGED <<content, bak>>
    BY <1>0, <2>1, Still, Zenon
  <2>2. CASE /\ bak[sequence] = NoFile
             /\ bak' = [bak EXCEPT ![sequence] = committed[w_path]]
             /\ content' = [content EXCEPT ![w_path] = NoFile]
    <3>1. Distinct' /\ OnlyCommittedVisible'
      BY <1>0, <1>a, <2>2, Zenon DEF FileTypes, Distinct, OnlyCommittedVisible
    <3>2. ASSUME NEW p \in Paths, committed[p] # NoFile
          PROVE  /\ Whole(committed[p])
                 /\ \/ content'[p] = committed[p]
                    \/ \E n \in Numbers : bak'[n] = committed[p]
      <4>1. /\ Whole(committed[p])
            /\ content[p] = committed[p] \/ \E n \in Numbers : bak[n] = committed[p]
        BY <1>0, <3>2, Zenon DEF CommittedSurvives
      <4>2. \A n \in Numbers : bak[n] = committed[p] => bak'[n] = committed[p]
        BY <1>0, <1>a, <2>2, <3>2, Zenon DEF FileTypes
      <4>3. p # w_path => content'[p] = content[p]
        BY <1>0, <2>2, Zenon DEF FileTypes
      <4>4. bak'[sequence] = committed[w_path]
        BY <1>0, <1>a, <2>2, Zenon DEF FileTypes
      <4> QED
        BY <1>a, <4>1, <4>2, <4>3, <4>4, Zenon
    <3> QED
      BY <3>1, <3>2, Zenon DEF CommittedSurvives
  <2> QED
    BY <1>c, <2>1, <2>2, Zenon
<1> QED
  BY <1>1, <1>2, <1>3, <1>4, <1>5, <1>6, <1>7, <1>8, <1>9, Zenon DEF SInv, StorageTypeOK

\* The staged file is whole and takes the path; the backup is then an old file.
LEMMA InstallStep ==
    ASSUME SInv, Install
    PROVE  SInv'
<1> USE DEF Install, Succeeds, Fails, ResetWrite, writing, kept, reading
<1>0. /\ FileTypes /\ WriteTypes /\ CounterTypes /\ Session /\ Staged /\ Distinct /\ Moved /\ Counted
      /\ OnlyCommittedVisible /\ CommittedSurvives /\ ReaderUndisturbed
  BY Zenon DEF SInv, StorageTypeOK
<1> DEFINE f == tmp[w_staging]
<1>a. /\ w_active = 1 /\ w_path \in Paths /\ w_staging \in Numbers /\ r_path = NoPath
      /\ w_moved = 1 => w_backup \in Numbers
  BY <1>0 DEF Session, WriteTypes, Bit
<1>b. /\ f \in Content /\ f # NoFile /\ Whole(f) /\ f.by = sessions
      /\ \A p \in Paths : committed[p].by < sessions /\ committed[p] # f
  BY <1>0, <1>a, Contents DEF Staged, FileTypes, CounterTypes
<1>c. \/ /\ content' = [content EXCEPT ![w_path] = f]
         /\ tmp' = [tmp EXCEPT ![w_staging] = NoFile]
         /\ committed' = [committed EXCEPT ![w_path] = f]
         /\ \/ w_moved = 1 /\ step' = "unlink_backup" /\ UNCHANGED writing
            \/ w_moved # 1 /\ step' = "none" /\ w_moved' = 0 /\ w_fd' = 0
      \/ /\ failures' = failures + 1 /\ step' \in {"rollback", "unlink_staging"}
         /\ step' = "unlink_staging" => w_moved # 1
         /\ UNCHANGED <<content, tmp, committed, writing>>
  BY Zenon
<1> HIDE DEF f
<1>1. FileTypes'
  BY SMTT(30), <1>0, <1>a, <1>b, <1>c, Contents DEF FileTypes
<1>2. WriteTypes'
  BY <1>0, StorageAssumption DEF WriteTypes, CounterTypes, Numbers, Bit, Steps
<1>3. CounterTypes'
  BY <1>0, Contents, StorageAssumption DEF CounterTypes, FileTypes, Numbers, Bit
<1>4. Session'
  BY <1>0, StorageAssumption DEF Session, WriteTypes, CounterTypes, Bit, Numbers
<1>5. Staged'
  <2>1. \A p \in Paths : committed'[p].by <= sessions
    BY <1>0, <1>a, <1>b, <1>c, Contents DEF FileTypes, CounterTypes, Staged
  <2>2. w_fd' = 0 /\ step' \notin {"backup", "install"}
    BY <1>0, <1>c DEF Session, WriteTypes, Bit
  <2> QED
    BY <2>1, <2>2 DEF Staged
<1>6. Moved'
  <2>1. CASE w_moved = 1 /\ step' = "unlink_backup" /\ UNCHANGED writing
             /\ content' = [content EXCEPT ![w_path] = f]
             /\ committed' = [committed EXCEPT ![w_path] = f]
    <3>1. bak[w_backup] = committed[w_path] /\ committed[w_path] # NoFile
      BY <1>0, <2>1, Zenon DEF Moved
    <3>2. \A p \in Paths : p # w_path => committed[p] # committed[w_path]
      BY <1>0, <1>a, <3>1, Zenon DEF Distinct
    <3>3. \A p \in Paths : committed'[p] # bak[w_backup]
      BY <1>0, <1>a, <1>b, <2>1, <3>1, <3>2, Zenon DEF FileTypes
    <3>4. content'[w_path] = f /\ committed'[w_path] = f
      BY <1>0, <1>a, <2>1, Zenon DEF FileTypes
    <3> QED
      BY <1>b, <2>1, <3>3, <3>4, Zenon DEF Moved
  <2>2. CASE step' = "none" /\ w_moved' = 0
    BY <2>2 DEF Moved
  <2>3. CASE /\ step' \in {"rollback", "unlink_staging"}
             /\ step' = "unlink_staging" => w_moved # 1
             /\ UNCHANGED <<content, tmp, committed, writing>>
    BY <1>0, <2>3, Zenon DEF Moved
  <2> QED
    BY <1>c, <2>1, <2>2, <2>3, Zenon
<1>7. Counted'
  <2>1. CASE /\ content' = [content EXCEPT ![w_path] = f]
             /\ committed' = [committed EXCEPT ![w_path] = f]
             /\ step' = "unlink_backup" \/ w_moved' = 0
             /\ step' \in {"unlink_backup", "none"}
    <3>1. failures' = failures
      BY <1>a, <1>b, <2>1, <1>0, Zenon DEF FileTypes
    <3>2. content'[w_path] = committed'[w_path]
      BY <1>0, <1>a, <2>1, Zenon DEF FileTypes
    <3>3. \A p \in Paths : p # w_path => content'[p] = content[p] /\ committed'[p] = committed[p]
      BY <1>0, <2>1, Zenon DEF FileTypes
    <3> QED
      BY <1>0, <2>1, <3>1, <3>2, <3>3 DEF Counted
  <2>2. CASE /\ failures' = failures + 1 /\ step' \in {"rollback", "unlink_staging"}
             /\ UNCHANGED <<content, tmp, committed, writing>>
    BY <1>0, <2>2 DEF Counted, CounterTypes
  <2> QED
    BY <1>c, <2>1, <2>2, Zenon
<1>8. ReaderUndisturbed'
  BY <1>a, Zenon DEF ReaderUndisturbed
<1>9. Distinct' /\ OnlyCommittedVisible' /\ CommittedSurvives'
  <2>1. CASE UNCHANGED <<content, committed>>
    BY <1>0, <2>1, Still, Zenon
  <2>2. CASE /\ content' = [content EXCEPT ![w_path] = f]
             /\ committed' = [committed EXCEPT ![w_path] = f]
    <3>1. content'[w_path] = f /\ committed'[w_path] = f
      BY <1>0, <1>a, <2>2, Zenon DEF FileTypes
    <3>2. \A p \in Paths : p # w_path => content'[p] = content[p] /\ committed'[p] = committed[p]
      BY <1>0, <2>2, Zenon DEF FileTypes
    <3>3. Distinct'
      BY <1>0, <1>b, <3>1, <3>2 DEF Distinct
    <3>4. OnlyCommittedVisible'
      BY <1>0, <3>1, <3>2, Zenon DEF OnlyCommittedVisible
    <3>5. CommittedSurvives'
      BY <1>0, <1>b, <3>1, <3>2, Zenon DEF CommittedSurvives
    <3> QED
      BY <3>3, <3>4, <3>5, Zenon
  <2> QED
    BY <1>c, <2>1, <2>2, Zenon
<1> QED
  BY <1>1, <1>2, <1>3, <1>4, <1>5, <1>6, <1>7, <1>8, <1>9, Zenon DEF SInv, StorageTypeOK

\* The backup comes back, or the session stays open with it.
LEMMA RollbackStep ==
    ASSUME SInv, Rollback
    PROVE  SInv'
<1> USE DEF Rollback, Succeeds, Fails, writing, kept, reading
<1>0. /\ FileTypes /\ WriteTypes /\ CounterTypes /\ Session /\ Staged /\ Distinct /\ Moved /\ Counted
      /\ OnlyCommittedVisible /\ CommittedSurvives /\ ReaderUndisturbed
  BY Zenon DEF SInv, StorageTypeOK
<1>a. w_active = 1 /\ w_path \in Paths /\ r_path = NoPath /\ w_moved = 1
  BY <1>0 DEF Session, WriteTypes, Bit
<1>b. \/ /\ content' \in [Paths -> Content] /\ bak' \in [Numbers -> Content]
         /\ content'[w_path] = committed[w_path]
         /\ \A p \in Paths : p # w_path => content'[p] = content[p]
         /\ Distinct' /\ OnlyCommittedVisible' /\ CommittedSurvives'
         /\ UNCHANGED failures /\ step' = "unlink_staging"
      \/ failures' = failures + 1 /\ UNCHANGED <<content, bak>> /\ step' = "none"
  BY <1>a, MoveBack, Zenon
<1>1. FileTypes'
  BY <1>0, <1>b, Zenon DEF FileTypes
<1>2. WriteTypes'
  BY <1>0, StorageAssumption, Zenon DEF WriteTypes, CounterTypes, Numbers, Bit, Steps
<1>3. CounterTypes'
  BY <1>0, Contents, StorageAssumption DEF CounterTypes, FileTypes, Numbers, Bit
<1>4. Session'
  BY <1>0, StorageAssumption, Zenon DEF Session, WriteTypes, CounterTypes, Bit, Numbers
<1>5. Staged'
  BY <1>0, Contents, Zenon DEF Staged, Session, FileTypes, CounterTypes, WriteTypes, Bit, Whole
<1>6. Moved'
  BY <1>0, <1>b, Zenon DEF Moved
<1>7. Counted'
  BY <1>0, <1>a, <1>b DEF Counted, CounterTypes
<1>8. ReaderUndisturbed'
  BY <1>a, Zenon DEF ReaderUndisturbed
<1>9. Distinct' /\ OnlyCommittedVisible' /\ CommittedSurvives'
  BY <1>0, <1>b, Still, Zenon
<1> QED
  BY <1>1, <1>2, <1>3, <1>4, <1>5, <1>6, <1>7, <1>8, <1>9, Zenon DEF SInv, StorageTypeOK

\* The backup that is unlinked is committed nowhere.
LEMMA UnlinkBackupStep ==
    ASSUME SInv, UnlinkBackup
    PROVE  SInv'
<1> USE DEF UnlinkBackup, Succeeds, Fails, ResetWrite, kept, reading
<1>0. /\ FileTypes /\ WriteTypes /\ CounterTypes /\ Session /\ Staged /\ Distinct /\ Moved /\ Counted
      /\ OnlyCommittedVisible /\ CommittedSurvives /\ ReaderUndisturbed
  BY Zenon DEF SInv, StorageTypeOK
<1>1. FileTypes'
  BY <1>0, Contents DEF FileTypes, WriteTypes, CounterTypes, Session, Numbers
<1>2. WriteTypes'
  BY <1>0, StorageAssumption DEF WriteTypes, CounterTypes, Numbers, Bit, Steps
<1>3. CounterTypes'
  BY <1>0, Contents, StorageAssumption DEF CounterTypes, FileTypes, Numbers, Bit
<1>4. Session'
  BY <1>0, StorageAssumption DEF Session, WriteTypes, CounterTypes, Bit, Numbers
<1>5. Staged'
  BY SMTT(30), <1>0, Contents DEF Staged, Session, FileTypes, CounterTypes, WriteTypes, Bit, Whole
<1>6. Moved'
  BY <1>0 DEF Moved, Session, WriteTypes, Bit
<1>7. Counted'
  BY <1>0 DEF Counted, Moved, Session, CounterTypes, WriteTypes, Bit
<1>8. ReaderUndisturbed'
  BY <1>0, Zenon DEF ReaderUndisturbed, Session, WriteTypes, Bit
<1>9. Distinct' /\ OnlyCommittedVisible' /\ CommittedSurvives'
  <2>1. w_backup \in Numbers /\ \A p \in Paths : bak[w_backup] # committed[p]
    BY <1>0, Zenon DEF Session, Moved
  <2>2. CommittedSurvives'
    <3>1. \A p \in Paths, n \in Numbers : bak[n] = committed[p] => bak'[n] = committed[p]
      BY <1>0, <2>1, Zenon DEF FileTypes
    <3> QED
      BY <1>0, <3>1, Zenon DEF CommittedSurvives
  <2> QED
    BY <1>0, <2>2, Zenon DEF Distinct, OnlyCommittedVisible
<1> QED
  BY <1>1, <1>2, <1>3, <1>4, <1>5, <1>6, <1>7, <1>8, <1>9, Zenon DEF SInv, StorageTypeOK

\* A failed commit ends with the target where it was.
LEMMA UnlinkStagingStep ==
    ASSUME SInv, UnlinkStaging
    PROVE  SInv'
<1> USE DEF UnlinkStaging, Succeeds, Fails, ResetWrite, kept, reading
<1>0. /\ FileTypes /\ WriteTypes /\ CounterTypes /\ Session /\ Staged /\ Distinct /\ Moved /\ Counted
      /\ OnlyCommittedVisible /\ CommittedSurvives /\ ReaderUndisturbed
  BY Zenon DEF SInv, StorageTypeOK
<1>1. FileTypes'
  BY <1>0, Contents DEF FileTypes, WriteTypes, CounterTypes, Session, Numbers
<1>2. WriteTypes'
  BY <1>0, StorageAssumption DEF WriteTypes, CounterTypes, Numbers, Bit, Steps
<1>3. CounterTypes'
  BY <1>0, Contents, StorageAssumption DEF CounterTypes, FileTypes, Numbers, Bit
<1>4. Session'
  BY <1>0, StorageAssumption DEF Session, WriteTypes, CounterTypes, Bit, Numbers
<1>5. Staged'
  BY SMTT(30), <1>0, Contents DEF Staged, Session, FileTypes, CounterTypes, WriteTypes, Bit, Whole
<1>6. Moved'
  BY <1>0 DEF Moved, Session, WriteTypes, Bit
<1>7. Counted'
  BY <1>0 DEF Counted, Moved, Session, CounterTypes, WriteTypes, Bit
<1>8. ReaderUndisturbed'
  BY <1>0, Zenon DEF ReaderUndisturbed, Session, WriteTypes, Bit
<1>9. Distinct' /\ OnlyCommittedVisible' /\ CommittedSurvives'
  BY <1>0, Still, Zenon
<1> QED
  BY <1>1, <1>2, <1>3, <1>4, <1>5, <1>6, <1>7, <1>8, <1>9, Zenon DEF SInv, StorageTypeOK

\* Abort starts with the staging file.
LEMMA AbortStep ==
    ASSUME SInv, Abort
    PROVE  SInv'
<1> USE DEF Abort, files, kept, reading
<1>0. /\ FileTypes /\ WriteTypes /\ CounterTypes /\ Session /\ Staged /\ Distinct /\ Moved /\ Counted
      /\ OnlyCommittedVisible /\ CommittedSurvives /\ ReaderUndisturbed
  BY Zenon DEF SInv, StorageTypeOK
<1>1. FileTypes'
  BY <1>0, Contents, Zenon DEF FileTypes, WriteTypes, CounterTypes, Session, Numbers
<1>2. WriteTypes'
  BY <1>0, StorageAssumption DEF WriteTypes, CounterTypes, Numbers, Bit, Steps
<1>3. CounterTypes'
  BY <1>0, Contents, StorageAssumption, Zenon DEF CounterTypes, FileTypes, Numbers, Bit
<1>4. Session'
  BY <1>0, StorageAssumption DEF Session, WriteTypes, CounterTypes, Bit, Numbers
<1>5. Staged'
  BY <1>0, Contents, Zenon DEF Staged, Session, FileTypes, CounterTypes, WriteTypes, Bit, Whole
<1>6. Moved'
  BY <1>0, Zenon DEF Moved, Session, WriteTypes, Bit
<1>7. Counted'
  BY <1>0, Zenon DEF Counted, Moved, Session, CounterTypes, WriteTypes, Bit
<1>8. ReaderUndisturbed'
  BY <1>0, Zenon DEF ReaderUndisturbed, Session, WriteTypes, Bit
<1>9. Distinct' /\ OnlyCommittedVisible' /\ CommittedSurvives'
  BY <1>0, Still, Zenon
<1> QED
  BY <1>1, <1>2, <1>3, <1>4, <1>5, <1>6, <1>7, <1>8, <1>9, Zenon DEF SInv, StorageTypeOK

\* An abort that finds the target moved goes on to restore it.
LEMMA DiscardStep ==
    ASSUME SInv, Discard
    PROVE  SInv'
<1> USE DEF Discard, Succeeds, Fails, ResetWrite, writing, kept, reading
<1>0. /\ FileTypes /\ WriteTypes /\ CounterTypes /\ Session /\ Staged /\ Distinct /\ Moved /\ Counted
      /\ OnlyCommittedVisible /\ CommittedSurvives /\ ReaderUndisturbed
  BY Zenon DEF SInv, StorageTypeOK
<1>1. FileTypes'
  BY <1>0, Contents DEF FileTypes, WriteTypes, CounterTypes, Session, Numbers
<1>2. WriteTypes'
  BY <1>0, StorageAssumption DEF WriteTypes, CounterTypes, Numbers, Bit, Steps
<1>3. CounterTypes'
  BY <1>0, Contents, StorageAssumption DEF CounterTypes, FileTypes, Numbers, Bit
<1>4. Session'
  BY <1>0, StorageAssumption DEF Session, WriteTypes, CounterTypes, Bit, Numbers
<1>5. Staged'
  BY SMTT(30), <1>0, Contents DEF Staged, Session, FileTypes, CounterTypes, WriteTypes, Bit, Whole
<1>6. Moved'
  BY <1>0 DEF Moved, Session, WriteTypes, Bit
<1>7. Counted'
  BY <1>0 DEF Counted, Moved, Session, CounterTypes, WriteTypes, Bit
<1>8. ReaderUndisturbed'
  BY <1>0, Zenon DEF ReaderUndisturbed, Session, WriteTypes, Bit
<1>9. Distinct' /\ OnlyCommittedVisible' /\ CommittedSurvives'
  BY <1>0, Still, Zenon
<1> QED
  BY <1>1, <1>2, <1>3, <1>4, <1>5, <1>6, <1>7, <1>8, <1>9, Zenon DEF SInv, StorageTypeOK

\* The target comes back, or stays under its backup name.
LEMMA RestoreStep ==
    ASSUME SInv, Restore
    PROVE  SInv'
<1> USE DEF Restore, Succeeds, Fails, ResetWrite, kept, reading
<1>0. /\ FileTypes /\ WriteTypes /\ CounterTypes /\ Session /\ Staged /\ Distinct /\ Moved /\ Counted
      /\ OnlyCommittedVisible /\ CommittedSurvives /\ ReaderUndisturbed
  BY Zenon DEF SInv, StorageTypeOK
<1>a. w_active = 1 /\ w_path \in Paths /\ r_path = NoPath /\ w_moved = 1
  BY <1>0 DEF Session, WriteTypes, Bit
<1>b. \/ /\ content' \in [Paths -> Content] /\ bak' \in [Numbers -> Content]
         /\ content'[w_path] = committed[w_path]
         /\ \A p \in Paths : p # w_path => content'[p] = content[p]
         /\ Distinct' /\ OnlyCommittedVisible' /\ CommittedSurvives'
         /\ UNCHANGED failures
      \/ failures' = failures + 1 /\ UNCHANGED <<content, bak>>
  BY <1>a, MoveBack, Zenon
<1>1. FileTypes'
  BY <1>0, <1>b, Zenon DEF FileTypes
<1>2. WriteTypes'
  BY <1>0, StorageAssumption DEF WriteTypes, CounterTypes, Numbers, Bit, Steps
<1>3. CounterTypes'
  BY <1>0, Contents, StorageAssumption DEF CounterTypes, FileTypes, Numbers, Bit
<1>4. Session'
  BY <1>0, StorageAssumption DEF Session, WriteTypes, CounterTypes, Bit, Numbers
<1>5. Staged'
  BY SMTT(30), <1>0, Contents DEF Staged, Session, FileTypes, CounterTypes, WriteTypes, Bit, Whole
<1>6. Moved'
  BY SMTT(30), <1>0 DEF Moved, Session, WriteTypes, Bit
<1>7. Counted'
  BY <1>0, <1>a, <1>b DEF Counted, CounterTypes
<1>8. ReaderUndisturbed'
  BY <1>a, Zenon DEF ReaderUndisturbed
<1>9. Distinct' /\ OnlyCommittedVisible' /\ CommittedSurvives'
  BY <1>0, <1>b, Still, Zenon
<1> QED
  BY <1>1, <1>2, <1>3, <1>4, <1>5, <1>6, <1>7, <1>8, <1>9, Zenon DEF SInv, StorageTypeOK

\* A reset keeps the files and forgets the session.
LEMMA ResetStep ==
    ASSUME SInv, Reset
    PROVE  SInv'
<1> USE DEF Reset, ResetWrite, files
<1>0. /\ FileTypes /\ WriteTypes /\ CounterTypes /\ Session /\ Staged /\ Distinct /\ Moved /\ Counted
      /\ OnlyCommittedVisible /\ CommittedSurvives /\ ReaderUndisturbed
  BY Zenon DEF SInv, StorageTypeOK
<1>1. FileTypes'
  BY <1>0, Contents, Zenon DEF FileTypes, WriteTypes, CounterTypes, Session, Numbers
<1>2. WriteTypes'
  BY <1>0, StorageAssumption DEF WriteTypes, CounterTypes, Numbers, Bit, Steps
<1>3. CounterTypes'
  BY <1>0, Contents, StorageAssumption DEF CounterTypes, FileTypes, Numbers, Bit
<1>4. Session'
  BY <1>0, StorageAssumption DEF Session, WriteTypes, CounterTypes, Bit, Numbers
<1>5. Staged'
  BY <1>0, Contents DEF Staged, Session, FileTypes, CounterTypes, WriteTypes, Bit, Whole
<1>6. Moved'
  BY <1>0 DEF Moved, Session, WriteTypes, Bit
<1>7. Counted'
  BY <1>0 DEF Counted, Moved, Session, CounterTypes, WriteTypes, Bit
<1>8. ReaderUndisturbed'
  BY <1>0, Zenon DEF ReaderUndisturbed, Session, WriteTypes, Bit
<1>9. Distinct' /\ OnlyCommittedVisible' /\ CommittedSurvives'
  BY <1>0, Still, Zenon
<1> QED
  BY <1>1, <1>2, <1>3, <1>4, <1>5, <1>6, <1>7, <1>8, <1>9, Zenon DEF SInv, StorageTypeOK

\* The invariant speaks of no variable outside vars.
LEMMA StutterStep ==
    ASSUME SInv, UNCHANGED vars
    PROVE  SInv'
<1> USE DEF vars, files, writing, reading, faults
<1>1. StorageTypeOK' /\ Session' /\ Staged'
  BY SMTT(30) DEF SInv, StorageTypeOK, FileTypes, WriteTypes, CounterTypes, Session, Staged
<1>2. Distinct' /\ Moved' /\ Counted'
  BY Zenon DEF SInv, Distinct, Moved, Counted
<1>3. OnlyCommittedVisible' /\ CommittedSurvives' /\ ReaderUndisturbed'
  BY Zenon DEF SInv, OnlyCommittedVisible, CommittedSurvives, ReaderUndisturbed
<1> QED
  BY <1>1, <1>2, <1>3, Zenon DEF SInv

-----------------------------------------------------------------------------
(* Theorems *)

\* The invariant always holds.
LEMMA Invariance == Spec => []SInv
<1>1. SInv /\ [Next]_vars => SInv'
  BY StutterStep, MountStep, MountFailsStep, UnmountStep, BeginWriteStep, BeginWriteFailsStep,
     WriteStep, BeginReadStep, CloseReadStep, CommitStep, BackupStep, InstallStep,
     RollbackStep, UnlinkBackupStep, UnlinkStagingStep, AbortStep, DiscardStep,
     RestoreStep, ResetStep, Zenon
  DEF Next
<1> QED
  BY <1>1, InitHolds, PTL DEF Spec

\* Contexts and names stay in their types, whatever fails.
THEOREM StorageTypes == Spec => []StorageTypeOK
BY Invariance, PTL DEF SInv

\* storage_fatfs shows no file that was not committed whole at that path.
THEOREM VisibleIsCommitted == Spec => []OnlyCommittedVisible
BY Invariance, PTL DEF SInv

\* No reset between any two system calls of storage_fatfs, and no number of
\* failing calls, destroys a committed file.
THEOREM CommittedIsKept == Spec => []CommittedSurvives
BY Invariance, PTL DEF SInv

\* With fewer than three failing calls and no reset between the renames, every
\* committed file is at its path whenever no session is open.
THEOREM TargetPreserved == Spec => []AbortPreserves
<1>1. SInv => AbortPreserves
  BY DEF SInv, Session, Counted, AbortPreserves, Idle
<1> QED
  BY <1>1, Invariance, PTL

\* The exclusion between read and write sessions keeps a reader's file as it is.
THEOREM ReadersAreSafe == Spec => []ReaderUndisturbed
BY Invariance, PTL DEF SInv

-----------------------------------------------------------------------------
(* The store implements AtomicStore. *)

\* Calls that move no file of the root and open or close no write session are
\* invisible to the abstract store.
LEMMA Unseen ==
    ASSUME UNCHANGED <<content, bak, w_active, w_path, w_moved, w_backup>>,
           step' = "unlink_backup" <=> step = "unlink_backup"
    PROVE  UNCHANGED Store!vars
<1>1. VisibleFile' = VisibleFile
  BY Zenon DEF VisibleFile
<1>2. OpenPath' = OpenPath
  BY Zenon DEF OpenPath
<1> QED
  BY <1>1, <1>2, Zenon DEF Store!vars

\* A target that is moved aside shows what was committed at its path.
LEMMA View ==
    ASSUME SInv
    PROVE  /\ DOMAIN VisibleFile = Paths
           /\ \A p \in Paths : VisibleFile[p] =
                IF w_moved = 1 /\ p = w_path THEN committed[p] ELSE content[p]
           /\ VisibleFile = [p \in Paths |-> VisibleFile[p]]
<1>1. ASSUME NEW p \in Paths
      PROVE  VisibleFile[p] = IF w_moved = 1 /\ p = w_path THEN committed[p] ELSE content[p]
  <2>1. VisibleFile[p] = IF p = w_path /\ w_moved = 1 /\ content[p] = NoFile
                         THEN bak[w_backup] ELSE content[p]
    BY Zenon DEF VisibleFile
  <2>2. CASE p = w_path /\ w_moved = 1
    BY <2>1, <2>2, Zenon DEF SInv, Moved
  <2>3. CASE ~(p = w_path /\ w_moved = 1)
    BY <2>1, <2>3, Zenon
  <2> QED
    BY <2>2, <2>3, Zenon
<1>2. DOMAIN VisibleFile = Paths /\ VisibleFile = [p \in Paths |-> VisibleFile[p]]
  BY Zenon DEF VisibleFile
<1> QED
  BY <1>1, <1>2, Zenon

\* begin_write_impl opens a session and shows nothing new.
LEMMA BeginsAbstractly ==
    ASSUME SInv, NEW p \in Paths, NEW replace \in BOOLEAN, NEW n \in Numbers,
           BeginWrite(p, replace, n)
    PROVE  Store!BeginWrite(p)
<1> USE DEF BeginWrite, Idle
<1>1. VisibleFile' = VisibleFile
  BY DEF VisibleFile, SInv, Session
<1>2. OpenPath = NoPath /\ OpenPath' = p
  BY SMTT(30) DEF OpenPath, SInv, Session
<1> QED
  BY <1>1, <1>2, Zenon DEF Store!BeginWrite

\* The first rename hides the target from nobody but a reset.
LEMMA BackupUnseen ==
    ASSUME SInv, Backup
    PROVE  UNCHANGED Store!vars
<1> USE DEF Backup, kept
<1>1. w_active = 1 /\ w_path \in Paths /\ w_moved = 0 /\ sequence \in Numbers
  BY DEF SInv, Session, StorageTypeOK, WriteTypes, CounterTypes, Bit
<1>2. content \in [Paths -> Content] /\ bak \in [Numbers -> Content]
  BY Zenon DEF SInv, StorageTypeOK, FileTypes
<1>3. VisibleFile' = VisibleFile
  <2>1. CASE step' = "install"
    <3>1. /\ content' = [content EXCEPT ![w_path] = NoFile] /\ w_path' = w_path /\ w_moved' = 1
          /\ bak' = [bak EXCEPT ![sequence] = content[w_path]] /\ w_backup' = sequence
      BY <2>1, Zenon
    <3>2. bak'[w_backup'] = content[w_path] /\ content'[w_path] = NoFile
      BY <3>1, <1>1, <1>2, Zenon
    <3>3. \A p \in Paths : p # w_path => content'[p] = content[p]
      BY <3>1, <1>2, Zenon
    <3> QED
      BY SMTT(30), <3>1, <3>2, <3>3, <1>1 DEF VisibleFile
  <2>2. CASE step' # "install"
    BY SMTT(30), <2>2, <1>1 DEF VisibleFile
  <2> QED
    BY ZenonT(30), <2>1, <2>2
<1>4. OpenPath' = OpenPath
  BY <1>1, Zenon DEF OpenPath
<1> QED
  BY <1>3, <1>4, Zenon DEF Store!vars

\* The second rename is the commit.
LEMMA InstallCommits ==
    ASSUME SInv, SInv', Install
    PROVE  Store!Commit \/ UNCHANGED Store!vars
<1> USE DEF Install, kept, Succeeds
<1>1. w_active = 1 /\ w_path \in Paths /\ w_staging \in Numbers
  BY DEF SInv, Session, StorageTypeOK, WriteTypes, Bit
<1>2. content \in [Paths -> Content] /\ tmp \in [Numbers -> Content]
  BY Zenon DEF SInv, StorageTypeOK, FileTypes
<1>3. CASE failures' = failures /\ content' = [content EXCEPT ![w_path] = tmp[w_staging]]
           /\ committed' = [committed EXCEPT ![w_path] = tmp[w_staging]]
           /\ IF w_moved = 1 THEN step' = "unlink_backup" /\ UNCHANGED writing ELSE ResetWrite
  <2>1. Whole(tmp[w_staging]) /\ tmp[w_staging] # NoFile
    BY <1>1, <1>2, Contents, Zenon DEF SInv, Staged
  <2>2. /\ tmp[w_staging] \in [by : Nat, written : {Size}]
    BY <2>1, <1>1, <1>2, Zenon DEF Whole, Content
  <2>3. \A p \in Paths : VisibleFile'[p] = IF p = w_path THEN tmp[w_staging] ELSE VisibleFile[p]
    <3>1. \A p \in Paths : content'[p] = IF p = w_path THEN tmp[w_staging] ELSE content[p]
      BY <1>2, <1>3, Zenon
    <3>2. w_moved' = 1 => w_path' = w_path
      BY SMTT(30), <1>3 DEF writing, ResetWrite
    <3>3. content'[w_path] # NoFile
      BY <1>1, <3>1, <2>1, Zenon
    <3> QED
      BY <3>1, <3>2, <3>3, Zenon DEF VisibleFile
  <2>4. VisibleFile' = [p \in Paths |-> VisibleFile'[p]]
    BY Zenon DEF VisibleFile
  <2>5. OpenPath = w_path
    BY <1>1, Zenon DEF OpenPath
  <2>6. OpenPath' = NoPath
    BY <1>3, Zenon DEF OpenPath, ResetWrite
  <2>7. VisibleFile'[w_path] = tmp[w_staging]
    BY <2>3, <1>1, Zenon
  <2> HIDE DEF Install
  <2>8. VisibleFile' = Store!Holding(w_path, VisibleFile'[w_path])
    BY <2>3, <2>4, <2>7, Zenon DEF Store!Holding
  <2> QED
    BY <2>2, <2>5, <2>6, <2>7, <2>8, <1>1, Zenon DEF Store!Commit
<1>4. CASE step' \in {"rollback", "unlink_staging"} /\ UNCHANGED <<content, writing>>
  BY <1>4, Unseen, Zenon DEF writing
<1> QED
  BY <1>3, <1>4, Zenon

\* The rollback brings back what was shown all along.
LEMMA RollbackUnseen ==
    ASSUME SInv, Rollback
    PROVE  UNCHANGED Store!vars
<1> USE DEF Rollback, kept, writing
<1>1. /\ w_active = 1 /\ w_path \in Paths /\ w_moved = 1 /\ content[w_path] = NoFile
      /\ bak[w_backup] # NoFile
  BY DEF SInv, Session, Moved, StorageTypeOK, WriteTypes, Bit
<1>2. content \in [Paths -> Content]
  BY Zenon DEF SInv, StorageTypeOK, FileTypes
<1>3. VisibleFile' = VisibleFile
  <2>1. CASE content' = [content EXCEPT ![w_path] = bak[w_backup]]
    <3>1. \A p \in Paths : content'[p] = IF p = w_path THEN bak[w_backup] ELSE content[p]
      BY <2>1, <1>2, Zenon
    <3> QED
      BY <3>1, <1>1, Zenon DEF VisibleFile
  <2>2. CASE UNCHANGED <<content, bak>>
    BY <2>2, Zenon DEF VisibleFile
  <2> QED
    BY <2>1, <2>2, Zenon
<1>4. OpenPath' = OpenPath
  BY Zenon DEF OpenPath
<1> QED
  BY <1>3, <1>4, Zenon DEF Store!vars

\* Once the new file is in place its backup is of no interest.
LEMMA UnlinkBackupUnseen ==
    ASSUME SInv, UnlinkBackup
    PROVE  UNCHANGED Store!vars
<1> USE DEF UnlinkBackup, kept, ResetWrite
<1>1. VisibleFile' = VisibleFile
  <2>1. \A p \in Paths : p = w_path /\ w_moved = 1 => content[p] = committed[p]
    BY Zenon DEF SInv, Moved
  <2>2. \A p \in Paths : VisibleFile[p] = content[p]
    BY <2>1, View, Zenon
  <2> QED
    BY SMTT(30), <2>2, View DEF VisibleFile
<1>2. OpenPath' = OpenPath
  BY Zenon DEF OpenPath
<1> QED
  BY <1>1, <1>2, Zenon DEF Store!vars

\* The end of a session that installed nothing: what is shown afterwards is what
\* was shown, or the target is lost.
LEMMA EndsAbstractly ==
    ASSUME SInv, w_active = 1, step # "unlink_backup", ResetWrite,
           \A p \in Paths : p # w_path => content'[p] = content[p],
           content'[w_path] \in {VisibleFile[w_path], NoFile}
    PROVE  Store!Abort \/ Store!Lose
<1>1. w_path \in Paths
  BY Zenon DEF SInv, Session
<1>2. OpenPath = w_path /\ OpenPath' = NoPath
  BY Zenon DEF OpenPath, ResetWrite
<1>3. \A p \in Paths : VisibleFile'[p] = content'[p]
  BY DEF VisibleFile, ResetWrite
<1>4. VisibleFile' = [p \in Paths |-> VisibleFile'[p]]
  BY Zenon DEF VisibleFile
<1>5. \A p \in Paths : p # w_path => VisibleFile'[p] = VisibleFile[p]
  BY <1>3, View, Zenon
<1>6. CASE content'[w_path] = VisibleFile[w_path]
  <2>1. \A p \in Paths : VisibleFile'[p] = VisibleFile[p]
    BY <1>1, <1>3, <1>5, <1>6, Zenon
  <2>2. VisibleFile' = VisibleFile
    BY <2>1, <1>4, View, Zenon
  <2> QED
    BY <1>1, <1>2, <2>2, Zenon DEF Store!Abort
<1>7. CASE content'[w_path] = NoFile
  <2>1. VisibleFile' = Store!Holding(w_path, NoFile)
    BY <1>1, <1>3, <1>4, <1>5, <1>7, Zenon DEF Store!Holding
  <2> QED
    BY <1>1, <1>2, <2>1, Zenon DEF Store!Lose
<1> QED
  BY <1>6, <1>7, Zenon

\* A commit that could not rename leaves the old file.
LEMMA UnlinkStagingAborts ==
    ASSUME SInv, UnlinkStaging
    PROVE  Store!Abort \/ Store!Lose
<1> USE DEF UnlinkStaging, kept
<1>1. w_active = 1 /\ w_path \in Paths
  BY DEF SInv, Session, StorageTypeOK, WriteTypes, Bit
<1>2. content'[w_path] = VisibleFile[w_path]
  BY <1>1, View, Zenon DEF SInv, Moved, StorageTypeOK, WriteTypes, Bit
<1> QED
  BY <1>1, <1>2, EndsAbstractly, Zenon

\* An abort that has nothing to move back leaves the old file.
LEMMA DiscardAborts ==
    ASSUME SInv, Discard
    PROVE  Store!Abort \/ Store!Lose \/ UNCHANGED Store!vars
<1> USE DEF Discard, kept
<1>1. w_active = 1 /\ w_path \in Paths
  BY SMTT(30) DEF SInv, Session, StorageTypeOK, WriteTypes, Bit
<1>2. CASE w_moved = 1 /\ content[w_path] = NoFile
  BY ZenonT(30), <1>2, Unseen DEF writing
<1>3. CASE ~(w_moved = 1 /\ content[w_path] = NoFile)
  <2>1. content'[w_path] = VisibleFile[w_path]
    BY <1>1, <1>3, Zenon DEF VisibleFile
  <2> QED
    BY <1>1, <1>3, <2>1, EndsAbstractly, Zenon
<1> QED
  BY <1>2, <1>3, Zenon

\* An abort moves the target back, or cannot.
LEMMA RestoreEnds ==
    ASSUME SInv, Restore
    PROVE  Store!Abort \/ Store!Lose
<1> USE DEF Restore, kept
<1>1. w_active = 1 /\ w_path \in Paths /\ w_moved = 1 /\ content[w_path] = NoFile
  BY DEF SInv, Session, Moved, StorageTypeOK, WriteTypes, Bit
<1>2. content \in [Paths -> Content]
  BY Zenon DEF SInv, StorageTypeOK, FileTypes
<1>3. VisibleFile[w_path] = bak[w_backup]
  BY <1>1, Zenon DEF VisibleFile
<1>4. content'[w_path] \in {VisibleFile[w_path], NoFile}
  BY <1>1, <1>2, <1>3, Zenon
<1>5. \A p \in Paths : p # w_path => content'[p] = content[p]
  BY <1>2, Zenon
<1> QED
  BY <1>1, <1>4, <1>5, EndsAbstractly, Zenon

\* A reset loses at most the file being replaced.
LEMMA ResetEnds ==
    ASSUME SInv, Reset
    PROVE  Store!Abort \/ Store!Lose \/ UNCHANGED Store!vars
<1> USE DEF Reset, files
<1>1. CASE w_active = 1 /\ step # "unlink_backup"
  <2>1. content'[w_path] \in {VisibleFile[w_path], NoFile}
    BY <1>1, Zenon DEF VisibleFile, SInv, Session
  <2> QED
    BY <1>1, <2>1, EndsAbstractly, Zenon
<1>2. CASE ~(w_active = 1 /\ step # "unlink_backup")
  <2>1. OpenPath' = OpenPath
    BY <1>2, Zenon DEF OpenPath, ResetWrite
  <2>2. \A p \in Paths : p = w_path /\ w_moved = 1 => content[p] = committed[p]
    BY <1>2 DEF SInv, Moved, Session, StorageTypeOK, WriteTypes, Bit
  <2>3. \A p \in Paths : VisibleFile[p] = content[p]
    BY <2>2, View, Zenon
  <2>4. VisibleFile' = VisibleFile
    BY <2>3, View DEF VisibleFile, ResetWrite
  <2> QED
    BY <2>1, <2>4, Zenon DEF Store!vars
<1> QED
  BY <1>1, <1>2, Zenon

\* A mount shows an empty root and no session.
LEMMA StartsAbstractly == Init => Store!Init
<1> SUFFICES ASSUME Init PROVE Store!Init
  BY Zenon
<1>1. OpenPath = NoPath
  BY Zenon DEF Init, OpenPath
<1>2. VisibleFile = [p \in Paths |-> NoFile]
  BY DEF Init, VisibleFile
<1> QED
  BY <1>1, <1>2, Zenon DEF Store!Init

\* Every step of storage_fatfs is a step of the abstract store or none.
LEMMA StepsAbstractly ==
    ASSUME SInv, SInv', [Next]_vars
    PROVE  [Store!Next]_(Store!vars)
<1>1. CASE UNCHANGED vars
  BY <1>1, Unseen, Zenon DEF vars, files, writing
<1>2. CASE Mount \/ (\E gone \in SUBSET Numbers : MountFails(gone)) \/ Unmount
  BY <1>2, Unseen, Zenon DEF Mount, MountFails, Unmount, files, writing
<1>3. CASE \E p \in Paths, replace \in BOOLEAN, n \in Numbers : BeginWrite(p, replace, n)
  BY <1>3, BeginsAbstractly, Zenon DEF Store!Next
<1>4. CASE (\E n \in Numbers : BeginWriteFails(n)) \/ Write
  BY <1>4, Unseen, Zenon DEF BeginWriteFails, Write, writing
<1>5. CASE (\E p \in Paths : BeginRead(p)) \/ CloseRead
  BY <1>5, Unseen, Zenon DEF BeginRead, CloseRead, files, writing
<1>6. CASE Commit \/ Abort
  BY <1>6, Unseen, Zenon DEF Commit, Abort, files, kept
<1>7. CASE Backup \/ Rollback \/ UnlinkBackup
  BY <1>7, BackupUnseen, RollbackUnseen, UnlinkBackupUnseen, Zenon
<1>8. CASE Install
  BY <1>8, InstallCommits, Zenon DEF Store!Next
<1>9. CASE UnlinkStaging \/ Discard \/ Restore \/ Reset
  BY <1>9, UnlinkStagingAborts, DiscardAborts, RestoreEnds, ResetEnds, Zenon DEF Store!Next
<1> QED
  BY <1>1, <1>2, <1>3, <1>4, <1>5, <1>6, <1>7, <1>8, <1>9, Zenon DEF Next

\* storage_fatfs replaces files as AtomicStore says, whatever call fails and
\* whenever the board resets.
THEOREM ReplacementIsAtomic == Spec => ReplacesAtomically
<1>1. SInv /\ SInv' /\ [Next]_vars => [Store!Next]_(Store!vars)
  BY StepsAbstractly, Zenon
<1> QED
  BY <1>1, StartsAbstractly, Invariance, PTL DEF Spec, ReplacesAtomically, Store!Spec
=============================================================================
