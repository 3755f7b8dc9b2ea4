------------------------ MODULE BackendProcessProofs ------------------------
(* Theorems of BackendProcess: for any number of processes, shells and     *)
(* retries.                                                                *)
EXTENDS BackendProcess, TLAPS

ProcRecord == [pc : ProcPC, ver : Versions \cup {None}, current : BOOLEAN,
               halt : BOOLEAN, back : {"init", "serve"}]

(* A process that is executed starts as a well-formed record.              *)
LEMMA ExecutedTyped ==
    /\ NoProc \in ProcRecord
    /\ bin \in Versions => Executed \in ProcRecord
BY DEF NoProc, Executed, ProcRecord, ProcPC, Versions

LEMMA ProcessTypeInit == Init => TypeOK
<1> SUFFICES ASSUME Init PROVE TypeOK
  OBVIOUS
<1>1. Any(Procs) \in Procs
  BY ProcsAssumption DEF Any
<1>2. lock \in Procs \cup {Nobody}
  BY <1>1 DEF Init
<1>3. proc \in [Procs -> ProcRecord]
  <2>1. CASE bin = None
    BY <2>1, VersionsAssumption, ExecutedTyped DEF Init
  <2>2. CASE bin = Old
    <3>1. Executed \in ProcRecord
      BY <2>2, ExecutedTyped DEF Versions
    <3>2. [Executed EXCEPT !.pc = "serve"] \in ProcRecord
      BY <3>1 DEF ProcRecord, ProcPC
    <3> QED BY <2>2, <3>2, VersionsAssumption, ExecutedTyped DEF Init
  <2> QED BY <2>1, <2>2 DEF Init
<1>4. reRunTimes \in 0..Retries
  BY RetriesAssumption DEF Init
<1> QED BY <1>2, <1>3, <1>4 DEF Init, TypeOK, ProcRecord, Versions, AppPC, ShellPC

(* The launch of a shell and the counter of BinaryManager.                 *)
LEMMA LaunchTyped ==
    ASSUME TypeOK, Launch
    PROVE  shell' \in [Shells -> ShellPC]
<1>1. CASE update = None
  BY <1>1 DEF Launch, TypeOK
<1>2. CASE update # None
  <2>1. Any(FreeShells) \in Shells
    BY <1>2 DEF Launch, Any, FreeShells
  <2> QED BY <1>2, <2>1 DEF Launch, TypeOK, ShellPC
<1> QED BY <1>1, <1>2

LEMMA ReRunTyped ==
    ASSUME TypeOK, ReRunBackend
    PROVE  shell' \in [Shells -> ShellPC] /\ reRunTimes' \in 0..Retries
<1>1. CASE reRunTimes > 0
  BY <1>1, LaunchTyped, RetriesAssumption DEF ReRunBackend, TypeOK
<1>2. CASE ~(reRunTimes > 0)
  BY <1>2 DEF ReRunBackend, TypeOK
<1> QED BY <1>1, <1>2

LEMMA ProcessTypeStep == TypeOK /\ [Next]_vars => TypeOK'
<1> SUFFICES ASSUME TypeOK, [Next]_vars PROVE TypeOK'
  OBVIOUS
<1> USE DEF TypeOK, Versions
<1>1. CASE OnCreate
  BY <1>1 DEF OnCreate, files, appVars, AppGoto, AppPC
<1>2. CASE CheckUpdate
  BY <1>2 DEF CheckUpdate, files, appVars, AppGoto, AppPC
<1>3. CASE UnpackFile
  BY <1>3 DEF UnpackFile, files, appVars, AppGoto, AppPC
<1>4. CASE UnpackLibProto
  BY <1>4 DEF UnpackLibProto, files, appVars, AppGoto, AppPC
<1>5. CASE InstallFails
  BY <1>5 DEF InstallFails, files, appVars, AppGoto, AppPC
<1>6. CASE WriteOutVersion
  <2>1. unwritten' \in BOOLEAN /\ faulted' \in BOOLEAN
    BY <1>6, Zenon DEF WriteOutVersion
  <2>2. app' \in AppPC /\ txt' \in Versions \cup {None, Partial}
    BY <1>6 DEF WriteOutVersion, AppGoto, AppPC
  <2>3. UNCHANGED <<update, saved, bin, writers, reRunTimes, shell, proc, lock, stopped>>
    BY <1>6 DEF WriteOutVersion
  <2> QED BY <2>1, <2>2, <2>3
<1>7. CASE UpdatePackageVersionCode
  BY <1>7 DEF UpdatePackageVersionCode, files, appVars, AppGoto, AppPC
<1>8. CASE StartAgain
  BY <1>8 DEF StartAgain, files, appVars, AppGoto, AppPC
<1>9. CASE IsRunning
  <2>1. CASE PortTaken
    BY <1>9, <2>1, ReRunTyped DEF IsRunning, files, AppGoto, AppPC
  <2>2. CASE ~PortTaken
    BY <1>9, <2>2 DEF IsRunning, files, AppGoto, AppPC
  <2> QED BY <2>1, <2>2
<1>10. CASE RunBackend
  BY <1>10, LaunchTyped DEF RunBackend, files, AppGoto, AppPC
<1>11. CASE AppKilled
  BY <1>11, RetriesAssumption DEF AppKilled, files, AppPC
<1>12. ASSUME NEW s \in Shells, Shell(s) PROVE TypeOK'
  <2>1. CASE CpOpen(s)
    BY <2>1 DEF CpOpen, files, appVars, ShellPC
  <2>2. CASE CpDone(s)
    BY <2>2 DEF CpDone, WrittenBy, files, appVars, ShellPC
  <2>3. CASE ShellExec(s)
    <3>1. CASE Executable
      <4>1. Any(FreeProcs) \in Procs
        BY <2>3, <3>1 DEF ShellExec, Any, FreeProcs
      <4>2. Executed \in ProcRecord
        BY <3>1, ExecutedTyped DEF Executable
      <4> QED BY <2>3, <3>1, <4>1, <4>2 DEF ShellExec, ProcRecord, files, appVars,
                 ShellPC
    <3>2. CASE ~Executable
      BY <2>3, <3>2 DEF ShellExec, files, appVars, ShellPC
    <3> QED BY <3>1, <3>2
  <2> QED BY <1>12, <2>1, <2>2, <2>3 DEF Shell
<1>13. ASSUME NEW p \in Procs,
             \/ Process(p) \/ CheckAtAccept(p) \/ Halt(p) \/ AcceptError(p)
             \/ AuthComplete(p)
      PROVE  TypeOK'
  <2>1. CASE RunningCheckAndLock(p)
    <3>1. proc' \in [Procs -> ProcRecord]
      <4>1. CASE lock = Nobody
        BY <2>1, <4>1 DEF RunningCheckAndLock, ProcRecord, ProcPC
      <4>2. CASE lock # Nobody
        BY <2>1, <4>2, ExecutedTyped DEF RunningCheckAndLock, ProcRecord
      <4> QED BY <4>1, <4>2
    <3> QED BY <2>1, <3>1 DEF RunningCheckAndLock, ProcRecord, files, appVars
  <2>2. CASE CheckAtStart(p)
    <3> DEFINE next == IF HasUpdate(p) THEN "unlink" ELSE "init"
    <3>1. [proc[p] EXCEPT !.pc = next, !.back = "init"] \in ProcRecord
      BY DEF ProcRecord, ProcPC
    <3>2. proc' = [proc EXCEPT ![p] = [proc[p] EXCEPT !.pc = next, !.back = "init"]]
      BY <2>2 DEF CheckAtStart
    <3> QED BY <2>2, <3>1, <3>2 DEF CheckAtStart, ProcRecord, files, appVars
  <2>3. CASE CheckAtAccept(p)
    <3>1. [proc[p] EXCEPT !.pc = "unlink", !.back = "serve"] \in ProcRecord
      BY DEF ProcRecord, ProcPC
    <3>2. proc' = [proc EXCEPT ![p] = [proc[p] EXCEPT !.pc = "unlink", !.back = "serve"]]
      BY <2>3 DEF CheckAtAccept
    <3> QED BY <2>3, <3>1, <3>2 DEF CheckAtAccept, ProcRecord, files, appVars
  <2>4. CASE Unlink(p)
    BY <2>4, ZenonT(30) DEF Unlink, ProcPC, files, appVars
  <2>5. CASE Create(p)
    BY <2>5 DEF Create, ProcPC, files, appVars
  <2>6. CASE CreateFails(p)
    <3> DEFINE new == [proc[p] EXCEPT !.pc = proc[p].back, !.back = "init"]
    <3>1. new \in ProcRecord
      BY DEF ProcRecord, ProcPC
    <3>2. proc' = [proc EXCEPT ![p] = new]
      BY <2>6 DEF CreateFails
    <3> QED BY <2>6, <3>1, <3>2 DEF CreateFails, ProcRecord, files, appVars
  <2>7. CASE Copy(p)
    BY <2>7, ZenonT(30) DEF Copy, WrittenBy, ProcPC, files, appVars
  <2>8. CASE InitSocket(p)
    BY <2>8 DEF InitSocket, ProcPC, files, appVars
  <2>9. CASE Halt(p)
    BY <2>9, ZenonT(30) DEF Halt, ProcPC, files, appVars
  <2>10. CASE AcceptError(p)
    BY <2>10 DEF AcceptError, ProcPC, files, appVars
  <2>11. CASE AuthComplete(p)
    BY <2>11, RetriesAssumption DEF AuthComplete, files
  <2>12. CASE Teardown(p)
    BY <2>12, ExecutedTyped DEF Teardown, ProcRecord, ProcPC, files, appVars
  <2>13. CASE Restart(p)
    BY <2>13, ExecutedTyped DEF Restart, Executable, ProcRecord, files, appVars
  <2> QED BY <1>13, <2>1, <2>2, <2>3, <2>4, <2>5, <2>6, <2>7, <2>8, <2>9, <2>10,
             <2>11, <2>12, <2>13 DEF Process
<1>14. CASE UNCHANGED vars
  BY <1>14 DEF vars, files, appVars
<1>15. CASE AuthFailed
  BY <1>15, ReRunTyped DEF AuthFailed, files
<1> QED
  BY <1>1, <1>2, <1>3, <1>4, <1>5, <1>6, <1>7, <1>8, <1>9, <1>10, <1>11, <1>12,
     <1>13, <1>14, <1>15 DEF Next, App

(* Every variable keeps its type; in particular the counter of starts      *)
(* (BinaryManager.reRunTimes) never falls below zero.                      *)
THEOREM ProcessTypeCorrect == Spec => []TypeOK
BY ProcessTypeInit, ProcessTypeStep, PTL DEF Spec

LEMMA InstallInit == Init => InstallInv
BY VersionsAssumption DEF Init, InstallInv, SavedIsInstalled, Installing

LEMMA InstallStep == TypeOK /\ InstallInv /\ [Next]_vars => InstallInv'
<1> SUFFICES ASSUME TypeOK, InstallInv, [Next]_vars PROVE InstallInv'
  OBVIOUS
<1> USE VersionsAssumption DEF InstallInv, SavedIsInstalled, Installing
<1>1. CASE OnCreate
  BY <1>1 DEF OnCreate, AppGoto, files
<1>2. CASE CheckUpdate
  BY <1>2 DEF CheckUpdate, AppGoto, files
<1>3. CASE UnpackFile
  BY <1>3 DEF UnpackFile, AppGoto, files
<1>4. CASE UnpackLibProto
  BY <1>4 DEF UnpackLibProto, AppGoto, files
<1>5. CASE InstallFails
  BY <1>5 DEF InstallFails, AppGoto, files
<1>6. CASE WriteOutVersion
  BY <1>6 DEF WriteOutVersion, AppGoto, files
<1>7. CASE UpdatePackageVersionCode
  BY <1>7 DEF UpdatePackageVersionCode, AppGoto, files
<1>8. CASE StartAgain
  BY <1>8 DEF StartAgain, AppGoto, files
<1>9. CASE IsRunning
  BY <1>9 DEF IsRunning, AppGoto, files
<1>10. CASE RunBackend
  BY <1>10 DEF RunBackend, AppGoto, files
<1>11. CASE AppKilled
  BY <1>11 DEF AppKilled, AppGoto, files
<1>12. ASSUME NEW s \in Shells, Shell(s) PROVE InstallInv'
  BY <1>12 DEF Shell, CpOpen, CpDone, ShellExec, files, appVars
<1>13. ASSUME NEW p \in Procs,
             \/ Process(p) \/ CheckAtAccept(p) \/ Halt(p) \/ AcceptError(p)
             \/ AuthComplete(p)
      PROVE  InstallInv'
  <2>1. UNCHANGED <<files, app>>
    BY <1>13 DEF Process, RunningCheckAndLock, CheckAtStart, CheckAtAccept, Unlink,
       Create, CreateFails, Copy, InitSocket, Halt, AcceptError, AuthComplete,
       Teardown, Restart, appVars
  <2>2. faulted => faulted'
    BY <1>13 DEF Process, RunningCheckAndLock, CheckAtStart, CheckAtAccept, Unlink,
       Create, CreateFails, Copy, InitSocket, Halt, AcceptError, AuthComplete,
       Teardown, Restart
  <2> QED BY <2>1, <2>2 DEF files
<1>14. CASE UNCHANGED vars
  BY <1>14 DEF vars, files, appVars
<1>15. CASE AuthFailed
  BY <1>15 DEF AuthFailed, files
<1> QED
  BY <1>1, <1>2, <1>3, <1>4, <1>5, <1>6, <1>7, <1>8, <1>9, <1>10, <1>11, <1>12,
     <1>13, <1>14, <1>15 DEF Next, App

(* However often the app is killed while it installs, and whatever write   *)
(* fails, the version that Settings records is that of a binary that is    *)
(* completely on the disk, and of its version file, which is empty only *)
(* if PrintWriter has lost its text (Installer.doUpdate).                  *)
THEOREM RecordedIsInstalled == Spec => []SavedIsInstalled
<1>1. InstallInv => SavedIsInstalled
  BY DEF InstallInv
<1> QED
  BY <1>1, InstallInit, InstallStep, ProcessTypeInit, ProcessTypeStep, PTL DEF Spec

LEMMA LockInit == Init => LockInv
<1> SUFFICES ASSUME Init, NEW p \in Procs, p # lock PROVE proc[p].pc = "none"
  BY DEF LockInv
<1>1. proc[p] = NoProc
  BY DEF Init
<1> QED BY <1>1 DEF NoProc

LEMMA LockStep == TypeOK /\ LockInv /\ [Next]_vars => LockInv'
<1> SUFFICES ASSUME TypeOK, LockInv, [Next]_vars PROVE LockInv'
  OBVIOUS
<1> USE DEF LockInv
<1>1. CASE App
  <2>1. UNCHANGED <<proc, lock>>
    BY <1>1 DEF App, OnCreate, CheckUpdate, UnpackFile, UnpackLibProto,
       InstallFails, WriteOutVersion, UpdatePackageVersionCode, StartAgain,
       IsRunning, RunBackend, AuthFailed, AppKilled
  <2> QED BY <2>1
<1>2. ASSUME NEW s \in Shells, Shell(s) PROVE LockInv'
  <2>1. CASE ShellExec(s) /\ Executable
    <3>1. Executed.pc = "start"
      BY DEF Executed, NoProc
    <3> QED BY <2>1, <3>1 DEF ShellExec, TypeOK
  <2>2. CASE UNCHANGED <<proc, lock>>
    BY <2>2
  <2> QED BY <1>2, <2>1, <2>2 DEF Shell, CpOpen, CpDone, ShellExec
<1>3. ASSUME NEW p \in Procs,
             \/ Process(p) \/ CheckAtAccept(p) \/ Halt(p) \/ AcceptError(p)
             \/ AuthComplete(p)
      PROVE  LockInv'
  <2>0. NoProc.pc = "none" /\ Executed.pc = "start"
    BY DEF NoProc, Executed
  <2>1. CASE RunningCheckAndLock(p)
    BY <2>1, <2>0, NobodyAssumption DEF RunningCheckAndLock, TypeOK
  <2>2. CASE CheckAtStart(p)
    BY <2>2 DEF CheckAtStart, TypeOK
  <2>3. CASE CheckAtAccept(p)
    BY <2>3 DEF CheckAtAccept, TypeOK
  <2>4. CASE Unlink(p)
    BY <2>4 DEF Unlink, TypeOK
  <2>5. CASE Create(p)
    BY <2>5 DEF Create, TypeOK
  <2>6. CASE CreateFails(p)
    BY <2>6 DEF CreateFails, TypeOK
  <2>7. CASE Copy(p)
    BY <2>7 DEF Copy, TypeOK
  <2>8. CASE InitSocket(p)
    BY <2>8 DEF InitSocket, TypeOK
  <2>9. CASE Halt(p)
    BY <2>9 DEF Halt, TypeOK
  <2>10. CASE AcceptError(p)
    BY <2>10 DEF AcceptError, TypeOK
  <2>11. CASE AuthComplete(p)
    BY <2>11 DEF AuthComplete, TypeOK
  <2>12. CASE Teardown(p)
    BY <2>12, <2>0 DEF Teardown, TypeOK
  <2>13. CASE Restart(p)
    BY <2>13, <2>0 DEF Restart, TypeOK
  <2> QED BY <1>3, <2>1, <2>2, <2>3, <2>4, <2>5, <2>6, <2>7, <2>8, <2>9, <2>10,
             <2>11, <2>12, <2>13 DEF Process
<1>4. CASE UNCHANGED vars
  BY <1>4 DEF vars
<1> QED
  BY <1>1, <1>2, <1>3, <1>4 DEF Next

(* Although teardown gives the lock up before restart() and processes come *)
(* from shells and from each other, whoever listens on the port holds the  *)
(* lock (running_check_and_lock): there are never two backends.            *)
THEOREM ListenerHoldsLock == Spec => []HolderListens
<1>1. LockInv => HolderListens
  BY DEF LockInv, HolderListens, Listens, Updating
<1> QED
  BY <1>1, LockInit, LockStep, ProcessTypeInit, ProcessTypeStep, PTL DEF Spec

-----------------------------------------------------------------------------
(* What a step does to the processes and the shells, action by action and  *)
(* record field by record field.                                           *)
OthersKept(p) == \A q \in Procs : q # p => proc'[q] = proc[q]

Goes(p, pc) == /\ OthersKept(p) /\ proc'[p].pc = pc
               /\ proc'[p].current = proc[p].current /\ proc'[p].halt = proc[p].halt

Dies(p) == /\ OthersKept(p) /\ proc'[p].pc = "none"
           /\ proc'[p].current = FALSE /\ proc'[p].halt = FALSE

Born(p) == /\ OthersKept(p) /\ proc'[p].pc = "start"
           /\ proc'[p].current = TRUE /\ proc'[p].halt = FALSE

Locks(p) ==
    /\ proc[p].pc = "start" /\ lock = Nobody
    /\ Goes(p, "check") /\ lock' = p /\ stopped' = FALSE
    /\ UNCHANGED <<bin, writers, faulted>>

FindsLock(p) ==
    /\ proc[p].pc = "start" /\ lock # Nobody /\ Dies(p)
    /\ UNCHANGED <<bin, writers, lock, stopped, faulted>>

GoesOn(p) ==
    /\ proc[p].pc \in {"check", "init", "serve"}
    /\ \E pc \in {"unlink", "init", "serve", "down"} : Goes(p, pc)
    /\ UNCHANGED <<bin, writers, lock, stopped, faulted>>

Unlinks(p) ==
    /\ proc[p].pc = "unlink" /\ bin' = None /\ writers' = {} /\ proc'[p].pc = "create"
    /\ \A q \in Procs : /\ ~proc'[q].current /\ (proc'[q].halt => proc[q].halt)
                        /\ q # p => proc'[q].pc = proc[q].pc
    /\ UNCHANGED <<lock, stopped, faulted>>

Creates(p) ==
    /\ proc[p].pc = "create" /\ ~InUse /\ Goes(p, "copy")
    /\ bin' = Partial /\ writers' = writers \cup {p}
    /\ UNCHANGED <<lock, stopped, faulted>>

CannotCreate(p) ==
    /\ proc[p].pc = "create" /\ \E pc \in {"init", "serve"} : Goes(p, pc)
    /\ InUse \/ faulted'
    /\ faulted => faulted'
    /\ UNCHANGED <<bin, writers, lock, stopped>>

Copies(p) ==
    /\ proc[p].pc = "copy" /\ Goes(p, "down") /\ WrittenBy(p)
    /\ UNCHANGED <<lock, stopped, faulted>>

Halts(p) ==
    /\ proc[p].pc \in {"init", "serve"} /\ OthersKept(p)
    /\ proc'[p].pc = "down" /\ proc'[p].current = proc[p].current /\ stopped' = TRUE
    /\ UNCHANGED <<bin, writers, lock, faulted>>

GoesDown(p) ==
    /\ proc[p].pc = "down" /\ lock' = Nobody
    /\ \/ proc[p].halt /\ Dies(p)
       \/ ~proc[p].halt /\ Goes(p, "restart")
    /\ UNCHANGED <<bin, writers, stopped, faulted>>

Restarts(p) ==
    /\ proc[p].pc = "restart"
    /\ \/ Executable /\ Born(p)
       \/ ~Executable /\ Dies(p)
    /\ UNCHANGED <<bin, writers, lock, stopped, faulted>>

Nothing == UNCHANGED <<bin, writers, proc, lock, stopped, faulted>>

ProcessMove(p) == \/ Locks(p) \/ FindsLock(p) \/ GoesOn(p) \/ Unlinks(p) \/ Creates(p)
                  \/ CannotCreate(p) \/ Copies(p) \/ Halts(p) \/ GoesDown(p) \/ Restarts(p)
                  \/ Nothing

LEMMA ProcessMoves ==
    ASSUME TypeOK, NEW p \in Procs,
           \/ Process(p) \/ CheckAtAccept(p) \/ Halt(p) \/ AcceptError(p) \/ AuthComplete(p)
    PROVE  ProcessMove(p) /\ UNCHANGED <<files, app, shell>>
<1>0. UNCHANGED <<files, app, shell>>
  BY DEF Process, RunningCheckAndLock, CheckAtStart, CheckAtAccept, Unlink, Create, CreateFails,
     Copy, InitSocket, Halt, AcceptError, AuthComplete, Teardown, Restart, appVars
<1> USE DEF OthersKept
<1>1. NoProc.pc = "none" /\ NoProc.current = FALSE /\ NoProc.halt = FALSE
  BY DEF NoProc
<1>2. Executed.pc = "start" /\ Executed.current = TRUE /\ Executed.halt = FALSE
  BY DEF NoProc, Executed
<1>t. proc \in [Procs -> ProcRecord] /\ faulted \in BOOLEAN
  BY DEF TypeOK, ProcRecord
<1>3. ASSUME RunningCheckAndLock(p) PROVE Locks(p) \/ FindsLock(p)
  <2>1. CASE lock = Nobody
    BY <1>t, <1>3, <2>1 DEF RunningCheckAndLock, Locks, Goes, ProcRecord
  <2>2. CASE lock # Nobody
    BY <1>t, <1>1, <1>3, <2>2 DEF RunningCheckAndLock, FindsLock, Dies
  <2> QED BY <2>1, <2>2
<1>4. ASSUME CheckAtStart(p) PROVE GoesOn(p)
  BY <1>t, <1>4 DEF CheckAtStart, GoesOn, Goes, ProcRecord
<1>5. ASSUME CheckAtAccept(p) PROVE GoesOn(p)
  BY <1>t, <1>5 DEF CheckAtAccept, GoesOn, Goes, ProcRecord
<1>6. ASSUME Unlink(p) PROVE Unlinks(p)
  BY <1>t, <1>6 DEF Unlink, Unlinks, ProcRecord
<1>7. ASSUME Create(p) PROVE Creates(p)
  BY <1>t, <1>7 DEF Create, Creates, Goes, ProcRecord
<1>8. ASSUME CreateFails(p) PROVE CannotCreate(p)
  BY <1>t, <1>8 DEF CreateFails, CannotCreate, Goes, ProcRecord
<1>9. ASSUME Copy(p) PROVE Copies(p)
  BY <1>t, <1>9 DEF Copy, Copies, Goes, ProcRecord
<1>10. ASSUME InitSocket(p) PROVE GoesOn(p)
  BY <1>t, <1>10 DEF InitSocket, GoesOn, Goes, ProcRecord
<1>11. ASSUME Halt(p) PROVE Halts(p)
  BY <1>t, <1>11 DEF Halt, Halts, ProcRecord
<1>12. ASSUME AcceptError(p) PROVE GoesOn(p)
  BY <1>t, <1>12 DEF AcceptError, GoesOn, Goes, ProcRecord
<1>13. ASSUME AuthComplete(p) PROVE Nothing
  BY <1>13 DEF AuthComplete, Nothing
<1>14. ASSUME Teardown(p) PROVE GoesDown(p)
  <2>1. CASE proc[p].halt
    BY <1>t, <1>1, <1>14, <2>1 DEF Teardown, GoesDown, Dies
  <2>2. CASE ~proc[p].halt
    BY <1>t, <1>14, <2>2 DEF Teardown, GoesDown, Goes, ProcRecord
  <2> QED BY <2>1, <2>2
<1>15. ASSUME Restart(p) PROVE Restarts(p)
  <2>1. CASE Executable
    BY <1>t, <1>2, <1>15, <2>1 DEF Restart, Restarts, Born
  <2>2. CASE ~Executable
    BY <1>t, <1>1, <1>15, <2>2 DEF Restart, Restarts, Dies
  <2> QED BY <2>1, <2>2
<1> QED BY <1>0, <1>3, <1>4, <1>5, <1>6, <1>7, <1>8, <1>9, <1>10, <1>11, <1>12, <1>13,
           <1>14, <1>15 DEF Process, ProcessMove

ShellGoes(s, pc) == /\ \A r \in Shells : r # s => shell'[r] = shell[r]
                    /\ shell'[s] = pc

DoesNotCopy(s) ==
    /\ shell[s] = "start" /\ (InUse \/ update = None)
    /\ ShellGoes(s, "none") /\ UNCHANGED <<bin, writers, proc>>

Opens(s) ==
    /\ shell[s] = "start" /\ ~InUse /\ ShellGoes(s, "cp")
    /\ bin' = Partial /\ writers' = writers \cup {s} /\ UNCHANGED proc

HasCopied(s) ==
    /\ shell[s] = "cp" /\ ShellGoes(s, "exec") /\ WrittenBy(s) /\ UNCHANGED proc

Executes(s) ==
    /\ shell[s] = "exec" /\ ShellGoes(s, "none") /\ UNCHANGED <<bin, writers>>
    /\ Executable /\ \E p \in Procs : proc[p].pc = "none" /\ Born(p)

CannotExecute(s) ==
    /\ shell[s] = "exec" /\ ShellGoes(s, "none") /\ UNCHANGED <<bin, writers, proc>>
    /\ ~Executable

ShellMove(s) == DoesNotCopy(s) \/ Opens(s) \/ HasCopied(s) \/ Executes(s) \/ CannotExecute(s)

LEMMA ShellMoves ==
    ASSUME TypeOK, NEW s \in Shells, Shell(s)
    PROVE  ShellMove(s) /\ UNCHANGED <<files, app, lock, stopped, faulted>>
<1>0. UNCHANGED <<files, app, lock, stopped, faulted>> /\ shell \in [Shells -> ShellPC]
  BY DEF Shell, CpOpen, CpDone, ShellExec, appVars, TypeOK
<1>1. ASSUME CpOpen(s) PROVE DoesNotCopy(s) \/ Opens(s)
  <2>1. CASE InUse \/ update = None
    BY <1>0, <1>1, <2>1 DEF CpOpen, DoesNotCopy, ShellGoes
  <2>2. CASE ~(InUse \/ update = None)
    BY <1>0, <1>1, <2>2 DEF CpOpen, Opens, ShellGoes
  <2> QED BY <2>1, <2>2
<1>2. ASSUME CpDone(s) PROVE HasCopied(s)
  BY <1>0, <1>2 DEF CpDone, HasCopied, ShellGoes
<1>3. ASSUME ShellExec(s), Executable PROVE Executes(s)
  <2> DEFINE p == Any(FreeProcs)
  <2>1. p \in Procs /\ proc[p].pc = "none"
    BY <1>3 DEF ShellExec, Any, FreeProcs, Running
  <2>2. proc' = [proc EXCEPT ![p] = Executed]
    BY <1>3 DEF ShellExec
  <2> HIDE DEF p
  <2>3. Executed.pc = "start" /\ Executed.current = TRUE /\ Executed.halt = FALSE
    BY DEF NoProc, Executed
  <2>4. Born(p)
    BY <2>1, <2>2, <2>3 DEF Born, OthersKept, TypeOK
  <2>5. shell[s] = "exec" /\ ShellGoes(s, "none") /\ UNCHANGED <<bin, writers>>
    BY <1>0, <1>3 DEF ShellExec, ShellGoes
  <2> QED BY <1>3, <2>1, <2>4, <2>5 DEF Executes
<1>4. ASSUME ShellExec(s), ~Executable PROVE CannotExecute(s)
  BY <1>0, <1>4 DEF ShellExec, CannotExecute, ShellGoes
<1> QED BY <1>0, <1>1, <1>2, <1>3, <1>4 DEF Shell, ShellMove

(* The app starts shells, and moves on its own files; the rest it leaves.  *)
LaunchMove == \/ update = None /\ UNCHANGED shell
              \/ \E s \in Shells : shell[s] = "none" /\ ShellGoes(s, "start")

AppMove ==
    \/ /\ app' \notin {"run", "probe", "idle"} /\ UNCHANGED <<saved, shell>>
       /\ faulted' \/ faulted' = faulted
    \/ /\ app' = "run" /\ UNCHANGED shell
       /\ \/ saved' = New /\ UNCHANGED faulted
          \/ saved' = saved /\ faulted'
          \/ saved' = saved /\ faulted' = faulted /\ app = "idle"
    \/ /\ app = "run" /\ app' = "idle" /\ PortTaken /\ UNCHANGED <<saved, faulted>>
       /\ UNCHANGED shell \/ LaunchMove
    \/ /\ app \in {"run", "idle"} /\ app' = app /\ UNCHANGED <<saved, faulted>>
       /\ \E p \in Procs : proc[p].pc = "serve"
       /\ UNCHANGED shell \/ LaunchMove
    \/ /\ app = "run" /\ app' = "probe" /\ UNCHANGED <<saved, shell, faulted>>
    \/ /\ app = "probe" /\ app' = "idle" /\ UNCHANGED <<update, saved, faulted>> /\ LaunchMove

LEMMA AppMoves ==
    ASSUME TypeOK, App
    PROVE  AppMove /\ UNCHANGED <<bin, writers, proc, lock, stopped>>
<1>0. UNCHANGED <<bin, writers, proc, lock, stopped>>
  BY DEF App, OnCreate, CheckUpdate, UnpackFile, UnpackLibProto, InstallFails, WriteOutVersion,
     UpdatePackageVersionCode, StartAgain, IsRunning, RunBackend, AuthFailed, AppKilled
<1>1. ASSUME Launch PROVE LaunchMove
  <2>1. CASE update # None
    <3>1. Any(FreeShells) \in Shells /\ shell[Any(FreeShells)] = "none"
      BY <1>1, <2>1 DEF Launch, Any, FreeShells
    <3> QED BY <1>1, <2>1, <3>1 DEF Launch, LaunchMove, ShellGoes, TypeOK
  <2> QED BY <1>1, <2>1 DEF Launch, LaunchMove
<1>2. CASE OnCreate \/ UnpackFile \/ UnpackLibProto \/ WriteOutVersion \/ AppKilled
  BY <1>2 DEF OnCreate, UnpackFile, UnpackLibProto, WriteOutVersion, AppKilled, AppGoto, files,
              AppMove
<1>3. CASE CheckUpdate
  BY <1>3 DEF CheckUpdate, AppGoto, AppMove
<1>4. CASE InstallFails \/ UpdatePackageVersionCode \/ StartAgain
  BY <1>4 DEF InstallFails, UpdatePackageVersionCode, StartAgain, AppGoto, files, AppMove
<1>5. CASE IsRunning
  BY <1>1, <1>5 DEF IsRunning, ReRunBackend, AppGoto, files, AppMove
<1>6. CASE RunBackend
  BY <1>1, <1>6 DEF RunBackend, AppGoto, files, AppMove
<1>7. CASE AuthFailed
  BY <1>1, <1>7 DEF AuthFailed, ReRunBackend, files, AppMove
<1> QED BY <1>0, <1>2, <1>3, <1>4, <1>5, <1>6, <1>7 DEF App

-----------------------------------------------------------------------------
(* The file, its writers and those who execute it; the lock.               *)
LEMMA FileInit == Init => FileInv
<1> SUFFICES ASSUME Init PROVE FileInv
  OBVIOUS
<1>1. CASE bin = None
  <2>1. \A p \in Procs : proc[p] = NoProc
    BY <1>1, VersionsAssumption DEF Init
  <2> QED BY <2>1 DEF Init, FileInv, InUse, Running, NoProc
<1>2. CASE bin = Old
  BY <1>2 DEF Init, FileInv, Versions
<1> QED BY <1>1, <1>2 DEF Init

LEMMA FileStep ==
    ASSUME TypeOK, FileInv, [Next]_vars
    PROVE  FileInv'
<1> USE DEF FileInv, InUse, Running
<1>1. CASE App
  <2>1. UNCHANGED <<bin, writers, proc>> /\ AppMove
    BY <1>1, AppMoves
  <2>2. \A s \in Shells : shell[s] = "cp" => shell'[s] = "cp"
    BY <2>1 DEF AppMove, LaunchMove, ShellGoes
  <2> QED BY <2>1, <2>2
<1>2. ASSUME NEW s \in Shells, Shell(s) PROVE FileInv'
  <2>1. CASE DoesNotCopy(s)
    BY <2>1 DEF DoesNotCopy, ShellGoes
  <2>2. CASE Opens(s)
    BY <2>2 DEF Opens, ShellGoes
  <2>3. CASE HasCopied(s)
    BY <2>3 DEF HasCopied, ShellGoes, WrittenBy
  <2>4. CASE Executes(s)
    BY <2>4 DEF Executes, ShellGoes, Executable, Born, OthersKept
  <2>5. CASE CannotExecute(s)
    BY <2>5 DEF CannotExecute, ShellGoes
  <2> QED BY <1>2, <2>1, <2>2, <2>3, <2>4, <2>5, ShellMoves DEF ShellMove
<1>3. ASSUME NEW p \in Procs,
             \/ Process(p) \/ CheckAtAccept(p) \/ Halt(p) \/ AcceptError(p) \/ AuthComplete(p)
      PROVE  FileInv'
  <2>0. shell' = shell /\ ProcessMove(p)
    BY <1>3, ProcessMoves
  <2>1. CASE Locks(p)
    BY <2>0, <2>1 DEF Locks, OthersKept, Goes
  <2>2. CASE FindsLock(p)
    BY <2>0, <2>2 DEF FindsLock, OthersKept, Dies
  <2>3. CASE GoesOn(p)
    BY <2>0, <2>3 DEF GoesOn, OthersKept, Goes
  <2>4. CASE Unlinks(p)
    BY <2>0, <2>4 DEF Unlinks, OthersKept
  <2>5. CASE Creates(p)
    BY <2>0, <2>5 DEF Creates, OthersKept, Goes
  <2>6. CASE CannotCreate(p)
    BY <2>0, <2>6 DEF CannotCreate, OthersKept, Goes
  <2>7. CASE Copies(p)
    BY <2>0, <2>7 DEF Copies, OthersKept, Goes, WrittenBy
  <2>8. CASE Halts(p)
    BY <2>0, <2>8 DEF Halts, OthersKept
  <2>9. CASE GoesDown(p)
    BY <2>0, <2>9 DEF GoesDown, OthersKept, Goes, Dies
  <2>10. CASE Restarts(p)
    BY <2>0, <2>10 DEF Restarts, OthersKept, Executable, Born, Dies
  <2>11. CASE Nothing
    BY <2>0, <2>11 DEF Nothing
  <2> QED BY <2>0, <2>1, <2>2, <2>3, <2>4, <2>5, <2>6, <2>7, <2>8, <2>9, <2>10, <2>11
          DEF ProcessMove
<1>4. CASE UNCHANGED vars
  BY <1>4 DEF vars
<1> QED BY <1>1, <1>2, <1>3, <1>4 DEF Next

LEMMA HeldInit == Init => HeldInv
<1> SUFFICES ASSUME Init PROVE HeldInv
  OBVIOUS
<1>1. NoProc.halt = FALSE /\ Executed.halt = FALSE /\ [Executed EXCEPT !.pc = "serve"].halt = FALSE
      /\ [Executed EXCEPT !.pc = "serve"].pc = "serve"
  BY DEF NoProc, Executed
<1>2. Any(Procs) \in Procs
  BY ProcsAssumption DEF Any
<1>3. \A p \in Procs : proc[p].halt = FALSE
  BY <1>1 DEF Init
<1>4. lock # Nobody => proc[lock].pc = "serve"
  BY <1>1, <1>2 DEF Init
<1> QED BY <1>3, <1>4 DEF HeldInv

LEMMA HeldStep ==
    ASSUME TypeOK, LockInv, HeldInv, [Next]_vars
    PROVE  HeldInv'
<1> USE DEF HeldInv
<1>0. lock # Nobody => lock \in Procs
  BY DEF TypeOK
<1>1. CASE App
  BY <1>1, AppMoves
<1>2. ASSUME NEW s \in Shells, Shell(s) PROVE HeldInv'
  <2>1. lock' = lock /\ stopped' = stopped /\ ShellMove(s)
    BY <1>2, ShellMoves
  <2>2. CASE Executes(s)
    BY <1>0, <2>1, <2>2 DEF Executes, Born, OthersKept
  <2>3. CASE UNCHANGED proc
    BY <2>1, <2>3
  <2> QED BY <2>1, <2>2, <2>3 DEF ShellMove, DoesNotCopy, Opens, HasCopied, CannotExecute
<1>3. ASSUME NEW p \in Procs,
             \/ Process(p) \/ CheckAtAccept(p) \/ Halt(p) \/ AcceptError(p) \/ AuthComplete(p)
      PROVE  HeldInv'
  <2>0. ProcessMove(p) /\ (\A q \in Procs : proc[q].pc \notin {"none", "start", "restart"} => lock = q)
    BY <1>3, ProcessMoves DEF LockInv
  <2>1. CASE Locks(p)
    BY <1>0, <2>0, <2>1, NobodyAssumption DEF Locks, OthersKept, Goes
  <2>2. CASE FindsLock(p)
    BY <1>0, <2>0, <2>2, NobodyAssumption DEF FindsLock, OthersKept, Dies
  <2>3. CASE GoesOn(p)
    BY <1>0, <2>0, <2>3, NobodyAssumption DEF GoesOn, OthersKept, Goes
  <2>4. CASE Unlinks(p)
    BY <1>0, <2>0, <2>4, NobodyAssumption DEF Unlinks, OthersKept
  <2>5. CASE Creates(p)
    BY <1>0, <2>0, <2>5, NobodyAssumption DEF Creates, OthersKept, Goes
  <2>6. CASE CannotCreate(p)
    BY <1>0, <2>0, <2>6, NobodyAssumption DEF CannotCreate, OthersKept, Goes
  <2>7. CASE Copies(p)
    BY <1>0, <2>0, <2>7, NobodyAssumption DEF Copies, OthersKept, Goes
  <2>8. CASE Halts(p)
    BY <1>0, <2>0, <2>8, NobodyAssumption DEF Halts, OthersKept
  <2>9. CASE GoesDown(p)
    BY <1>0, <2>0, <2>9, NobodyAssumption DEF GoesDown, OthersKept, Goes, Dies
  <2>10. CASE Restarts(p)
    BY <1>0, <2>0, <2>10, NobodyAssumption DEF Restarts, OthersKept, Born, Dies
  <2>11. CASE Nothing
    BY <2>11 DEF Nothing
  <2> QED BY <2>0, <2>1, <2>2, <2>3, <2>4, <2>5, <2>6, <2>7, <2>8, <2>9, <2>10, <2>11
          DEF ProcessMove
<1>4. CASE UNCHANGED vars
  BY <1>4 DEF vars
<1> QED BY <1>1, <1>2, <1>3, <1>4 DEF Next

-----------------------------------------------------------------------------
(* Before the version is recorded, and with a broken file.                 *)
LEMMA EarlyInit == Init => EarlyInv
<1> SUFFICES ASSUME Init PROVE EarlyInv
  OBVIOUS
<1>1. \A p \in Procs : p # lock => proc[p] = NoProc
  BY DEF Init
<1>2. \A p \in Procs : Running(p) => p = lock
  BY <1>1 DEF Running, NoProc
<1> QED BY <1>2 DEF Init, EarlyInv

LEMMA EarlyStep ==
    ASSUME TypeOK, EarlyInv, [Next]_vars
    PROVE  EarlyInv'
<1> USE DEF EarlyInv, Running
<1>1. CASE App
  <2>1. AppMove /\ proc' = proc
    BY <1>1, AppMoves
  <2> QED BY <2>1 DEF AppMove
<1>2. ASSUME NEW s \in Shells, Shell(s) PROVE EarlyInv'
  <2>1. ShellMove(s) /\ saved' = saved /\ faulted' = faulted
    BY <1>2, ShellMoves DEF files
  <2>2. shell[s] # "none"
    BY <2>1 DEF ShellMove, DoesNotCopy, Opens, HasCopied, Executes, CannotExecute
  <2> QED BY <2>1, <2>2
<1>3. ASSUME NEW p \in Procs,
             \/ Process(p) \/ CheckAtAccept(p) \/ Halt(p) \/ AcceptError(p) \/ AuthComplete(p)
      PROVE  EarlyInv'
  <2>1. ProcessMove(p) /\ saved' = saved /\ app' = app /\ shell' = shell
    BY <1>3, ProcessMoves DEF files
  <2>2. faulted => faulted'
    BY <2>1 DEF ProcessMove, Locks, FindsLock, GoesOn, Unlinks, Creates, CannotCreate, Copies,
       Halts, GoesDown, Restarts, Nothing
  <2>3. \A q \in Procs : q # p => proc'[q].pc = proc[q].pc
    BY <2>1 DEF ProcessMove, Locks, FindsLock, GoesOn, Unlinks, Creates, CannotCreate, Copies,
       Halts, GoesDown, Restarts, Nothing, Goes, Dies, Born, OthersKept
  <2>4. proc[p].pc # "none" \/ proc' = proc
    BY <2>1 DEF ProcessMove, Locks, FindsLock, GoesOn, Unlinks, Creates, CannotCreate, Copies,
       Halts, GoesDown, Restarts, Nothing
  <2>5. \A q \in Procs : proc'[q].pc # "none" => proc[q].pc # "none"
    BY <2>3, <2>4
  <2> QED BY <2>1, <2>2, <2>5
<1>4. CASE UNCHANGED vars
  BY <1>4 DEF vars, files, appVars
<1> QED BY <1>1, <1>2, <1>3, <1>4 DEF Next

LEMMA BrokenInit == Init => BrokenInv
<1> SUFFICES ASSUME Init PROVE BrokenInv
  OBVIOUS
<1>1. CASE bin = None
  <2>1. \A p \in Procs : proc[p] = NoProc
    BY <1>1, VersionsAssumption DEF Init
  <2>2. NoProc.pc = "none"
    BY DEF NoProc
  <2>3. \A p \in Procs : proc[p].pc = "none"
    BY <2>1, <2>2
  <2> QED BY <2>3 DEF Init, BrokenInv
<1>2. CASE bin = Old
  BY <1>2 DEF BrokenInv, Broken, Versions
<1> QED BY <1>1, <1>2 DEF Init

LEMMA BrokenStep ==
    ASSUME TypeOK, FileInv, InstallInv, EarlyInv, BrokenInv, [Next]_vars
    PROVE  BrokenInv'
<1> SUFFICES ASSUME ~faulted', bin' \notin Versions, writers' = {},
                    \A p \in Procs : proc'[p].pc # "create"
             PROVE  /\ \A p \in Procs : proc'[p].pc \in {"none", "down", "restart"}
                    /\ \A s \in Shells : shell'[s] \in {"none", "start"}
                    /\ saved' = New /\ app' = "idle" => \E s \in Shells : shell'[s] = "start"
  BY DEF BrokenInv, Broken, Versions
<1> DEFINE Goal == /\ \A p \in Procs : proc'[p].pc \in {"none", "down", "restart"}
                   /\ \A s \in Shells : shell'[s] \in {"none", "start"}
                   /\ saved' = New /\ app' = "idle" => \E s \in Shells : shell'[s] = "start"
<1>0. /\ saved = New => update = New
      /\ New \in Versions /\ New # None /\ Partial \notin Versions /\ None \notin Versions
  BY VersionsAssumption DEF InstallInv, SavedIsInstalled, Versions
<1>u. ~faulted /\ update \notin Versions =>
         /\ \A s \in Shells : shell[s] = "none"
         /\ \A p, q \in Procs : proc[p].pc # "none" /\ proc[q].pc # "none" => p = q
  BY <1>0 DEF EarlyInv, Running
<1>b. ASSUME ~faulted, bin \notin Versions, writers = {}, \A p \in Procs : proc[p].pc # "create"
      PROVE  /\ \A p \in Procs : proc[p].pc \in {"none", "down", "restart"}
             /\ \A s \in Shells : shell[s] \in {"none", "start"}
             /\ saved = New /\ app = "idle" => \E s \in Shells : shell[s] = "start"
             /\ ~InUse
  BY <1>b DEF BrokenInv, Broken, FileInv
<1>1. CASE App
  <2>1. AppMove /\ UNCHANGED <<bin, writers, proc>>
    BY <1>1, AppMoves
  <2>2. ~faulted
    BY <2>1 DEF AppMove
  <2>3. \A s \in Shells : shell'[s] \in {"none", "start"}
    BY <1>b, <2>1, <2>2 DEF AppMove, LaunchMove, ShellGoes
  <2>4. app = "run" => ~PortTaken
    BY <1>b, <2>1, <2>2 DEF PortTaken, Listens, Updating
  <2>5. ASSUME saved' = New, app' = "idle" PROVE \E s \in Shells : shell'[s] = "start"
    <3>0. ~\E p \in Procs : proc[p].pc = "serve"
      BY <1>b, <2>1, <2>2
    <3>1. app = "probe" /\ saved = New /\ LaunchMove
      BY <2>1, <2>4, <2>5, <3>0 DEF AppMove
    <3> QED BY <1>0, <3>1 DEF LaunchMove, ShellGoes
  <2> QED BY <1>b, <2>1, <2>2, <2>3, <2>5
<1>2. ASSUME NEW s \in Shells, Shell(s) PROVE Goal
  <2>0. ShellMove(s) /\ UNCHANGED <<saved, app, faulted, update>>
    BY <1>2, ShellMoves DEF files
  <2>1. CASE DoesNotCopy(s)
    BY <1>0, <1>b, <2>0, <2>1 DEF DoesNotCopy, ShellGoes
  <2>2. CASE Opens(s)
    BY <2>2 DEF Opens
  <2>3. CASE HasCopied(s)
    <3>1. CASE s \in writers
      BY <1>u, <2>0, <2>3, <3>1 DEF HasCopied, WrittenBy
    <3>2. CASE s \notin writers
      BY <1>b, <2>0, <2>3, <3>2 DEF HasCopied, WrittenBy
    <3> QED BY <3>1, <3>2
  <2>4. CASE Executes(s)
    BY <2>4 DEF Executes, Executable
  <2>5. CASE CannotExecute(s)
    BY <1>b, <2>0, <2>5 DEF CannotExecute
  <2> QED BY <2>0, <2>1, <2>2, <2>3, <2>4, <2>5 DEF ShellMove
<1>3. ASSUME NEW p \in Procs,
             \/ Process(p) \/ CheckAtAccept(p) \/ Halt(p) \/ AcceptError(p) \/ AuthComplete(p)
      PROVE  Goal
  <2>0. ProcessMove(p) /\ UNCHANGED <<saved, app, shell, update>>
    BY <1>3, ProcessMoves DEF files
  <2>1. CASE Locks(p) \/ FindsLock(p) \/ GoesOn(p) \/ Halts(p)
    <3>1. /\ UNCHANGED <<bin, writers, faulted>> /\ OthersKept(p)
          /\ proc[p].pc \in {"start", "check", "init", "serve"}
      BY <2>1 DEF Locks, FindsLock, GoesOn, Halts, Goes, Dies
    <3> QED BY <1>b, <3>1 DEF OthersKept
  <2>2. CASE Unlinks(p)
    BY <2>2 DEF Unlinks
  <2>3. CASE Creates(p)
    BY <2>3 DEF Creates
  <2>4. CASE CannotCreate(p)
    BY <2>4 DEF CannotCreate, FileInv
  <2>5. CASE Copies(p)
    <3>1. /\ proc[p].pc = "copy" /\ proc'[p].pc = "down" /\ faulted' = faulted
          /\ \A q \in Procs : q # p => proc'[q] = proc[q]
      BY <2>5 DEF Copies, Goes, OthersKept
    <3>2. CASE p \in writers
      <4>1. update \notin Versions
        BY <2>5, <3>2 DEF Copies, WrittenBy
      <4>2. \A q \in Procs : q # p => proc[q].pc = "none"
        BY <1>u, <3>1, <4>1
      <4> QED BY <1>0, <1>u, <2>0, <3>1, <4>1, <4>2
    <3>3. CASE p \notin writers
      BY <1>b, <2>5, <3>1, <3>3 DEF Copies, WrittenBy
    <3> QED BY <3>2, <3>3
  <2>6. CASE GoesDown(p)
    BY <1>b, <2>0, <2>6 DEF GoesDown, Goes, Dies, OthersKept
  <2>7. CASE Restarts(p)
    BY <1>b, <2>0, <2>7 DEF Restarts, Executable, Dies, OthersKept
  <2>8. CASE Nothing
    BY <1>b, <2>0, <2>8 DEF Nothing
  <2> QED BY <2>0, <2>1, <2>2, <2>3, <2>4, <2>5, <2>6, <2>7, <2>8 DEF ProcessMove
<1>4. CASE UNCHANGED vars
  BY <1>4, <1>b DEF vars, files, appVars
<1> QED BY <1>1, <1>2, <1>3, <1>4 DEF Next

-----------------------------------------------------------------------------
(* Somebody is always there.                                               *)
Alive == (\E p \in Procs : Running(p)) \/ (\E s \in Shells : shell[s] # "none")

(* Where the file cannot be executed somebody else is at work on it, or it *)
(* is broken.                                                              *)
LEMMA NotExecutable ==
    ASSUME FileInv, ~Executable
    PROVE  \/ \E s \in Shells : shell[s] = "cp"
           \/ \E p \in Procs : proc[p].pc \in {"copy", "create"}
           \/ Broken
BY DEF FileInv, Executable, Broken

LEMMA LostInit == Init => NeverLost
BY DEF Init, NeverLost

LEMMA LostStep ==
    ASSUME TypeOK, FileInv, HeldInv, InstallInv, BrokenInv, NeverLost, [Next]_vars
    PROVE  NeverLost'
<1> SUFFICES ASSUME saved' = New, app' = "idle", ~stopped', ~faulted' PROVE Alive'
  BY DEF NeverLost, Alive
<1>0. saved = New => update = New /\ update # None
  BY VersionsAssumption DEF InstallInv, SavedIsInstalled
<1>b. ASSUME ~faulted, Broken
      PROVE  /\ \A s \in Shells : shell[s] \in {"none", "start"}
             /\ saved = New /\ app = "idle" => \E s \in Shells : shell[s] = "start"
  BY <1>b DEF BrokenInv
<1> USE DEF Alive, Running
<1>1. CASE App
  <2>1. AppMove /\ proc' = proc
    BY <1>1, AppMoves
  <2>2. CASE app = "run" /\ PortTaken
    BY <2>1, <2>2 DEF PortTaken, Listens, Updating
  <2>3. CASE app = "probe" /\ saved = New /\ LaunchMove
    BY <1>0, <2>3 DEF LaunchMove, ShellGoes
  <2>4. CASE \E p \in Procs : proc[p].pc = "serve"
    BY <2>1, <2>4
  <2> QED BY <2>1, <2>2, <2>3, <2>4 DEF AppMove
<1>2. ASSUME NEW s \in Shells, Shell(s) PROVE Alive'
  <2>0. ShellMove(s) /\ UNCHANGED <<saved, app, faulted, update>>
    BY <1>2, ShellMoves DEF files
  <2>1. CASE DoesNotCopy(s)
    BY <1>0, <2>0, <2>1 DEF DoesNotCopy, InUse
  <2>2. CASE Opens(s) \/ HasCopied(s)
    BY <2>2 DEF Opens, HasCopied, ShellGoes
  <2>3. CASE Executes(s)
    BY <2>3 DEF Executes, Born
  <2>4. CASE CannotExecute(s)
    BY <1>b, <2>0, <2>4, NotExecutable DEF CannotExecute, ShellGoes
  <2> QED BY <2>0, <2>1, <2>2, <2>3, <2>4 DEF ShellMove
<1>3. ASSUME NEW p \in Procs,
             \/ Process(p) \/ CheckAtAccept(p) \/ Halt(p) \/ AcceptError(p) \/ AuthComplete(p)
      PROVE  Alive'
  <2>0. ProcessMove(p) /\ UNCHANGED <<saved, app, shell>>
    BY <1>3, ProcessMoves DEF files
  <2>1. CASE Locks(p) \/ GoesOn(p) \/ Unlinks(p) \/ Creates(p) \/ CannotCreate(p) \/ Copies(p)
    BY <2>1 DEF Locks, GoesOn, Unlinks, Creates, CannotCreate, Copies, Goes
  <2>2. CASE FindsLock(p)
    BY <2>2 DEF FindsLock, Dies, OthersKept, HeldInv, TypeOK
  <2>3. CASE Halts(p)
    BY <2>3 DEF Halts
  <2>4. CASE GoesDown(p)
    BY <2>4 DEF GoesDown, Goes, HeldInv
  <2>5. CASE Restarts(p)
    <3>1. CASE Executable
      BY <2>5, <3>1 DEF Restarts, Born
    <3>2. CASE ~Executable
      <4>1. /\ proc[p].pc = "restart" /\ faulted' = faulted
            /\ \A q \in Procs : q # p => proc'[q] = proc[q]
        BY <2>5, <3>2 DEF Restarts, Dies, OthersKept
      <4> QED BY <1>b, <2>0, <3>2, <4>1, NotExecutable
    <3> QED BY <3>1, <3>2
  <2>6. CASE Nothing
    BY <2>0, <2>6 DEF Nothing, NeverLost
  <2> QED BY <2>0, <2>1, <2>2, <2>3, <2>4, <2>5, <2>6 DEF ProcessMove
<1>4. CASE UNCHANGED vars
  BY <1>4 DEF vars, files, appVars, NeverLost
<1> QED BY <1>1, <1>2, <1>3, <1>4 DEF Next

(* Once its version is installed and the backend has been started, there   *)
(* is a process or a shell that becomes one, for any number of each and    *)
(* whatever the app, the shells that copy and the processes that update    *)
(* and restart themselves do in each other's way, unless a halt was        *)
(* ordered or the disk failed.                                             *)
THEOREM BackendNeverLost == Spec => []NeverLost
<1> DEFINE Inv == /\ TypeOK /\ InstallInv /\ LockInv /\ FileInv /\ HeldInv
                  /\ EarlyInv /\ BrokenInv /\ NeverLost
<1>1. Init => Inv
  BY ProcessTypeInit, InstallInit, LockInit, FileInit, HeldInit, EarlyInit, BrokenInit, LostInit
<1>2. Inv /\ [Next]_vars => Inv'
  BY ProcessTypeStep, InstallStep, LockStep, FileStep, HeldStep, EarlyStep, BrokenStep, LostStep
<1>3. Inv => NeverLost
  OBVIOUS
<1> QED BY <1>1, <1>2, <1>3, PTL DEF Spec
=============================================================================
