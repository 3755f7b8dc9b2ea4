--------------------------- MODULE BackendProcess ---------------------------
(***************************************************************************)
(* How native backend processes come, update themselves and go: the app's  *)
(* Installer, which unpacks a new binary next to the running one; the      *)
(* shells BinaryManager starts, which copy that binary into place and run  *)
(* it; and the processes, which take a lock, compare versions, replace     *)
(* their own file, release the lock and restart.                           *)
(*                                                                         *)
(* A file that is open for writing cannot be executed and one that is      *)
(* being executed cannot be opened for writing (ETXTBSY); unlinking it is  *)
(* possible at any time.  The app may be killed between any two steps; the *)
(* shells and the processes outlive it.                                    *)
(***************************************************************************)
EXTENDS Naturals

CONSTANTS
    Procs,          \* identities of native processes, reused
    Shells,         \* identities of launching shells, reused
    Nobody,         \* the holder of a free lock
    Old, New,       \* version codes; the app's package holds New
    None, Partial,  \* a file that is missing, or incomplete
    Retries         \* BinaryManager.RETRIES (5 in the code)

ASSUME ProcsAssumption == Procs # {}
ASSUME NobodyAssumption == Nobody \notin Procs \cup Shells
ASSUME VersionsAssumption ==
    Old # New /\ None \notin {Old, New} /\ Partial \notin {Old, New, None}
ASSUME RetriesAssumption == Retries \in Nat

VARIABLES
    update, txt,    \* webkeynative_update and its version file
    saved,          \* Settings.getSavedVersionCode()
    unwritten,      \* history: the text of the version file got lost
    bin,            \* the file that is executed
    writers,        \* the shells and processes that have bin open for writing
    app,            \* where BackgroundService is
    reRunTimes,
    shell, proc,
    lock,           \* the holder of the lock file
    stopped,        \* history: a halt was ordered after the last start
    faulted         \* history: an I/O error happened

files == <<update, txt, saved, unwritten>>
appVars == <<app, reRunTimes>>
vars == <<files, bin, writers, appVars, shell, proc, lock, stopped, faulted>>

Versions == {Old, New}
AppPC == {"dead", "check", "unpack", "lib", "version", "write", "save", "run",
          "probe", "idle"}
ShellPC == {"none", "start", "cp", "exec"}
ProcPC == {"none", "start", "check", "unlink", "create", "copy", "init",
           "serve", "down", "restart"}

NoProc == [pc |-> "none", ver |-> None, current |-> FALSE, halt |-> FALSE,
           back |-> "init"]

(* A process that has just been executed from bin.                         *)
Executed == [NoProc EXCEPT !.pc = "start", !.ver = bin, !.current = TRUE]

Executable == bin \in Versions /\ writers = {}

Running(p) == proc[p].pc # "none"

(* Identities are interchangeable, so that any free one will do.           *)
Any(S) == CHOOSE x \in S : TRUE
FreeProcs == {p \in Procs : ~Running(p)}
FreeShells == {s \in Shells : shell[s] = "none"}

InUse == \E p \in Procs : Running(p) /\ proc[p].current

Updating == {"unlink", "create", "copy"}

(* The process listens on port 8888: from init_socket to teardown.         *)
Listens(p) == \/ proc[p].pc = "serve"
              \/ proc[p].pc \in Updating /\ proc[p].back = "serve"

PortTaken == app = "probe" \/ \E p \in Procs : Listens(p)

(* Faulty variant of HasUpdate: any version file counts as an update.      *)
HasUpdate_Always(p) == txt # None

(* has_update: an empty version file counts as version 1.                  *)
HasUpdate(p) == txt # None /\ txt # proc[p].ver

(* A first installation, or an old one whose backend may be running.       *)
Init ==
    /\ \/ /\ update = None /\ txt = None /\ saved = None /\ bin = None
          /\ proc = [p \in Procs |-> NoProc] /\ lock = Nobody
       \/ /\ update = Old /\ txt = Old /\ saved = Old /\ bin = Old
          /\ lock \in {Nobody, Any(Procs)}
          /\ proc = [p \in Procs |->
                 IF p = lock THEN [Executed EXCEPT !.pc = "serve"] ELSE NoProc]
    /\ writers = {}
    /\ app = "dead" /\ reRunTimes = Retries
    /\ shell = [s \in Shells |-> "none"]
    /\ stopped = FALSE /\ faulted = FALSE /\ unwritten = FALSE

-----------------------------------------------------------------------------
AppGoto(from, to) == app = from /\ app' = to

(* onCreate.                                                               *)
OnCreate ==
    /\ AppGoto("dead", "check")
    /\ UNCHANGED <<files, bin, writers, reRunTimes, shell, proc, lock,
                   stopped, faulted>>

(* Faulty variant of CheckUpdate: the version is recorded first.           *)
CheckUpdate_SaveFirst ==
    /\ \/ /\ saved # New \/ update = None
          /\ AppGoto("check", "unpack")
          /\ update' = Partial /\ saved' = New
       \/ /\ saved = New /\ update # None
          /\ AppGoto("check", "run")
          /\ UNCHANGED <<update, saved>>
    /\ UNCHANGED <<txt, unwritten, bin, writers, reRunTimes, shell, proc, lock,
                   stopped, faulted>>

(* checkUpdate; unpackFile truncates the old file first.                   *)
CheckUpdate ==
    /\ \/ /\ saved # New \/ update = None
          /\ AppGoto("check", "unpack")
          /\ update' = Partial
       \/ /\ saved = New /\ update # None
          /\ AppGoto("check", "run")
          /\ UNCHANGED update
    /\ UNCHANGED <<txt, saved, unwritten, bin, writers, reRunTimes, shell, proc,
                   lock, stopped, faulted>>

UnpackFile ==
    /\ AppGoto("unpack", "lib")
    /\ update' = New
    /\ UNCHANGED <<txt, saved, unwritten, bin, writers, reRunTimes, shell, proc,
                   lock, stopped, faulted>>

UnpackLibProto ==
    /\ AppGoto("lib", "version")
    /\ UNCHANGED <<files, bin, writers, reRunTimes, shell, proc, lock,
                   stopped, faulted>>

(* An IOException in unpackFiles or a FileNotFoundException in             *)
(* writeOutVersion: the update is given up, the service starts.            *)
InstallFails ==
    /\ AppGoto("unpack", "run") \/ AppGoto("lib", "run") \/ AppGoto("version", "run")
    /\ faulted' = TRUE
    /\ UNCHANGED <<files, bin, writers, reRunTimes, shell, proc, lock,
                   stopped>>

(* writeOutVersion.  The version file is empty until the text is written,  *)
(* and stays so when that fails: PrintWriter throws no exception, so that  *)
(* the installation goes on.                                               *)
WriteOutVersion ==
    /\ \/ /\ AppGoto("version", "write")
          /\ txt' = Partial /\ unwritten' = FALSE
          /\ UNCHANGED faulted
       \/ /\ AppGoto("write", "save")
          /\ txt' = New
          /\ UNCHANGED <<unwritten, faulted>>
       \/ /\ AppGoto("write", "save")
          /\ unwritten' = TRUE /\ faulted' = TRUE
          /\ UNCHANGED txt
    /\ UNCHANGED <<update, saved, bin, writers, reRunTimes, shell, proc, lock,
                   stopped>>

UpdatePackageVersionCode ==
    /\ AppGoto("save", "run")
    /\ saved' = New
    /\ UNCHANGED <<update, txt, unwritten, bin, writers, reRunTimes, shell, proc,
                   lock, stopped, faulted>>

(* startWebServices once more, from the user interface.                    *)
StartAgain ==
    /\ AppGoto("idle", "run")
    /\ UNCHANGED <<files, bin, writers, reRunTimes, shell, proc, lock,
                   stopped, faulted>>

(* Binary.runBackend: a thread with a shell, if there is a binary to run.  *)
Launch ==
    IF update = None THEN UNCHANGED shell
    ELSE /\ FreeShells # {}    \* the bound
         /\ shell' = [shell EXCEPT ![Any(FreeShells)] = "start"]

(* Faulty variant of ReRunBackend: it is not given up after Retries times. *)
ReRunBackend_Endless ==
    Launch /\ reRunTimes' = reRunTimes - 1

ReRunBackend ==
    IF reRunTimes > 0 THEN Launch /\ reRunTimes' = reRunTimes - 1
                      ELSE UNCHANGED <<shell, reRunTimes>>

(* runBackend.  isRunning binds the port itself to find out whether it is  *)
(* free ...                                                                *)
IsRunning ==
    /\ \/ /\ PortTaken
          /\ AppGoto("run", "idle")
          /\ ReRunBackend
       \/ /\ ~PortTaken
          /\ AppGoto("run", "probe")
          /\ UNCHANGED <<shell, reRunTimes>>
    /\ UNCHANGED <<files, bin, writers, proc, lock, stopped, faulted>>

(* ... and then closes it and starts the backend.                          *)
RunBackend ==
    /\ AppGoto("probe", "idle")
    /\ Launch
    /\ UNCHANGED <<files, bin, writers, reRunTimes, proc, lock, stopped,
                   faulted>>

(* BinaryManager's listener, when the process that has accepted the app    *)
(* has sent a wrong key: it is started again with the key the app has now. *)
(* Between IsRunning and RunBackend the monitor is taken.                  *)
AuthFailed ==
    /\ app \in {"run", "idle"}
    /\ \E p \in Procs : proc[p].pc = "serve" /\ ~HasUpdate(p)
    /\ ReRunBackend
    /\ UNCHANGED <<files, bin, writers, app, proc, lock, stopped, faulted>>

(* The app's process is killed.                                            *)
AppKilled ==
    /\ app # "dead"
    /\ app' = "dead"
    /\ reRunTimes' = Retries
    /\ UNCHANGED <<files, bin, writers, shell, proc, lock, stopped, faulted>>

App == \/ OnCreate \/ CheckUpdate \/ UnpackFile \/ UnpackLibProto \/ InstallFails
       \/ WriteOutVersion \/ UpdatePackageVersionCode \/ StartAgain \/ IsRunning
       \/ RunBackend \/ AuthFailed \/ AppKilled

-----------------------------------------------------------------------------
(* getStartCommand: "set -e; cp update bin; bin & wait".  The copy cannot  *)
(* be opened while the old file is being executed, and ends the shell.     *)
CpOpen(s) ==
    /\ shell[s] = "start"
    /\ IF InUse \/ update = None
       THEN /\ shell' = [shell EXCEPT ![s] = "none"]
            /\ UNCHANGED <<bin, writers>>
       ELSE /\ shell' = [shell EXCEPT ![s] = "cp"]
            /\ bin' = Partial
            /\ writers' = writers \cup {s}
    /\ UNCHANGED <<files, appVars, proc, lock, stopped, faulted>>

(* What a writer leaves behind; it writes into the void when the file has  *)
(* been unlinked under it.                                                 *)
WrittenBy(w) == /\ bin' = IF w \in writers THEN update ELSE bin
                /\ writers' = writers \ {w}

CpDone(s) ==
    /\ shell[s] = "cp"
    /\ shell' = [shell EXCEPT ![s] = "exec"]
    /\ WrittenBy(s)
    /\ UNCHANGED <<files, appVars, proc, lock, stopped, faulted>>

ShellExec(s) ==
    /\ shell[s] = "exec"
    /\ shell' = [shell EXCEPT ![s] = "none"]
    /\ IF Executable
       THEN /\ FreeProcs # {}    \* the bound
            /\ proc' = [proc EXCEPT ![Any(FreeProcs)] = Executed]
       ELSE UNCHANGED proc
    /\ UNCHANGED <<files, bin, writers, appVars, lock, stopped, faulted>>

Shell(s) == CpOpen(s) \/ CpDone(s) \/ ShellExec(s)

-----------------------------------------------------------------------------
(* Faulty variant of RunningCheckAndLock: a held lock is ignored.          *)
RunningCheckAndLock_Ignore(p) ==
    /\ proc[p].pc = "start"
    /\ lock' = p
    /\ proc' = [proc EXCEPT ![p].pc = "check"]
    /\ stopped' = FALSE
    /\ UNCHANGED <<files, bin, writers, appVars, shell, faulted>>

(* running_check_and_lock, or EXIT_ALREADY_RUNNING.                        *)
RunningCheckAndLock(p) ==
    /\ proc[p].pc = "start"
    /\ IF lock = Nobody
       THEN /\ lock' = p
            /\ proc' = [proc EXCEPT ![p].pc = "check"]
            /\ stopped' = FALSE
       ELSE /\ proc' = [proc EXCEPT ![p] = NoProc]
            /\ UNCHANGED <<lock, stopped>>
    /\ UNCHANGED <<files, bin, writers, appVars, shell, faulted>>

(* check_and_update in main().                                             *)
CheckAtStart(p) ==
    /\ proc[p].pc = "check"
    /\ proc' = [proc EXCEPT ![p].pc = IF HasUpdate(p) THEN "unlink" ELSE "init",
                            ![p].back = "init"]
    /\ UNCHANGED <<files, bin, writers, appVars, shell, lock, stopped, faulted>>

(* check_and_update when a client has been accepted.  Without an update    *)
(* the client is served.                                                   *)
CheckAtAccept(p) ==
    /\ proc[p].pc = "serve" /\ HasUpdate(p)
    /\ proc' = [proc EXCEPT ![p].pc = "unlink", ![p].back = "serve"]
    /\ UNCHANGED <<files, bin, writers, appVars, shell, lock, stopped, faulted>>

(* cp_update_file: the file is unlinked, ...                               *)
Unlink(p) ==
    /\ proc[p].pc = "unlink"
    /\ bin' = None /\ writers' = {}
    /\ proc' = [q \in Procs |->
           [proc[q] EXCEPT !.current = FALSE,
                           !.pc = IF q = p THEN "create" ELSE @]]
    /\ UNCHANGED <<files, appVars, shell, lock, stopped, faulted>>

(* ... created again, which a process that executes a file a shell has     *)
(* created meanwhile prevents, ...                                         *)
Create(p) ==
    /\ proc[p].pc = "create" /\ ~InUse
    /\ bin' = Partial /\ writers' = writers \cup {p}
    /\ proc' = [proc EXCEPT ![p].pc = "copy"]
    /\ UNCHANGED <<files, appVars, shell, lock, stopped, faulted>>

CreateFails(p) ==
    /\ proc[p].pc = "create"
    /\ proc' = [proc EXCEPT ![p].pc = proc[p].back, ![p].back = "init"]
    /\ faulted' = (faulted \/ ~InUse)
    /\ UNCHANGED <<files, bin, writers, appVars, shell, lock, stopped>>

(* ... and written; an update ends in teardown.                            *)
Copy(p) ==
    /\ proc[p].pc = "copy"
    /\ WrittenBy(p)
    /\ proc' = [proc EXCEPT ![p].pc = "down", ![p].back = "init"]
    /\ UNCHANGED <<files, appVars, shell, lock, stopped, faulted>>

(* init_socket.  It fails while somebody else has the port.                *)
InitSocket(p) ==
    /\ proc[p].pc = "init"
    /\ proc' = [proc EXCEPT ![p].pc = IF PortTaken THEN "down" ELSE "serve"]
    /\ UNCHANGED <<files, bin, writers, appVars, shell, lock, stopped, faulted>>

(* HALT, SIGINT, a failed authentication or screencap_init.                *)
Halt(p) ==
    /\ proc[p].pc \in {"init", "serve"}
    /\ proc' = [proc EXCEPT ![p].pc = "down", ![p].halt = TRUE]
    /\ stopped' = TRUE
    /\ UNCHANGED <<files, bin, writers, appVars, shell, lock, faulted>>

(* accept fails.                                                           *)
AcceptError(p) ==
    /\ proc[p].pc = "serve"
    /\ proc' = [proc EXCEPT ![p].pc = "down"]
    /\ UNCHANGED <<files, bin, writers, appVars, shell, lock, stopped, faulted>>

(* BinaryManager's listener, when the process has sent the right key: the  *)
(* counter is reset.                                                       *)
AuthComplete(p) ==
    /\ proc[p].pc = "serve" /\ ~HasUpdate(p)
    /\ app \in {"run", "probe", "idle"}
    /\ reRunTimes' = Retries
    /\ UNCHANGED <<files, bin, writers, app, shell, proc, lock, stopped,
                   faulted>>

(* Faulty variant of Teardown: the lock is kept until the process is gone. *)
Teardown_KeepLock(p) ==
    /\ proc[p].pc = "down"
    /\ proc' = [proc EXCEPT ![p] = IF proc[p].halt THEN NoProc
                                   ELSE [@ EXCEPT !.pc = "restart"]]
    /\ lock' = IF proc[p].halt THEN Nobody ELSE lock
    /\ UNCHANGED <<files, bin, writers, appVars, shell, stopped, faulted>>

(* teardown: the lock file is closed before restart() ...                  *)
Teardown(p) ==
    /\ proc[p].pc = "down"
    /\ lock' = Nobody
    /\ proc' = [proc EXCEPT ![p] = IF proc[p].halt THEN NoProc
                                   ELSE [@ EXCEPT !.pc = "restart"]]
    /\ UNCHANGED <<files, bin, writers, appVars, shell, stopped, faulted>>

(* ... runs the command line in a new process.                             *)
Restart(p) ==
    /\ proc[p].pc = "restart"
    /\ proc' = [proc EXCEPT ![p] = IF Executable THEN Executed ELSE NoProc]
    /\ UNCHANGED <<files, bin, writers, appVars, shell, lock, stopped, faulted>>

(* The steps a process takes by itself.                                    *)
Process(p) == \/ RunningCheckAndLock(p) \/ CheckAtStart(p) \/ Unlink(p)
              \/ Create(p) \/ CreateFails(p) \/ Copy(p) \/ InitSocket(p)
              \/ Teardown(p) \/ Restart(p)

Next == \/ App
        \/ \E s \in Shells : Shell(s)
        \/ \E p \in Procs : \/ Process(p) \/ CheckAtAccept(p) \/ Halt(p)
                            \/ AcceptError(p) \/ AuthComplete(p)

Spec == Init /\ [][Next]_vars

(* The app's main thread, the shells and the processes are scheduled.      *)
FairSpec ==
    /\ Spec
    /\ WF_vars(IsRunning \/ RunBackend)
    /\ \A s \in Shells : WF_vars(Shell(s))
    /\ \A p \in Procs : WF_vars(Process(p))

-----------------------------------------------------------------------------
TypeOK ==
    /\ update \in Versions \cup {None, Partial}
    /\ txt \in Versions \cup {None, Partial}
    /\ saved \in Versions \cup {None} /\ unwritten \in BOOLEAN
    /\ bin \in Versions \cup {None, Partial}
    /\ writers \subseteq Shells \cup Procs
    /\ app \in AppPC /\ reRunTimes \in 0..Retries
    /\ shell \in [Shells -> ShellPC]
    /\ proc \in [Procs -> [pc : ProcPC, ver : Versions \cup {None},
                           current : BOOLEAN, halt : BOOLEAN,
                           back : {"init", "serve"}]]
    /\ lock \in Procs \cup {Nobody}
    /\ stopped \in BOOLEAN /\ faulted \in BOOLEAN

(* The binary of a recorded version is completely on the disk, whenever    *)
(* the app was killed during the installation, and so is its version file  *)
(* unless its text got lost; then the file is empty.                       *)
SavedIsInstalled ==
    saved = New => update = New /\ (txt = New \/ (txt = Partial /\ unwritten))

(* What makes it inductive: while an installation is under way nothing is  *)
(* recorded, and what is unpacked and written out stays so.                *)
Installing == {"unpack", "lib", "version", "write", "save"}

InstallInv ==
    /\ SavedIsInstalled
    /\ app \in Installing => saved # New
    /\ app \in Installing \ {"unpack"} => update = New
    /\ app = "write" => txt = Partial
    /\ app = "save" => txt = New \/ (txt = Partial /\ unwritten)
    /\ unwritten => faulted

(* Once the app has installed its version and started the backend, there   *)
(* is always a process or a shell that will become one, although copies,   *)
(* updates and restarts get in each other's way, unless a halt was ordered *)
(* or the disk failed.                                                     *)
NeverLost ==
    saved = New /\ app = "idle" /\ ~stopped /\ ~faulted =>
        \/ \E p \in Procs : Running(p)
        \/ \E s \in Shells : shell[s] # "none"

(* The port is served by the holder of the lock only.                      *)
HolderListens == \A p \in Procs : Listens(p) => lock = p

(* What makes it inductive: from the lock to teardown a process holds it.  *)
LockInv == \A p \in Procs : proc[p].pc \notin {"none", "start", "restart"} => lock = p

(* What makes NeverLost inductive.  Nobody executes a file that is being   *)
(* written, and the lock is held by a process that is under way; a halted  *)
(* process is about to end.                                                *)
FileInv ==
    /\ InUse => bin \in Versions /\ writers = {}
    /\ \A w \in writers : \/ w \in Shells /\ shell[w] = "cp"
                          \/ w \in Procs /\ proc[w].pc = "copy"

HeldInv ==
    /\ lock # Nobody => proc[lock].pc \notin {"none", "start", "restart"}
    /\ \A p \in Procs : proc[p].halt => proc[p].pc = "down" /\ stopped

(* Until the version is recorded nothing is started, so that there is at   *)
(* most the one process the old version has left.                          *)
EarlyInv ==
    ~faulted /\ saved # New =>
        /\ app \notin {"run", "probe", "idle"}
        /\ \A s \in Shells : shell[s] = "none"
        /\ \A p, q \in Procs : Running(p) /\ Running(q) => p = q

(* That one may have copied a half unpacked file over its own.  Then it is *)
(* on its way out, and the next shell to copy has not copied yet.          *)
Broken == bin \notin Versions /\ writers = {} /\ \A p \in Procs : proc[p].pc # "create"

BrokenInv ==
    ~faulted /\ Broken =>
        /\ \A p \in Procs : proc[p].pc \in {"none", "down", "restart"}
        /\ \A s \in Shells : shell[s] \in {"none", "start"}
        /\ saved = New /\ app = "idle" => \E s \in Shells : shell[s] = "start"

(* And what there is gets to serve the port: restarts come to an end.      *)
Serves ==
    (saved = New /\ app = "idle" /\ ~faulted)
        ~> (stopped \/ app # "idle" \/ \E p \in Procs : Listens(p))
=============================================================================
