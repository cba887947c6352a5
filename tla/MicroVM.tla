------------------------------- MODULE MicroVM ------------------------------
(* Runtime/sandbox_microvm.py: the calls execute_isolated_code and           *)
(* compile_and_run_unikernel, their processes, their files and their         *)
(* time-outs. What a workload prints and the command lines are left out, a   *)
(* process exits when it likes, with any code, or never.                     *)
EXTENDS Naturals, FiniteSets

CONSTANTS VmCall,        \* calls of the scheduler, concurrent
          UnikernelCall  \* those of compile_and_run_unikernel

ASSUME VmAssumption == UnikernelCall \subseteq VmCall

VARIABLES
  installed,  \* the programs that the host has
  vm          \* call -> [phase, started, running, files, code]: processes are
              \* numbered as they are started

vmVars == <<installed, vm>>

Programs == {"runsc", "firecracker", "docker", "python"}
\* The result of a call; "raised" is an exception that reaches the caller.
VmEnded == {"answered", "raised"}
\* The try of execute_isolated_code, its handler of FileNotFoundError, and
\* execute_unikernel.
VmWaiting == {"sandboxed", "fallback", "host", "unikernel"}

VmTypeOK ==
  /\ installed \subseteq Programs
  /\ vm \in [VmCall -> [phase: {"new", "compiled"} \cup VmWaiting \cup VmEnded,
                        started: 0..2, running: SUBSET (1..2), files: BOOLEAN,
                        code: {"none", "zero", "other"}]]

VmInit ==
  /\ installed \in SUBSET Programs
  /\ vm = [c \in VmCall |-> [phase |-> "new", started |-> 0, running |-> {}, files |-> FALSE,
                             code |-> "none"]]

VmKeeps == UNCHANGED installed

Becomes(c, rec) == vm' = [vm EXCEPT ![c] = rec] /\ VmKeeps

\* r with one more process, waited for with a time-out of its own.
WithProcess(r, phase) ==
  [r EXCEPT !.phase = phase, !.started = @ + 1, !.running = @ \cup {r.started + 1}]

\* with TemporaryDirectory: the end of the block removes the files, on every
\* path out of it.
LeavesBlock(r, phase, code) == [r EXCEPT !.phase = phase, !.files = FALSE, !.code = code]

----------------------------------------------------------------------------
(* execute_isolated_code                                                     *)
\* _detect_best_runtime and the choice of the command: only a host that has
\* docker, and neither runsc nor firecracker, uses docker.
Command == IF "docker" \in installed /\ installed \cap {"runsc", "firecracker"} = {}
             THEN "docker" ELSE "runsc"

Launch(c) ==
  /\ c \notin UnikernelCall /\ vm[c].phase = "new"
  /\ LET r == [vm[c] EXCEPT !.files = TRUE] IN
     \/ Command \in installed /\ Becomes(c, WithProcess(r, "sandboxed"))
     \/ Command \notin installed /\ Becomes(c, WithProcess(r, "host"))
     \/ Becomes(c, LeavesBlock(r, "answered", "other")) \* the launch raises: -2

\* The process waited for exits by itself; a docker client that says that its
\* daemon is away is followed by a process of the host, in the same try.
Exits(c, code) ==
  /\ vm[c].phase \in {"sandboxed", "fallback", "host"}
  /\ vm[c].started \in vm[c].running
  /\ LET r == [vm[c] EXCEPT !.running = @ \ {vm[c].started}] IN
     \/ Becomes(c, LeavesBlock(r, "answered", code))
     \/ /\ vm[c].phase = "sandboxed" /\ Command = "docker" /\ code = "other"
        /\ Becomes(c, WithProcess(r, "fallback"))

\* Mutant: the process of the sandbox is killed, not the fallback.
KillsSandbox(r) == [r EXCEPT !.running = @ \ {1}]

\* except TimeoutError: proc is the process started last.
KillsProcess(r) == [r EXCEPT !.running = @ \ {r.started}]

\* A time-out inside the try is handled; one inside the handler of
\* FileNotFoundError is not.
TimesOut(c) ==
  \/ /\ vm[c].phase \in {"sandboxed", "fallback"}
     /\ Becomes(c, LeavesBlock(KillsProcess(vm[c]), "answered", "other"))
  \/ /\ vm[c].phase = "host"
     /\ Becomes(c, LeavesBlock(vm[c], "raised", "none"))

----------------------------------------------------------------------------
(* compile_and_run_unikernel                                                 *)
\* An image beyond 5 MB is refused after it has been written.
Compile(c) ==
  /\ c \in UnikernelCall /\ vm[c].phase = "new"
  /\ \/ Becomes(c, [vm[c] EXCEPT !.phase = "compiled", !.files = TRUE])
     \/ Becomes(c, [vm[c] EXCEPT !.phase = "raised", !.files = TRUE])

\* Without firecracker the entry point is run by the host's python.
Boot(c) ==
  /\ vm[c].phase = "compiled"
  /\ IF installed \cap {"firecracker", "python"} # {}
       THEN Becomes(c, WithProcess(vm[c], "unikernel"))
       ELSE Becomes(c, LeavesBlock(vm[c], "raised", "none"))

\* The files go in the finally; the process that was timed out goes on.
UnikernelExits(c, code) ==
  /\ vm[c].phase = "unikernel" /\ vm[c].running # {}
  /\ Becomes(c, LeavesBlock([vm[c] EXCEPT !.running = {}], "answered", code))

UnikernelTimesOut(c) ==
  /\ vm[c].phase = "unikernel"
  /\ Becomes(c, LeavesBlock(vm[c], "answered", "other"))

----------------------------------------------------------------------------
\* The caller is cancelled while it waits for a process: no handler runs, only
\* the block and the finally are left.
CallCancelled(c) ==
  /\ vm[c].phase \in VmWaiting
  /\ Becomes(c, LeavesBlock(vm[c], "raised", "none"))

\* A process nobody waits for any more exits.
OrphanExits(c) ==
  /\ vm[c].phase \in VmEnded
  /\ \E p \in vm[c].running: Becomes(c, [vm[c] EXCEPT !.running = @ \ {p}])

VmNext == \E c \in VmCall:
  \/ Launch(c) \/ TimesOut(c) \/ Compile(c) \/ Boot(c) \/ UnikernelTimesOut(c)
  \/ \E code \in {"zero", "other"}: Exits(c, code) \/ UnikernelExits(c, code)
  \/ CallCancelled(c) \/ OrphanExits(c)

VmSpec == VmInit /\ [][VmNext]_vmVars

----------------------------------------------------------------------------
\* When execute_isolated_code answers, on whatever path, none of its processes
\* runs any more and its directory is gone; and no call that ended leaves files,
\* a unikernel too large to be accepted excepted.
NothingLeftBehind ==
  /\ VmTypeOK
  /\ \A c \in VmCall:
       /\ vm[c].phase = "answered" /\ c \notin UnikernelCall => vm[c].running = {}
       /\ vm[c].phase \in VmEnded /\ vm[c].started > 0 => ~vm[c].files

=============================================================================
