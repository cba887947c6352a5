---------------------------- MODULE LoopTeardown ----------------------------
(* Runtime/eval_harness.py: the IsolatedLoopTeardown contexts of one process *)
(* (of trajectories and of others), each with its pool of threads and its    *)
(* directory, and the export directory they share.                           *)
EXTENDS Naturals, FiniteSets

CONSTANTS Context,
          File,     \* base names
          Exported, \* those with a suffix that is exported from anywhere
          MaxFiles  \* bound: files a job writes

NoContext == 0
ASSUME TeardownAssumption == NoContext \notin Context /\ Exported \subseteq File

\* The directory of a context, and "artifacts" in it.
Dir == {"scratch", "artifacts"}

VARIABLES
  context,   \* context -> [phase, dir, todo, open, files, job]: the walk is in dir, with todo
             \* to copy and the file in open being copied; job is the function submitted
  exports,   \* base name -> the file [of, dir] it was copied from, and whether it is whole
  saved,     \* history: the files <<context, dir, name>> whose copy ended well
  warned       \* history: those of whose loss there is a warning

teardownVars == <<context, exports, saved, warned>>

Export(c, dir, state) == [of |-> c, dir |-> dir, state |-> state]
NoExport == Export(NoContext, "scratch", "none")

TeardownTypeOK ==
  /\ context \in [Context -> [phase: {"new", "set", "copying", "exported", "torn"}, dir: Dir,
                              todo: SUBSET File, open: SUBSET File,
                              files: SUBSET (Dir \X File),
                              job: {"none", "running", "left", "ended"}]]
  /\ exports \in [File -> [of: Context \cup {NoContext}, dir: Dir,
                           state: {"none", "part", "whole", "mixed"}]]
  /\ saved \subseteq Context \X Dir \X File /\ warned \subseteq Context \X Dir \X File

TeardownInit ==
  /\ context = [c \in Context |-> [phase |-> "new", dir |-> "scratch", todo |-> {}, open |-> {},
                                   files |-> {}, job |-> "none"]]
  /\ exports = [f \in File |-> NoExport]
  /\ saved = {} /\ warned = {}

setup(c) ==
  /\ context[c].phase = "new"
  /\ context' = [context EXCEPT ![c].phase = "set"]
  /\ UNCHANGED <<exports, saved, warned>>

\* run_isolated(), which waits for the job.
JobStarts(c) ==
  /\ context[c].phase = "set" /\ context[c].job = "none"
  /\ context' = [context EXCEPT ![c].job = "running"]
  /\ UNCHANGED <<exports, saved, warned>>

JobWrites(c, dir, f) ==
  /\ context[c].phase \in {"set", "copying", "exported"}
  /\ context[c].job \in {"running", "left"}
  /\ Cardinality(context[c].files \cup {<<dir, f>>}) <= MaxFiles
  /\ context' = [context EXCEPT ![c].files = @ \cup {<<dir, f>>}]
  /\ UNCHANGED <<exports, saved, warned>>

\* A thread cannot be cancelled: a job that timed out goes on until it ends.
JobEnds(c) ==
  /\ \/ context[c].job = "running" /\ context' = [context EXCEPT ![c].job = "none"]
     \/ context[c].job = "left" /\ context' = [context EXCEPT ![c].job = "ended"]
  /\ UNCHANGED <<exports, saved, warned>>

\* Mutant: a file is exported by its suffix alone.
FoundBySuffix(c, dir) == {f \in File: <<dir, f>> \in context[c].files /\ f \in Exported}

\* What os.walk() lists in a directory when it gets there, as far as it is exported.
Found(c, dir) ==
  {f \in File: <<dir, f>> \in context[c].files /\ (f \in Exported \/ dir = "artifacts")}

\* teardown(), by the time-out of a job or at the end of the with block, when the
\* export directory can be made, and when it cannot.
ExportStarts(c) ==
  /\ context[c].phase = "set"
  /\ context' = [context EXCEPT ![c].phase = "copying", ![c].todo = Found(c, "scratch"),
                   ![c].job = IF @ = "running" THEN "left" ELSE @]
  /\ UNCHANGED <<exports, saved, warned>>

ExportFails(c) ==
  /\ context[c].phase = "set"
  /\ context' = [context EXCEPT ![c].phase = "exported",
                   ![c].job = IF @ = "running" THEN "left" ELSE @]
  /\ warned' = warned \cup {p \in {c} \X Dir \X File: p[3] \in Found(c, p[2])}
  /\ UNCHANGED <<exports, saved>>

\* copy2() to the base name: first what stands there is truncated.
CopyOpens(c, f) ==
  /\ context[c].phase = "copying" /\ context[c].open = {} /\ f \in context[c].todo
  /\ context' = [context EXCEPT ![c].todo = @ \ {f}, ![c].open = {f}]
  /\ exports' = [exports EXCEPT ![f] = Export(c, context[c].dir, "part")]
  /\ UNCHANGED <<saved, warned>>

\* Where another context wrote the same name meanwhile, either or a mixture stands.
CopyEnds(c, f) ==
  /\ context[c].phase = "copying" /\ f \in context[c].open
  /\ context' = [context EXCEPT ![c].open = {}]
  /\ LET mine(state) == Export(c, context[c].dir, state) IN
     \/ exports' = [exports EXCEPT ![f] = mine("whole")]
     \/ /\ exports[f] # mine("part")
        /\ exports' = exports \/ exports' = [exports EXCEPT ![f].state = "mixed"]
  /\ saved' = saved \cup {<<c, context[c].dir, f>>}
  /\ UNCHANGED warned

\* Any error of copy2(), on opening or with some of it written, is a warning and
\* the next file follows.
CopyFails(c, f) ==
  /\ context[c].phase = "copying"
  /\ f \in context[c].open \/ (context[c].open = {} /\ f \in context[c].todo)
  /\ context' = [context EXCEPT ![c].todo = @ \ {f}, ![c].open = {}]
  /\ warned' = warned \cup {<<c, context[c].dir, f>>}
  /\ UNCHANGED <<exports, saved>>

\* The walk goes down to the artifacts, and after them the pool is shut down.
WalkGoesOn(c) ==
  /\ context[c].phase = "copying" /\ context[c].todo = {} /\ context[c].open = {}
  /\ \/ /\ context[c].dir = "scratch"
        /\ context' = [context EXCEPT ![c].dir = "artifacts", ![c].todo = Found(c, "artifacts")]
     \/ /\ context[c].dir = "artifacts"
        /\ context' = [context EXCEPT ![c].phase = "exported"]
  /\ UNCHANGED <<exports, saved, warned>>

\* Then the directory goes, whatever was lost, with what a job that was left wrote
\* meanwhile. The second call of teardown(), by __exit__, does nothing.
Cleans(c) ==
  /\ context[c].phase = "exported"
  /\ context' = [context EXCEPT ![c].phase = "torn", ![c].files = {}]
  /\ UNCHANGED <<exports, saved, warned>>

TeardownNext == \E c \in Context:
  \/ setup(c) \/ JobStarts(c) \/ JobEnds(c) \/ ExportStarts(c) \/ ExportFails(c)
  \/ WalkGoesOn(c) \/ Cleans(c)
  \/ \E f \in File: \/ \E dir \in Dir: JobWrites(c, dir, f)
                    \/ CopyOpens(c, f) \/ CopyEnds(c, f) \/ CopyFails(c, f)

TeardownSpec == TeardownInit /\ [][TeardownNext]_teardownVars

----------------------------------------------------------------------------
\* The copy of a file has been begun or given up.
Tried(c, dir, f) ==
  \/ <<c, dir, f>> \in saved \cup warned
  \/ f \in context[c].open /\ dir = context[c].dir

\* No other context writes the name f.
Alone(c, f) == \A o \in Context \ {c}, dir \in Dir: ~Tried(o, dir, f)

\* When a directory is about to go whose job came to its end in time, each of its
\* files that is an artifact or has a suffix of the list was copied or there is a
\* warning of its loss. What stands whole under a name was copied without error;
\* and where no other context wrote the name, what was copied stands there whole,
\* that of the artifacts before that of the directory around them.
ArtifactsAccounted ==
  /\ TeardownTypeOK
  /\ \A c \in Context: context[c].phase = "exported" /\ context[c].job = "none" =>
       \A p \in context[c].files: p[1] = "artifacts" \/ p[2] \in Exported =>
         <<c, p[1], p[2]>> \in saved \cup warned
  /\ \A f \in File: exports[f].state = "whole" => <<exports[f].of, exports[f].dir, f>> \in saved
  /\ \A c \in Context, f \in File: Alone(c, f) =>
       /\ <<c, "artifacts", f>> \in saved => exports[f] = Export(c, "artifacts", "whole")
       /\ <<c, "scratch", f>> \in saved /\ ~Tried(c, "artifacts", f) =>
            exports[f] = Export(c, "scratch", "whole")

=============================================================================
