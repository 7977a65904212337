------------------------------- MODULE Driver -------------------------------
(***************************************************************************)
(* main and runTestForFile (src/main.cpp), with the optimizer and the      *)
(* generator of object files that they call: what a run of the compiler    *)
(* leaves on disk, and what the next run finds there.                      *)
(*                                                                         *)
(* A file yields four artefacts, numbered in the order in which they are   *)
(* written: the unoptimized IR and its object file, the optimized IR and   *)
(* its object file.  What becomes of a source is decided by the parser,    *)
(* the analyzer and the generator, which have modules of their own; here   *)
(* it is a property of the source.                                         *)
(***************************************************************************)
EXTENDS Integers

CONSTANTS FileCount,  \* the number of files that main compiles, in order
          MaxRuns     \* bounds the runs of the compiler

ASSUME DriverAssumption == FileCount \in Nat \ {0} /\ MaxRuns \in Nat

Files     == 1..FileCount
Artefacts == 1..4
IRs       == {1, 3}

\* The parser, the analyzer or the generator throws; the generator crashes; it
\* makes a module that does not verify, or one that does.
Sources == {"malformed", "rejected", "unsupported", "fatal", "invalid", "valid"}

\* What LLVM finds of the host: no target, a target that emits no objects, or
\* one that does.
Hosts == {"unknown", "noObjects", "able"}

Stages == {"off", "open", "parse", "analyze", "generate", "IR", "object", "emit", "optimize"}
Reports == {"unopened", "failed", "unwritten", "unemitted"}  \* on the error stream

VARIABLES host,
          disk,      \* of each artefact: the run that opened it last, 0 if none
                     \* did, whether it is whole, and the module it was made of
          run,       \* the number of the present or last run
          stage, at, \* where main is, and the file; past the last one at the end
          source,    \* the text that was read
          writing,   \* the IR that is next, or whose object file is next
          module,
          told       \* what was reported on each file in this run

vars == <<host, disk, run, stage, at, source, writing, module, told>>

NotWritten == [run |-> 0, whole |-> FALSE, of |-> "none"]
-----------------------------------------------------------------------------
GoTo(s, w, m) == /\ stage' = s /\ writing' = w /\ module' = m
                 /\ UNCHANGED <<host, run, at, source>>

Advance(s) == GoTo(s, writing, module) /\ UNCHANGED <<disk, told>>

\* Slips: the same file again; one file more.
NextFileSame == /\ at' = at
                /\ stage' = IF at = FileCount THEN "off" ELSE "open"
                /\ source' = "none" /\ writing' = 1 /\ module' = "none"
                /\ UNCHANGED <<host, run>>
NextFileOneMore == /\ at' = at + 1
                   /\ stage' = IF at > FileCount THEN "off" ELSE "open"
                   /\ source' = "none" /\ writing' = 1 /\ module' = "none"
                   /\ UNCHANGED <<host, run>>

\* runTestForFile returns, and main takes the next file.
NextFile == /\ at' = at + 1
            /\ stage' = IF at = FileCount THEN "off" ELSE "open"
            /\ source' = "none" /\ writing' = 1 /\ module' = "none"
            /\ UNCHANGED <<host, run>>

Report(r) == told' = [told EXCEPT ![at] = @ \cup {r}]
GiveUp(r) == NextFile /\ Report(r) /\ UNCHANGED disk

\* A slip: the try is around the loop over the files.
CaughtByMain == /\ stage' = "off" /\ at' = FileCount + 1
                /\ source' = "none" /\ writing' = 1 /\ module' = "none"
                /\ Report("failed") /\ UNCHANGED <<host, run, disk>>

\* An exception, caught for each file.
Caught == GiveUp("failed")

\* The process ends: nothing catches that.
Die == /\ stage' = "off" /\ source' = "none" /\ writing' = 1 /\ module' = "none"
       /\ UNCHANGED <<host, disk, run, at, told>>

\* The artefact a is opened, which empties it, and written if it is whole.
Put(a, whole) ==
  disk' = [disk EXCEPT ![at][a] = [run |-> run, whole |-> whole, of |-> module]]
-----------------------------------------------------------------------------
Start == /\ stage = "off" /\ run < MaxRuns
         /\ run' = run + 1 /\ stage' = "open" /\ at' = 1
         /\ told' = [f \in Files |-> {}]
         /\ UNCHANGED <<host, disk, source, writing, module>>

\* The author may have changed the file since the last run.
OpenSource ==
  /\ stage = "open"
  /\ \/ GiveUp("unopened")
     \/ /\ source' \in Sources /\ stage' = "parse"
        /\ UNCHANGED <<host, disk, run, at, writing, module, told>>

parseProgram ==
  stage = "parse" /\ IF source = "malformed" THEN Caught ELSE Advance("analyze")

analyze ==
  stage = "analyze" /\ IF source = "rejected" THEN Caught ELSE Advance("generate")

generate ==
  /\ stage = "generate"
  /\ CASE source = "unsupported" -> Caught
       [] source = "fatal"      -> Die
       [] OTHER                 -> GoTo("IR", 1, source) /\ UNCHANGED <<disk, told>>

\* A slip: no return.
WriteIRGoOn ==
  /\ stage = "IR"
  /\ GoTo("object", writing, module)
  /\ \/ Put(writing, TRUE) /\ UNCHANGED told
     \/ Report("unwritten") /\ UNCHANGED disk

WriteIR ==
  /\ stage = "IR"
  /\ \/ GoTo("object", writing, module) /\ Put(writing, TRUE) /\ UNCHANGED told
     \/ GiveUp("unwritten")

\* generateObjectFile, to the opening of the file.  A target that was not found
\* is dereferenced.  Whether the file could be opened is not asked, and LLVM
\* ends the process when what is written to it is lost.
OpenObject ==
  /\ stage = "object"
  /\ \/ host = "unknown" /\ Die
     \/ /\ host # "unknown"
        /\ GoTo("emit", writing, module) /\ Put(writing + 1, FALSE) /\ UNCHANGED told
     \/ host = "able" /\ Die
     \/ host = "noObjects" /\ Advance("emit")

\* The passes that generate code work on the module itself.  With one that is
\* not valid they crash or write something, and what was wrong may be gone then,
\* as a block without a terminator that no branch leads to.
AfterPasses ==
  IF host = "able" /\ module = "invalid" THEN {"invalid", "valid"} ELSE {module}

EmitObject ==
  /\ stage = "emit"
  /\ \/ host = "able" /\ module = "invalid" /\ Die
     \/ /\ IF host = "able" THEN Put(writing + 1, TRUE) /\ UNCHANGED told
                            ELSE Report("unemitted") /\ UNCHANGED disk
        /\ \/ writing = 1 /\ \E m \in AfterPasses : GoTo("optimize", 1, m)
           \/ writing = 3 /\ NextFile

\* A slip: the verdict is only printed.
OptimizeAnyway == stage = "optimize" /\ GoTo("IR", 3, module) /\ UNCHANGED <<disk, told>>

\* LLVMOptimizer::optimize: verifies, then runs its passes.
optimize ==
  /\ stage = "optimize"
  /\ IF module = "invalid" THEN Caught
                           ELSE GoTo("IR", 3, module) /\ UNCHANGED <<disk, told>>
-----------------------------------------------------------------------------
Init == /\ host \in Hosts
        /\ disk = [f \in Files |-> [a \in Artefacts |-> NotWritten]]
        /\ run = 0 /\ stage = "off" /\ at = FileCount + 1
        /\ source = "none" /\ writing = 1 /\ module = "none"
        /\ told = [f \in Files |-> {}]

Compile == \/ OpenSource \/ parseProgram \/ analyze \/ generate
           \/ WriteIR \/ OpenObject \/ EmitObject \/ optimize

\* No run is under way and none is started any more.
Over == stage = "off" /\ run = MaxRuns /\ UNCHANGED vars

Next == Start \/ Compile \/ Over

\* A run goes on, its stages being calls that return; nobody has to start one.
Spec == Init /\ [][Next]_vars /\ WF_vars(Compile)
-----------------------------------------------------------------------------
(***************************************************************************)
(* Properties.                                                             *)
(***************************************************************************)
TypeOK ==
  /\ host \in Hosts
  /\ disk \in [Files -> [Artefacts -> [run : 0..run, whole : BOOLEAN,
                                       of : {"none", "invalid", "valid"}]]]
  /\ run \in 0..MaxRuns
  /\ stage \in Stages /\ at \in 1..FileCount + 1
  /\ stage # "off" => at \in Files
  /\ source \in IF stage \in {"off", "open"} THEN {"none"} ELSE Sources
  /\ writing \in IRs /\ (stage \notin {"IR", "object", "emit"} => writing = 1)
  /\ module \in IF stage \in {"IR", "object", "emit", "optimize"}
                  THEN {"invalid", "valid"} ELSE {"none"}
  /\ told \in [Files -> SUBSET Reports]

\* Whatever run a file failed in, and for whatever reason, none of its artefacts
\* is newer than one that is written before it: an optimized module never lies
\* beside an unoptimized one of an older run.  When both are of one run, the
\* object file that was written before the verification is whole, unless there
\* are none on this host.
ArtefactsInOrder ==
  \A f \in Files : LET d == disk[f] IN
    /\ \A i, j \in Artefacts :
         i < j /\ (i \in IRs \/ host # "noObjects") => d[i].run >= d[j].run
    /\ d[3].run > 0 /\ d[3].run = d[1].run => d[1].whole /\ (d[2].whole \/ host = "noObjects")

\* No optimized IR or object comes from a module that does not verify, although
\* the object file that is there already may; what such a file has from earlier
\* runs stays as it was.
OptimizedIsValid ==
  \A f \in Files : \A a \in {3, 4} : disk[f][a].run > 0 => disk[f][a].of = "valid"

Current(f, a) == disk[f][a].run = run

\* When a run is over, every file that was taken is accounted for: one on which
\* nothing was reported has four whole artefacts of this run.  If the process
\* died, the file it died on has nothing of this run or an IR without a whole
\* object, and the files after it have nothing and no report.
EveryFileAccountedFor ==
  stage = "off" /\ run > 0 =>
    \A f \in Files :
      /\ f < at /\ told[f] = {} => \A a \in Artefacts : Current(f, a) /\ disk[f][a].whole
      /\ f = at => \/ \A a \in Artefacts : ~Current(f, a)
                   \/ \E a \in IRs : Current(f, a) /\ ~(Current(f, a + 1) /\ disk[f][a + 1].whole)
      /\ f > at => told[f] = {} /\ \A a \in Artefacts : ~Current(f, a)

\* A run of the compiler ends, whatever its files are.
RunEnds == stage # "off" ~> stage = "off"
=============================================================================
