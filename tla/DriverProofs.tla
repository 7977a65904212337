---------------------------- MODULE DriverProofs ----------------------------
(***************************************************************************)
(* What Driver says of the artefacts on disk, for any number of files and  *)
(* of runs.                                                                *)
(***************************************************************************)
EXTENDS Driver, TLAPS

\* The artefacts of the file under way that this run has opened: 1..Opened.
Opened == CASE stage = "IR"       -> writing - 1
            [] stage = "object"   -> writing
            [] stage = "emit"     -> writing + 1
            [] stage = "optimize" -> 2
            [] OTHER              -> 0

\* They are of this run and whole, but for the object file that is being
\* written, and the others are older.
Progress ==
  stage # "off" =>
    /\ \A a \in Artefacts : a > Opened => ~Current(at, a)
    /\ \A a \in Artefacts :
         a <= Opened /\ (a \in IRs \/ host # "noObjects") =>
           Current(at, a) /\ (disk[at][a].whole \/ (stage = "emit" /\ a = writing + 1))
    /\ stage = "emit" /\ host # "noObjects" => ~disk[at][writing + 1].whole
    /\ writing = 3 => module = "valid"
    /\ stage = "optimize" \/ writing = 3 => told[at] # {} \/ host = "able"
    /\ stage = "emit" => host # "unknown"

\* The files before and after the one under way.
Others ==
  run > 0 =>
    \A f \in Files :
      /\ f < at /\ told[f] = {} => \A a \in Artefacts : Current(f, a) /\ disk[f][a].whole
      /\ f > at => told[f] = {} /\ \A a \in Artefacts : ~Current(f, a)

\* The file that the process died on.
Deceased ==
  stage = "off" /\ run > 0 /\ at \in Files =>
    \/ \A a \in Artefacts : ~Current(at, a)
    \/ \E a \in IRs : Current(at, a) /\ ~(Current(at, a + 1) /\ disk[at][a + 1].whole)

Started == stage # "off" => run > 0

\* What the stages before have let pass.
Filtered == /\ stage \in {"analyze", "generate"} => source # "malformed"
            /\ stage = "generate" => source # "rejected"

IInv == /\ TypeOK /\ ArtefactsInOrder /\ OptimizedIsValid
        /\ Progress /\ Others /\ Deceased /\ Started /\ Filtered
-----------------------------------------------------------------------------
\* What Put does, entry by entry.
LEMMA PutLemma ==
  ASSUME TypeOK, at \in Files, module \in {"invalid", "valid"},
         NEW a \in Artefacts, NEW whole \in BOOLEAN, Put(a, whole)
  PROVE  /\ disk' \in [Files -> [Artefacts -> [run : 0..run, whole : BOOLEAN,
                                              of : {"none", "invalid", "valid"}]]]
         /\ \A f \in Files : \A b \in Artefacts :
              (f # at \/ b # a) => disk'[f][b] = disk[f][b]
         /\ disk'[at][a].run = run /\ disk'[at][a].whole = whole /\ disk'[at][a].of = module
<1>. DEFINE new == [run |-> run, whole |-> whole, of |-> module]
<1>1. run \in 0..run
  BY DriverAssumption DEF TypeOK
<1>2. new \in [run : 0..run, whole : BOOLEAN, of : {"none", "invalid", "valid"}]
  BY <1>1
<1>3. disk' = [disk EXCEPT ![at] = [disk[at] EXCEPT ![a] = new]]
  BY DEF Put
<1>4. [disk[at] EXCEPT ![a] = new] \in [Artefacts -> [run : 0..run, whole : BOOLEAN,
                                                     of : {"none", "invalid", "valid"}]]
  BY <1>2 DEF TypeOK
<1>. QED
  BY <1>3, <1>4 DEF TypeOK

LEMMA InitInv == Init => IInv
<1>. SUFFICES ASSUME Init PROVE IInv
  OBVIOUS
<1>1. TypeOK
  BY DriverAssumption DEF Init, TypeOK, NotWritten, Stages, Files, Artefacts, IRs, Reports
<1>2. ArtefactsInOrder /\ OptimizedIsValid
  BY DEF Init, ArtefactsInOrder, OptimizedIsValid, NotWritten, Artefacts
<1>3. Progress /\ Others /\ Deceased /\ Started /\ Filtered
  BY DEF Init, Progress, Others, Deceased, Started, Filtered
<1>. QED
  BY <1>1, <1>2, <1>3 DEF IInv

LEMMA StartInv == IInv /\ Start => IInv'
<1>. SUFFICES ASSUME IInv, Start PROVE IInv'
  OBVIOUS
<1>. USE DEF IInv, Start
<1>1. run \in Nat /\ run' = run + 1 /\ run' \in 0..MaxRuns
  BY DriverAssumption DEF TypeOK
<1>2. \A f \in Files : \A a \in Artefacts :
        /\ disk'[f][a] = disk[f][a]
        /\ disk[f][a].run \in 0..run /\ disk[f][a].run \in 0..run' /\ disk[f][a].run # run'
  BY <1>1 DEF TypeOK
<1>3. 1 \in Files
  BY DriverAssumption DEF Files
<1>4. TypeOK'
  <2>1. disk' \in [Files -> [Artefacts -> [run : 0..run', whole : BOOLEAN,
                                          of : {"none", "invalid", "valid"}]]]
    <3>1. 0..run \subseteq 0..run'
      BY <1>1
    <3>. QED
      BY <3>1 DEF TypeOK
  <2>2. /\ host' \in Hosts /\ run' \in 0..MaxRuns /\ stage' = "open" /\ at' = 1
        /\ source' = "none" /\ writing' = 1 /\ module' = "none"
    BY <1>1 DEF TypeOK, IRs
  <2>3. told' \in [Files -> SUBSET Reports]
    OBVIOUS
  <2>. QED
    BY <2>1, <2>2, <2>3, <1>3, DriverAssumption DEF TypeOK, Stages, IRs, Files
<1>5. ArtefactsInOrder' /\ OptimizedIsValid'
  BY DEF ArtefactsInOrder, OptimizedIsValid
<1>6. Progress'
  <2>1. Opened' = 0 /\ writing' = 1 /\ stage' = "open" /\ at' = 1
    BY DEF Opened, TypeOK
  <2>2. \A a \in Artefacts : ~Current(at, a)' /\ a > Opened'
    BY <2>1, <1>2, <1>3 DEF Current, Artefacts
  <2>. QED
    BY <2>1, <2>2 DEF Progress, Artefacts
<1>7. Others'
  BY <1>2 DEF Others, Current, Files
<1>8. Deceased' /\ Started' /\ Filtered'
  BY <1>1 DEF Deceased, Started, Filtered
<1>. QED
  BY <1>4, <1>5, <1>6, <1>7, <1>8

\* The next file, when the present one has been reported or is complete.
LEMMA NextFileInv ==
  ASSUME IInv, stage # "off", NextFile,
         told' \in [Files -> SUBSET Reports],
         \A f \in Files : f # at => told'[f] = told[f],
         disk' \in [Files -> [Artefacts -> [run : 0..run, whole : BOOLEAN,
                                            of : {"none", "invalid", "valid"}]]],
         ArtefactsInOrder', OptimizedIsValid',
         \A f \in Files : f # at => \A a \in Artefacts : disk'[f][a] = disk[f][a],
         told'[at] = {} => \A a \in Artefacts : disk'[at][a].run = run /\ disk'[at][a].whole
  PROVE  IInv'
<1>. USE DEF IInv, NextFile
<1>1. at \in Files /\ at \in 1..FileCount /\ FileCount \in Nat /\ run' = run /\ run > 0
  BY DriverAssumption DEF TypeOK, Files, Started
<1>2. TypeOK'
  <2>1. at' \in 1..FileCount + 1 /\ (stage' # "off" => at' \in Files)
    BY <1>1 DEF Files
  <2>. QED
    BY <2>1 DEF TypeOK, Stages, IRs
<1>3. Others'
  <2>. SUFFICES ASSUME NEW f \in Files
                PROVE  /\ f < at' /\ told'[f] = {} =>
                            \A a \in Artefacts : disk'[f][a].run = run /\ disk'[f][a].whole
                       /\ f > at' => /\ told'[f] = {}
                                     /\ \A a \in Artefacts : disk'[f][a].run # run
    BY <1>1 DEF Others, Current
  <2>1. CASE f = at
    BY <2>1, <1>1
  <2>2. CASE f # at
    <3>1. /\ told'[f] = told[f]
          /\ \A a \in Artefacts : disk'[f][a].run = disk[f][a].run
                                  /\ disk'[f][a].whole = disk[f][a].whole
      BY <2>2
    <3>2. (f < at' => f < at) /\ (f > at' => f > at)
      BY <2>2, <1>1 DEF Files
    <3>. QED
      BY <3>1, <3>2, <1>1 DEF Others, Current
  <2>. QED
    BY <2>1, <2>2
<1>4. Progress'
  <2>. SUFFICES ASSUME stage' # "off" PROVE Progress'
    BY DEF Progress
  <2>1. at' \in Files /\ at' > at /\ stage' = "open"
    BY <1>1 DEF Files
  <2>2. \A a \in Artefacts : disk'[at'][a].run # run
    BY <2>1, <1>1 DEF Others, Current
  <2>. QED
    BY <2>1, <2>2, <1>1 DEF Progress, Opened, Current, Artefacts
<1>5. Deceased'
  BY <1>1 DEF Deceased, Files
<1>6. Started' /\ Filtered'
  BY <1>1 DEF Started, Filtered
<1>. QED
  BY <1>2, <1>3, <1>4, <1>5, <1>6

LEMMA GiveUpInv ==
  ASSUME IInv, stage # "off", NEW r \in Reports, GiveUp(r)
  PROVE  IInv'
<1>1. NextFile /\ at \in Files /\ run' = run /\ disk' = disk /\ host' = host
  BY DEF IInv, TypeOK, GiveUp, NextFile
<1>2. /\ told' \in [Files -> SUBSET Reports] /\ r \in told'[at]
      /\ \A f \in Files : f # at => told'[f] = told[f]
  BY <1>1 DEF GiveUp, Report, IInv, TypeOK
<1>3. ArtefactsInOrder' /\ OptimizedIsValid'
  BY <1>1 DEF IInv, ArtefactsInOrder, OptimizedIsValid
<1>. QED
  BY <1>1, <1>2, <1>3, NextFileInv DEF IInv, TypeOK

\* The process dies with nothing done for the file, or with the object file
\* still to be written.
LEMMA DieInv ==
  ASSUME IInv, stage \in {"generate", "object", "emit"}, Die,
         stage = "emit" => host = "able"
  PROVE  IInv'
<1>. USE DEF IInv, Die
<1>1. /\ at \in Files /\ run' = run /\ disk' = disk /\ at' = at /\ told' = told /\ host' = host
      /\ stage' = "off" /\ run > 0
  BY DEF TypeOK, Started
<1>2. TypeOK'
  BY DEF TypeOK, Stages, IRs
<1>3. ArtefactsInOrder' /\ OptimizedIsValid' /\ Progress' /\ Others' /\ Started'
      /\ Filtered'
  BY <1>1 DEF ArtefactsInOrder, OptimizedIsValid, Progress, Others, Started, Filtered, Current
<1>4. Deceased'
  <2>1. CASE stage = "generate"
    BY <1>1, <2>1 DEF Deceased, Progress, Opened, Current, Artefacts
  <2>2. CASE stage = "object"
    <3>1. writing \in IRs /\ writing \in Artefacts /\ writing + 1 \in Artefacts
      BY DEF TypeOK, IRs, Artefacts
    <3>2. Current(at, writing) /\ ~Current(at, writing + 1)
      BY <2>2, <3>1 DEF Progress, Opened, Artefacts
    <3>. QED
      BY <1>1, <3>1, <3>2 DEF Deceased, Current
  <2>3. CASE stage = "emit"
    <3>1. writing \in IRs /\ writing \in Artefacts /\ writing + 1 \in Artefacts
      BY DEF TypeOK, IRs, Artefacts
    <3>2. Current(at, writing) /\ ~disk[at][writing + 1].whole
      BY <2>3, <3>1 DEF Progress, Opened, Artefacts
    <3>. QED
      BY <1>1, <3>1, <3>2 DEF Deceased, Current
  <2>. QED
    BY <2>1, <2>2, <2>3
<1>. QED
  BY <1>2, <1>3, <1>4

\* What the steps that go on to another stage of the file leave alone.
LEMMA OthersInv ==
  ASSUME IInv, at \in Files, at' = at, run' = run,
         \A f \in Files : f # at => told'[f] = told[f] /\ disk'[f] = disk[f]
  PROVE  Others'
<1>1. at \in Nat /\ Files \subseteq Nat
  BY DEF Files
<1>2. ASSUME run > 0, NEW f \in Files, f # at
      PROVE  /\ f < at /\ told[f] = {} => \A a \in Artefacts : Current(f, a) /\ disk[f][a].whole
             /\ f > at => told[f] = {} /\ \A a \in Artefacts : ~Current(f, a)
  BY <1>2 DEF IInv, Others
<1>3. ASSUME NEW f \in Files, f = at
      PROVE  ~(f < at) /\ ~(f > at)
  BY <1>1, <1>3
<1>. QED
  BY <1>2, <1>3 DEF Others, Current

LEMMA CompileStart ==
  ASSUME IInv, OpenSource \/ parseProgram \/ analyze \/ generate
  PROVE  IInv'
<1>1. at \in Files /\ stage # "off" /\ run > 0 /\ {"unopened", "failed"} \subseteq Reports
  BY DEF IInv, TypeOK, Started, OpenSource, parseProgram, analyze, generate, Reports
<1>2. CASE GiveUp("unopened") \/ GiveUp("failed")
  BY <1>1, <1>2, GiveUpInv
<1>3. CASE stage = "generate" /\ Die
  BY <1>3, DieInv
<1>4. CASE /\ stage \in {"open", "parse", "analyze", "generate"}
           /\ stage' \in {"parse", "analyze", "generate", "IR"}
           /\ writing' = 1 /\ source' \in Sources
           /\ module' \in IF stage' = "IR" THEN {"invalid", "valid"} ELSE {"none"}
           /\ UNCHANGED <<host, disk, run, at, told>>
           /\ Filtered'
  <2>1. TypeOK'
    BY <1>1, <1>4 DEF IInv, TypeOK, Stages, IRs
  <2>2. ArtefactsInOrder' /\ OptimizedIsValid' /\ Others' /\ Deceased' /\ Started'
    BY <1>1, <1>4 DEF IInv, ArtefactsInOrder, OptimizedIsValid, Others, Deceased, Started, Current
  <2>3. Progress'
    BY <1>1, <1>4 DEF IInv, Progress, Opened, Current, Artefacts
  <2>. QED
    BY <2>1, <2>2, <2>3, <1>4 DEF IInv
<1>5. CASE OpenSource
  BY <1>2, <1>4, <1>5 DEF OpenSource, Filtered, IInv, TypeOK
<1>6. CASE parseProgram
  BY <1>2, <1>4, <1>6 DEF parseProgram, Caught, Advance, GoTo, Filtered,
    IInv, TypeOK
<1>7. CASE analyze
  BY <1>2, <1>4, <1>7 DEF analyze, Caught, Advance, GoTo, Filtered,
    IInv, TypeOK
<1>8. CASE generate
  <2>1. CASE source = "unsupported"
    BY <1>2, <1>8, <2>1 DEF generate, Caught
  <2>2. CASE source = "fatal"
    BY <1>3, <1>8, <2>2 DEF generate
  <2>3. CASE source \notin {"unsupported", "fatal"}
    <3>1. stage = "generate" /\ GoTo("IR", 1, source) /\ UNCHANGED <<disk, told>>
      BY <1>8, <2>3 DEF generate
    <3>. QED
      BY <1>4, <3>1, <2>3 DEF GoTo, Filtered, IInv, TypeOK, Sources
  <2>. QED
    BY <2>1, <2>2, <2>3
<1>. QED
  BY <1>5, <1>6, <1>7, <1>8

\* An artefact that is opened is newer than all after it and as new as those
\* before it.
LEMMA PutInv ==
  ASSUME IInv, at \in Files, stage # "off", module \in {"invalid", "valid"},
         NEW a \in Artefacts, NEW whole \in BOOLEAN, Put(a, whole), host' = host,
         \A b \in Artefacts : b < a /\ (b \in IRs \/ host # "noObjects") => Current(at, b),
         a \in {3, 4} => module = "valid",
         a = 1 => whole,
         a \in {1, 2} => ~Current(at, 3),
         a = 3 => disk[at][1].whole /\ (disk[at][2].whole \/ host = "noObjects")
  PROVE  ArtefactsInOrder' /\ OptimizedIsValid'
<1>1. /\ \A f \in Files : \A b \in Artefacts :
           (f # at \/ b # a) => disk'[f][b] = disk[f][b]
      /\ disk'[at][a].run = run /\ disk'[at][a].whole = whole /\ disk'[at][a].of = module
  BY PutLemma DEF IInv
<1>2. run \in Nat /\ \A f \in Files : \A b \in Artefacts : disk[f][b].run \in 0..run
  BY DriverAssumption DEF IInv, TypeOK
<1>3. ArtefactsInOrder'
  <2>. SUFFICES ASSUME NEW f \in Files
                PROVE  /\ \A i, j \in Artefacts :
                            i < j /\ (i \in IRs \/ host # "noObjects") =>
                              disk'[f][i].run >= disk'[f][j].run
                       /\ disk'[f][3].run > 0 /\ disk'[f][3].run = disk'[f][1].run =>
                            disk'[f][1].whole /\ (disk'[f][2].whole \/ host = "noObjects")
    BY DEF ArtefactsInOrder
  <2>1. CASE f # at
    BY <2>1, <1>1 DEF IInv, ArtefactsInOrder, Artefacts
  <2>2. CASE f = at
    <3>1. ASSUME NEW i \in Artefacts, NEW j \in Artefacts,
                 i < j, i \in IRs \/ host # "noObjects"
          PROVE  disk'[f][i].run >= disk'[f][j].run
      <4>1. CASE i = a
        BY <4>1, <3>1, <2>2, <1>1, <1>2 DEF Artefacts
      <4>2. CASE j = a
        BY <4>2, <3>1, <2>2, <1>1, <1>2 DEF Current, Artefacts
      <4>3. CASE i # a /\ j # a
        BY <4>3, <3>1, <2>2, <1>1 DEF IInv, ArtefactsInOrder
      <4>. QED
        BY <4>1, <4>2, <4>3
    <3>2. ASSUME disk'[f][3].run > 0, disk'[f][3].run = disk'[f][1].run
          PROVE  disk'[f][1].whole /\ (disk'[f][2].whole \/ host = "noObjects")
      <4>1. {1, 2, 3, 4} = Artefacts
        BY DEF Artefacts
      <4>2. CASE a = 4
        BY <4>1, <4>2, <3>2, <2>2, <1>1 DEF IInv, ArtefactsInOrder
      <4>3. CASE a = 3
        BY <4>1, <4>3, <2>2, <1>1
      <4>4. CASE a = 2
        <5>1. 1 \in IRs /\ 1 < 2
          BY DEF IRs
        <5>2. disk'[at][1].run = run /\ disk'[at][3].run = disk[at][3].run
          BY <5>1, <4>1, <4>4, <1>1 DEF Current
        <5>. QED
          BY <5>2, <4>4, <3>2, <2>2 DEF Current
      <4>5. CASE a = 1
        BY <4>1, <4>5, <3>2, <2>2, <1>1 DEF Current
      <4>. QED
        BY <4>1, <4>2, <4>3, <4>4, <4>5
    <3>. QED
      BY <3>1, <3>2
  <2>. QED
    BY <2>1, <2>2
<1>4. OptimizedIsValid'
  BY <1>1, <1>2 DEF IInv, OptimizedIsValid, Artefacts
<1>. QED
  BY <1>3, <1>4

\* A stage that goes on with the file after Put, or without it.
LEMMA EmitInv ==
  ASSUME IInv, at \in Files, stage # "off", at' = at, run' = run, host' = host,
         told' \in [Files -> SUBSET Reports],
         \A f \in Files : f # at => told'[f] = told[f],
         stage' \in {"object", "emit", "optimize", "IR"},
         source' = source, writing' \in IRs, stage' = "optimize" => writing' = 1,
         module' \in {"invalid", "valid"},
         disk' \in [Files -> [Artefacts -> [run : 0..run, whole : BOOLEAN,
                                            of : {"none", "invalid", "valid"}]]],
         \A f \in Files : f # at => disk'[f] = disk[f],
         ArtefactsInOrder', OptimizedIsValid', Progress', stage # "open"
  PROVE  IInv'
<1>1. TypeOK'
  BY DEF IInv, TypeOK, Stages
<1>2. Others'
  BY OthersInv
<1>3. Deceased' /\ Started' /\ Filtered'
  BY DEF IInv, Deceased, Started, Filtered
<1>. QED
  BY <1>1, <1>2, <1>3 DEF IInv

LEMMA WriteIRInv == IInv /\ WriteIR => IInv'
<1>. SUFFICES ASSUME IInv, WriteIR PROVE IInv'
  OBVIOUS
<1>1. /\ at \in Files /\ stage = "IR" /\ writing \in {1, 3}
      /\ module \in {"invalid", "valid"} /\ "unwritten" \in Reports
  BY DEF WriteIR, IInv, TypeOK, IRs, Reports
<1>2. CASE GiveUp("unwritten")
  BY <1>1, <1>2, GiveUpInv
<1>3. CASE GoTo("object", writing, module) /\ Put(writing, TRUE) /\ UNCHANGED told
  <2>. USE DEF GoTo
  <2>1. writing \in Artefacts /\ {1, 2, 3, 4} = Artefacts /\ IRs = {1, 3}
    BY <1>1 DEF Artefacts, IRs
  <2>2. Opened = writing - 1
    BY <1>1 DEF Opened
  <2>3. /\ \A a \in Artefacts : a >= writing => ~Current(at, a)
        /\ writing = 3 => /\ Current(at, 1) /\ disk[at][1].whole /\ ~Current(at, 4)
                          /\ (host # "noObjects" => Current(at, 2) /\ disk[at][2].whole)
                          /\ module = "valid" /\ (told[at] # {} \/ host = "able")
    BY <1>1, <2>1, <2>2 DEF IInv, Progress
  <2>4. ArtefactsInOrder' /\ OptimizedIsValid'
    <3>1. \A b \in Artefacts : b < writing /\ (b \in IRs \/ host # "noObjects") => Current(at, b)
      BY <1>1, <2>1, <2>3
    <3>2. /\ writing \in {3, 4} => module = "valid"
          /\ writing \in {1, 2} => ~Current(at, 3)
          /\ writing = 3 => disk[at][1].whole /\ (disk[at][2].whole \/ host = "noObjects")
      BY <1>1, <2>1, <2>3
    <3>3. host' = host /\ stage # "off" /\ Put(writing, TRUE)
      BY <1>1, <1>3
    <3>. QED
      BY <1>1, <2>1, <3>1, <3>2, <3>3, PutInv
  <2>5. /\ disk' \in [Files -> [Artefacts -> [run : 0..run, whole : BOOLEAN,
                                              of : {"none", "invalid", "valid"}]]]
        /\ \A f \in Files : \A b \in Artefacts :
             (f # at \/ b # writing) => disk'[f][b] = disk[f][b]
        /\ disk'[at][writing].run = run /\ disk'[at][writing].whole
    BY <1>1, <1>3, <2>1, PutLemma DEF IInv
  <2>6. \A f \in Files : f # at => disk'[f] = disk[f]
    BY <1>3, <1>1 DEF Put, IInv, TypeOK
  <2>7. Progress'
    <3>1. Opened' = writing
      BY <1>3 DEF Opened
    <3>2. ASSUME NEW a \in Artefacts, a > writing
          PROVE  ~Current(at, a)'
      <4>1. a >= writing /\ a # writing /\ at' = at /\ run' = run
        BY <1>1, <1>3, <3>2, <2>1
      <4>2. disk'[at][a] = disk[at][a] /\ ~Current(at, a)
        BY <1>1, <4>1, <2>3, <2>5
      <4>. QED
        BY <4>1, <4>2 DEF Current
    <3>3. \A a \in Artefacts : a <= writing /\ (a \in IRs \/ host # "noObjects")
                                 => Current(at, a)' /\ disk'[at][a].whole
      BY <1>1, <1>3, <2>1, <2>3, <2>5 DEF Current
    <3>. QED
      BY <3>1, <3>2, <3>3, <2>3, <1>3 DEF Progress, Current
  <2>. QED
    BY <1>1, <1>3, <2>4, <2>5, <2>6, <2>7, EmitInv DEF IInv, TypeOK, IRs
<1>. QED
  BY <1>2, <1>3 DEF WriteIR

\* Where main is when it writes an object file.
LEMMA ObjectFacts ==
  ASSUME IInv, stage \in {"object", "emit"}
  PROVE  /\ at \in Files /\ module \in {"invalid", "valid"} /\ host \in Hosts
         /\ writing \in {1, 3} /\ writing \in Artefacts /\ writing + 1 \in Artefacts
         /\ {1, 2, 3, 4} = Artefacts /\ IRs = {1, 3}
         /\ \A a \in Artefacts : a > writing + 1 => ~Current(at, a)
         /\ stage = "object" => ~Current(at, writing + 1)
         /\ Current(at, writing) /\ disk[at][writing].whole
         /\ writing = 3 => /\ Current(at, 1) /\ disk[at][1].whole
                           /\ (host # "noObjects" => Current(at, 2) /\ disk[at][2].whole)
                           /\ module = "valid" /\ (told[at] # {} \/ host = "able")
<1>1. /\ at \in Files /\ module \in {"invalid", "valid"} /\ host \in Hosts
      /\ writing \in {1, 3} /\ {1, 2, 3, 4} = Artefacts /\ IRs = {1, 3} /\ stage # "off"
  BY DEF IInv, TypeOK, IRs, Artefacts
<1>2. writing \in Artefacts /\ writing + 1 \in Artefacts /\ writing + 1 # writing
  BY <1>1
<1>3. (stage = "object" /\ Opened = writing) \/ (stage = "emit" /\ Opened = writing + 1)
  BY DEF Opened
<1>. QED
  BY <1>1, <1>2, <1>3 DEF IInv, Progress

LEMMA PutObjectInv ==
  ASSUME IInv, stage \in {"object", "emit"}, NEW whole \in BOOLEAN,
         Put(writing + 1, whole), host' = host
  PROVE  /\ ArtefactsInOrder' /\ OptimizedIsValid'
         /\ disk' \in [Files -> [Artefacts -> [run : 0..run, whole : BOOLEAN,
                                               of : {"none", "invalid", "valid"}]]]
         /\ \A f \in Files : f # at => disk'[f] = disk[f]
         /\ \A b \in Artefacts : b # writing + 1 => disk'[at][b] = disk[at][b]
         /\ disk'[at][writing + 1].run = run /\ disk'[at][writing + 1].whole = whole
<1>1. ArtefactsInOrder' /\ OptimizedIsValid'
  <2>1. \A b \in Artefacts :
          b < writing + 1 /\ (b \in IRs \/ host # "noObjects") => Current(at, b)
    BY ObjectFacts
  <2>2. /\ writing + 1 \in {3, 4} => module = "valid"
        /\ writing + 1 \in {1, 2} => ~Current(at, 3)
        /\ writing + 1 # 3 /\ writing + 1 # 1
    BY ObjectFacts
  <2>. QED
    BY <2>1, <2>2, ObjectFacts, PutInv
<1>2. \A f \in Files : f # at => disk'[f] = disk[f]
  BY ObjectFacts DEF Put, IInv, TypeOK
<1>. QED
  BY <1>1, <1>2, ObjectFacts, PutLemma DEF IInv

LEMMA OpenObjectInv == IInv /\ OpenObject => IInv'
<1>. SUFFICES ASSUME IInv, OpenObject PROVE IInv'
  OBVIOUS
<1>1. stage = "object"
  BY DEF OpenObject
<1>2. CASE Die
  BY <1>1, <1>2, DieInv
<1>3. CASE GoTo("emit", writing, module) /\ host # "unknown" /\ UNCHANGED told
           /\ (Put(writing + 1, FALSE) \/ (host = "noObjects" /\ UNCHANGED disk))
  <2>1. at' = at /\ run' = run /\ host' = host /\ stage' = "emit" /\ writing' = writing
    BY <1>3 DEF GoTo
  <2>2. /\ ArtefactsInOrder' /\ OptimizedIsValid'
        /\ disk' \in [Files -> [Artefacts -> [run : 0..run, whole : BOOLEAN,
                                              of : {"none", "invalid", "valid"}]]]
        /\ \A f \in Files : f # at => disk'[f] = disk[f]
        /\ \A b \in Artefacts : b # writing + 1 => disk'[at][b] = disk[at][b]
        /\ host # "noObjects" => /\ disk'[at][writing + 1].run = run
                                 /\ ~disk'[at][writing + 1].whole
    <3>1. CASE Put(writing + 1, FALSE)
      BY <1>1, <2>1, <3>1, PutObjectInv
    <3>2. CASE host = "noObjects" /\ UNCHANGED disk
      BY <2>1, <3>2 DEF IInv, TypeOK, ArtefactsInOrder, OptimizedIsValid
    <3>. QED
      BY <1>3, <3>1, <3>2
  <2>3. Progress'
    <3>1. Opened' = writing + 1
      BY <2>1 DEF Opened
    <3>2. ASSUME NEW a \in Artefacts, a > writing + 1 PROVE ~Current(at, a)'
      <4>1. ~Current(at, a) /\ a # writing + 1
        BY <3>2, <1>1, ObjectFacts
      <4>. QED
        BY <4>1, <2>1, <2>2 DEF Current
    <3>3. ASSUME NEW a \in Artefacts, a <= writing + 1, a \in IRs \/ host # "noObjects"
          PROVE  Current(at, a)' /\ (disk'[at][a].whole \/ a = writing + 1)
      <4>1. CASE a = writing + 1
        <5>1. host # "noObjects"
          BY <4>1, <3>3, <1>1, ObjectFacts
        <5>. QED
          BY <4>1, <5>1, <2>1, <2>2 DEF Current
      <4>2. CASE a # writing + 1
        <5>1. Current(at, a) /\ disk[at][a].whole
          BY <4>2, <3>3, <1>1, ObjectFacts
        <5>. QED
          BY <4>2, <5>1, <2>1, <2>2 DEF Current
      <4>. QED
        BY <4>1, <4>2
    <3>4. writing = 3 => module' = "valid" /\ (told'[at] # {} \/ host = "able")
      BY <1>1, <1>3, ObjectFacts DEF GoTo
    <3>. QED
      BY <1>3, <2>1, <2>2, <3>1, <3>2, <3>3, <3>4 DEF Progress
  <2>4. /\ told' \in [Files -> SUBSET Reports] /\ \A f \in Files : f # at => told'[f] = told[f]
        /\ source' = source /\ writing' \in IRs /\ module' \in {"invalid", "valid"}
    BY <1>1, <1>3, ObjectFacts DEF IInv, TypeOK, GoTo
  <2>. QED
    BY <1>1, <2>1, <2>2, <2>3, <2>4, ObjectFacts, EmitInv
<1>. QED
  <2>1. CASE host = "noObjects" /\ Advance("emit")
    BY <1>3, <2>1 DEF Advance
  <2>2. CASE /\ host # "unknown"
             /\ GoTo("emit", writing, module) /\ Put(writing + 1, FALSE) /\ UNCHANGED told
    BY <1>3, <2>2
  <2>. QED
    BY <1>2, <2>1, <2>2 DEF OpenObject

LEMMA EmitObjectInv == IInv /\ EmitObject => IInv'
<1>. SUFFICES ASSUME IInv, EmitObject PROVE IInv'
  OBVIOUS
<1>1. stage = "emit" /\ host \in {"able", "noObjects"}
  <2>1. stage = "emit"
    BY DEF EmitObject
  <2>. QED
    BY <2>1 DEF IInv, Progress, TypeOK, Hosts
<1>2. CASE host = "able" /\ Die
  BY <1>1, <1>2, DieInv
<1>3. CASE /\ IF host = "able" THEN Put(writing + 1, TRUE) /\ UNCHANGED told
                               ELSE Report("unemitted") /\ UNCHANGED disk
           /\ \/ writing = 1 /\ \E m \in AfterPasses : GoTo("optimize", 1, m)
              \/ writing = 3 /\ NextFile
  <2>1. host' = host /\ run' = run
    BY <1>3 DEF GoTo, NextFile
  <2>2. /\ ArtefactsInOrder' /\ OptimizedIsValid'
        /\ disk' \in [Files -> [Artefacts -> [run : 0..run, whole : BOOLEAN,
                                              of : {"none", "invalid", "valid"}]]]
        /\ \A f \in Files : f # at => disk'[f] = disk[f]
        /\ \A b \in Artefacts : b # writing + 1 => disk'[at][b] = disk[at][b]
        /\ host # "noObjects" => /\ disk'[at][writing + 1].run = run
                                 /\ disk'[at][writing + 1].whole
    <3>1. CASE host = "able"
      BY <1>1, <1>3, <2>1, <3>1, PutObjectInv
    <3>2. CASE host = "noObjects"
      BY <1>3, <2>1, <3>2 DEF IInv, TypeOK, ArtefactsInOrder, OptimizedIsValid
    <3>. QED
      BY <1>1, <3>1, <3>2
  <2>3. /\ told' \in [Files -> SUBSET Reports] /\ \A f \in Files : f # at => told'[f] = told[f]
        /\ host = "noObjects" => told'[at] # {}
    <3>1. "unemitted" \in Reports
      BY DEF Reports
    <3>2. told \in [Files -> SUBSET Reports] /\ at \in Files
      BY <1>1, ObjectFacts DEF IInv, TypeOK
    <3>3. CASE host = "able"
      BY <1>3, <3>2, <3>3
    <3>4. CASE host = "noObjects"
      <4>1. told' = [told EXCEPT ![at] = @ \cup {"unemitted"}]
        BY <1>3, <3>4 DEF Report
      <4>. QED
        BY <4>1, <3>1, <3>2
    <3>. QED
      BY <1>1, <3>3, <3>4
  <2>4. ASSUME NEW a \in Artefacts, a <= writing + 1, a \in IRs \/ host # "noObjects"
        PROVE  disk'[at][a].run = run /\ disk'[at][a].whole
    <3>1. CASE a = writing + 1
      <4>1. host # "noObjects"
        BY <2>4, <3>1, <1>1, ObjectFacts
      <4>. QED
        BY <3>1, <4>1, <2>2
    <3>2. CASE a # writing + 1
      <4>1. Current(at, a) /\ disk[at][a].whole
        BY <3>2, <2>4, <1>1, ObjectFacts
      <4>. QED
        BY <3>2, <4>1, <2>2 DEF Current
    <3>. QED
      BY <3>1, <3>2
  <2>5. CASE writing = 1 /\ \E m \in AfterPasses : GoTo("optimize", 1, m)
    <3>1. /\ at' = at /\ stage' = "optimize" /\ writing' = 1 /\ source' = source
          /\ module' \in {"invalid", "valid"}
      BY <1>1, <2>5, ObjectFacts DEF GoTo, AfterPasses
    <3>2. Progress'
      <4>1. Opened' = 2
        BY <3>1 DEF Opened
      <4>2. ASSUME NEW a \in Artefacts, a > 2 PROVE ~Current(at, a)'
        <5>1. ~Current(at, a) /\ a # writing + 1
          BY <4>2, <2>5, <1>1, ObjectFacts
        <5>. QED
          BY <5>1, <2>1, <2>2, <3>1 DEF Current
      <4>3. ASSUME NEW a \in Artefacts, a <= 2, a \in IRs \/ host # "noObjects"
            PROVE  Current(at, a)' /\ disk'[at][a].whole
        BY <4>3, <2>1, <2>4, <2>5, <3>1 DEF Current
      <4>. QED
        BY <1>1, <2>1, <2>3, <3>1, <4>1, <4>2, <4>3 DEF Progress
    <3>. QED
      BY <1>1, <2>1, <2>2, <2>3, <3>1, <3>2, ObjectFacts, EmitInv
  <2>6. CASE writing = 3 /\ NextFile
    <3>1. told'[at] = {} => \A a \in Artefacts : disk'[at][a].run = run /\ disk'[at][a].whole
      BY <1>1, <2>3, <2>4, <2>6, ObjectFacts
    <3>. QED
      BY <1>1, <2>2, <2>3, <2>6, <3>1, NextFileInv
  <2>. QED
    BY <1>3, <2>5, <2>6
<1>. QED
  BY <1>2, <1>3 DEF EmitObject

LEMMA OptimizeInv == IInv /\ optimize => IInv'
<1>. SUFFICES ASSUME IInv, optimize PROVE IInv'
  OBVIOUS
<1>1. /\ stage = "optimize" /\ at \in Files /\ module \in {"invalid", "valid"}
      /\ "failed" \in Reports
  BY DEF optimize, IInv, TypeOK, Reports
<1>2. CASE module = "invalid"
  BY <1>1, <1>2, GiveUpInv DEF optimize, Caught
<1>3. CASE module # "invalid"
  <2>1. GoTo("IR", 3, module) /\ UNCHANGED <<disk, told>> /\ module = "valid"
    BY <1>1, <1>3 DEF optimize
  <2>2. ArtefactsInOrder' /\ OptimizedIsValid'
    BY <2>1 DEF GoTo, IInv, ArtefactsInOrder, OptimizedIsValid
  <2>3. Progress'
    <3>1. Opened = 2 /\ Opened' = 2
      BY <1>1, <2>1 DEF Opened, GoTo
    <3>. QED
      BY <1>1, <2>1, <3>1 DEF GoTo, IInv, Progress, Current, IRs, Artefacts
  <2>. QED
    BY <1>1, <2>1, <2>2, <2>3, EmitInv DEF GoTo, IInv, TypeOK, IRs
<1>. QED
  BY <1>2, <1>3
-----------------------------------------------------------------------------
LEMMA NextInv == IInv /\ [Next]_vars => IInv'
<1>. SUFFICES ASSUME IInv, [Next]_vars PROVE IInv'
  OBVIOUS
<1>1. CASE Start
  BY <1>1, StartInv
<1>2. CASE OpenSource \/ parseProgram \/ analyze \/ generate
  BY <1>2, CompileStart
<1>3. CASE WriteIR
  BY <1>3, WriteIRInv
<1>4. CASE OpenObject
  BY <1>4, OpenObjectInv
<1>5. CASE EmitObject
  BY <1>5, EmitObjectInv
<1>6. CASE optimize
  BY <1>6, OptimizeInv
<1>7. CASE UNCHANGED vars
  BY <1>7 DEF vars, IInv, TypeOK, ArtefactsInOrder, OptimizedIsValid, Progress, Others,
    Deceased, Started, Filtered, Opened, Current
<1>. QED
  BY <1>1, <1>2, <1>3, <1>4, <1>5, <1>6, <1>7 DEF Next, Compile, Over

\* The invariant that the following are read off.
THEOREM DriverInvariant == Spec => []IInv
BY InitInv, NextInv, PTL DEF Spec

\* Nothing in any run of the compiler, on any files and any host, mixes up the
\* generations of the artefacts on disk.
THEOREM GenerationsStayInOrder == Spec => []ArtefactsInOrder
<1>1. IInv => ArtefactsInOrder
  BY DEF IInv
<1>. QED
  BY DriverInvariant, <1>1, PTL

\* What the optimizer has passed on was verified.
THEOREM OptimizedIsVerified == Spec => []OptimizedIsValid
<1>1. IInv => OptimizedIsValid
  BY DEF IInv
<1>. QED
  BY DriverInvariant, <1>1, PTL

\* The type of every variable is kept.
THEOREM DriverTypeCorrect == Spec => []TypeOK
<1>1. IInv => TypeOK
  BY DEF IInv
<1>. QED
  BY DriverInvariant, <1>1, PTL

\* However a run ends, what became of each file can be told from the reports, or
\* else from the place where the process died.
THEOREM NoFileIsForgotten == Spec => []EveryFileAccountedFor
<1>1. IInv => EveryFileAccountedFor
  <2>. SUFFICES ASSUME IInv, stage = "off", run > 0, NEW f \in Files
                PROVE  /\ f < at /\ told[f] = {} =>
                            \A a \in Artefacts : Current(f, a) /\ disk[f][a].whole
                       /\ f = at => \/ \A a \in Artefacts : ~Current(f, a)
                                    \/ \E a \in IRs : /\ Current(f, a)
                                                      /\ ~(/\ Current(f, a + 1)
                                                           /\ disk[f][a + 1].whole)
                       /\ f > at => told[f] = {} /\ \A a \in Artefacts : ~Current(f, a)
    BY DEF EveryFileAccountedFor
  <2>. QED
    BY DEF IInv, Others, Deceased
<1>. QED
  BY DriverInvariant, <1>1, PTL
=============================================================================
