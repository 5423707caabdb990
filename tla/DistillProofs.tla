--------------------------- MODULE DistillProofs ---------------------------
(***************************************************************************)
(* For notebooks of any number of epochs, started any number of times over *)
(* one directory, and stopped anywhere: which weights go on, of what run   *)
(* the deployed files are, whose vocabulary a model may have and why a run *)
(* may raise.                                                              *)
(*                                                                         *)
(* The invariant says, for each cell of the notebook, what its checkpoint  *)
(* holds once the loop before it has found a best epoch (Training), from   *)
(* which runs what lies in OUT_DIR can stem (Inheritance), and how far the *)
(* artefacts are (Artefacts).                                              *)
(***************************************************************************)
EXTENDS Distill, TLAPS

-----------------------------------------------------------------------------
(* The inductive invariant.                                                *)

Weights == [run : Nat, epoch : Nat, vocab : Vocabularies]
Checkpoints == {"teacher_best", "teacher_best_pruned", "student_best"}
OnnxFiles == {"student.onnx", "student_int8.onnx", "student_final"}

Cells == {"load", "teach", "reload", "compare", "init", "distill", "take",
          "export", "quantize", "final", "remap", "config"}
TeacherCells == {"teach", "reload", "compare", "init"}
ExportCells == {"export", "quantize", "final", "remap", "config"}

Shapes ==
    /\ pc \in Cells \cup Ended
    /\ setting \in Settings
    /\ vocab \in Vocabularies
    /\ pc # "off" => (vocab.kept = Everything <=> ~setting.prune)
    /\ teacher \in Weights \cup {Absent}
    /\ student \in Weights \cup {Absent}
    /\ losses \in Seq(Losses \cup {NaN})
    /\ best \in 0..Len(losses)
    /\ run \in Nat
    /\ files = [f \in Files |-> files[f]]
    /\ \A f \in Checkpoints : files[f] \in Weights \cup {Absent, Torn}
    /\ exporting \in BOOLEAN

\* The models a cell works on are there.
InMemory ==
    /\ pc \in {"distill", "take", "done"} \cup TeacherCells \cup ExportCells => teacher \in Weights
    /\ pc \in {"load"} \cup TeacherCells => student = Absent
    /\ pc \in {"distill", "done"} \cup ExportCells => student \in Weights

\* best is the first epoch of the least val_loss.
First ==
    /\ best = 0 => \A e \in 1..Len(losses) : losses[e] = NaN
    /\ best # 0 =>
           /\ losses[best] # NaN
           /\ \A d \in 1..Len(losses) : losses[d] # NaN =>
                  losses[best] < losses[d] \/ (losses[best] = losses[d] /\ best <= d)

Running(epochs) == Len(losses) < epochs /\ Len(losses) < best + Patience
Finished(epochs) == Len(losses) = Lesser(epochs, best + Patience)

\* A best epoch, if there is one, is that of the weights.
AreBest(net) == best # 0 => net \in Weights /\ net.run = run /\ net.epoch = best

Training ==
    /\ pc = "load" => losses = <<>>
    /\ pc = "teach" => Running(setting.teacherEpochs)
    /\ pc \in TeacherCells => AreBest(files[TeacherCkpt])
    /\ pc \in {"reload", "compare", "init"} /\ losses # <<>> => Finished(setting.teacherEpochs)
    /\ pc = "compare" => AreBest(teacher)
    /\ pc = "distill" => Running(setting.distillEpochs)
    /\ pc \in {"distill", "take"} => AreBest(files["student_best"])
    /\ pc \in {"take", "done"} \cup ExportCells => Finished(setting.distillEpochs)
    /\ pc \in {"done"} \cup ExportCells => AreBest(student)

\* The vocabulary of each model and checkpoint, and weights of this run, if they are
\* not of an earlier one.
Inheritance ==
    /\ files["teacher_best"] \in Weights => files["teacher_best"].vocab.kept = Everything
    /\ teacher \in Weights /\ ~setting.prune => teacher.vocab.kept = Everything
    /\ pc = "load" => \A f \in TeacherFiles : files[f] = inherited[f]
    /\ pc \in TeacherCells =>
           (files[TeacherCkpt] \in Weights => files[TeacherCkpt].vocab = FoundVocab)
    /\ teacher \in Weights => teacher.vocab = FoundVocab
    /\ student \in Weights => student.vocab = FoundVocab \/ (student.run < run /\ best = 0)
    /\ pc = "distill" => student.run = run
    /\ files["student_best"] \in Weights =>
           /\ files["student_best"].run <= run
           /\ pc \in {"load"} \cup TeacherCells => files["student_best"].run < run
           /\ pc \in {"distill", "take"} =>
                  files["student_best"].run < run \/ files["student_best"].vocab = FoundVocab

Artefacts ==
    /\ ArtefactsOfOneRun
    /\ pc \in ExportCells => exporting
    /\ pc \in {"quantize", "final", "remap", "config"} => files["student.onnx"] = student
    /\ pc \in {"final", "remap", "config"} => files["student_int8.onnx"] = student
    /\ pc \in {"remap", "config"} => files["student_final"] = student
    /\ pc = "config" /\ setting.prune => files["vocab_remap.npy"] = [run |-> run, vocab |-> vocab]

Raised ==
    pc = "raised" =>
        \/ \E f \in {TeacherCkpt, "student_best"} \cup FullTeacher : files[f] = Torn
        \/ \E net \in {teacher, student} : net # Absent /\ MayExceed(net)
        \/ FullTeacher # {} /\ files["teacher_best"].vocab.table # vocab.table
        \/ best = 0 /\ (~Exists(TeacherCkpt) \/ ~Exists("student_best"))

IInv == Shapes /\ InMemory /\ First /\ Training /\ Inheritance /\ Artefacts /\ Raised

-----------------------------------------------------------------------------
(* The loops, the directory that is read, and the CHOOSE of a property.    *)

\* A CHOOSE from one.
LEMMA LoadedFrom == ASSUME NEW f, Source = {f} PROVE Loaded = files[f]
  BY DEF Loaded

\* What each cell reads.
LEMMA Sources ==
    /\ pc = "load" => Source = IF Exists(TeacherCkpt) THEN {TeacherCkpt} ELSE FullTeacher
    /\ pc = "reload" => Source = IF Exists(TeacherCkpt) THEN {TeacherCkpt} ELSE {}
    /\ pc = "compare" => Source = FullTeacher
    /\ pc = "init" => Source = {TeacherCkpt}
    /\ pc = "take" => Source = {"student_best"}
    /\ pc \notin {"load", "reload", "compare", "init", "take"} => Source = {}
  BY DEF Source

LEMMA CkptKnown == /\ TeacherCkpt \in {"teacher_best", "teacher_best_pruned"}
                   /\ TeacherCkpt \in Checkpoints /\ TeacherCkpt \in Files
                   /\ TeacherCkpt # "student_best"
  BY DEF TeacherCkpt, Checkpoints, Files

\* best is what the property chooses.
LEMMA BestIsChosen == ASSUME Shapes, First PROVE Chosen = best
<1> DEFINE numbers == {e \in DOMAIN losses : losses[e] # NaN}
           Least(e) == \A d \in numbers : losses[e] < losses[d] \/ (losses[e] = losses[d] /\ e <= d)
<1>1. DOMAIN losses = 1..Len(losses)
  BY DEF Shapes
<1>2. CASE best = 0
  <2>1. numbers = {}
    BY <1>1, <1>2 DEF First
  <2> QED BY <2>1, <1>2 DEF Chosen
<1>3. CASE best # 0
  <2>1. best \in numbers /\ Least(best)
    BY <1>1, <1>3 DEF First, Shapes
  <2>2. ASSUME NEW e \in numbers, Least(e) PROVE e = best
    <3>1. losses[e] \in Int /\ losses[best] \in Int
      BY <1>1, <2>1, DistillAssumption DEF Shapes
    <3>2. e \in Int /\ best \in Int
      BY <1>1, <2>1
    <3>3. losses[e] < losses[best] \/ (losses[e] = losses[best] /\ e <= best)
      BY <2>1, <2>2
    <3>4. losses[best] < losses[e] \/ (losses[best] = losses[e] /\ best <= e)
      BY <2>1
    <3> QED BY <3>1, <3>2, <3>3, <3>4
  <2>3. (CHOOSE e \in numbers : Least(e)) = best
    <3> HIDE DEF numbers, Least
    <3> QED BY <2>1, <2>2
  <2> QED BY <2>1, <2>3 DEF Chosen
<1> QED BY <1>2, <1>3

\* An epoch leaves best the first of the best and saves its weights.
LEMMA EpochKeeps ==
    ASSUME Shapes, First,
           NEW net \in Weights, net.run = run, net.epoch = Len(losses) + 1,
           NEW ckpt \in Checkpoints, AreBest(files[ckpt]),
           NEW epochs \in Nat, Running(epochs), NEW next, NEW here,
           pc = here, here # next,
           Epoch(net, ckpt, epochs, next), run' = run
    PROVE  /\ losses' \in Seq(Losses \cup {NaN}) /\ best' \in 0..Len(losses')
           /\ losses' # <<>>
           /\ First'
           /\ files' = files \/ files' = [files EXCEPT ![ckpt] = net]
           /\ best' # 0 => files'[ckpt] \in Weights /\ files'[ckpt].run = run /\ files'[ckpt].epoch = best'
           /\ \/ pc' = next /\ Len(losses') = Lesser(epochs, best' + Patience)
              \/ pc' = pc /\ Len(losses') < epochs /\ Len(losses') < best' + Patience
<1>1. PICK loss \in Losses \cup {NaN} :
        /\ losses' = Append(losses, loss)
        /\ best' = IF Improves(loss) THEN Len(losses') ELSE best
        /\ files' = IF Improves(loss) THEN [files EXCEPT ![ckpt] = net] ELSE files
  BY DEF Epoch
<1> DEFINE n == Len(losses)
<1>2. /\ losses' \in Seq(Losses \cup {NaN}) /\ Len(losses') = n + 1 /\ n \in Nat
      /\ losses'[n + 1] = loss /\ \A e \in 1..n : losses'[e] = losses[e]
  BY <1>1 DEF Shapes
<1>3. best' \in 0..Len(losses') /\ losses' # <<>>
  BY <1>1, <1>2 DEF Shapes
<1>4. \A e \in 1..n : losses[e] # NaN => losses[e] \in Int
  BY DistillAssumption DEF Shapes
<1>5. loss # NaN => loss \in Int
  BY DistillAssumption
<1>6. First'
  <2>1. CASE Improves(loss)
    <3>1. best' = n + 1 /\ losses'[best'] = loss /\ loss # NaN
      BY <1>1, <1>2, <2>1 DEF Improves
    <3>2. ASSUME NEW d \in 1..n, losses[d] # NaN PROVE loss < losses[d]
      <4>1. best # 0 /\ losses[best] # NaN /\ best \in 1..n
        BY <3>2 DEF First, Shapes
      <4>2. loss < losses[best]
        BY <4>1, <2>1 DEF Improves
      <4>3. losses[best] <= losses[d]
        BY <4>1, <3>2, <1>4 DEF First
      <4> QED BY <4>1, <4>2, <4>3, <3>1, <3>2, <1>4, <1>5
    <3>3. ASSUME NEW d \in 1..n + 1, losses'[d] # NaN
          PROVE  loss < losses'[d] \/ (loss = losses'[d] /\ n + 1 <= d)
      BY <3>2, <3>3, <1>2
    <3> QED BY <3>1, <3>3, <1>2 DEF First
  <2>2. CASE ~Improves(loss)
    <3>1. best' = best /\ best \in 0..n
      BY <1>1, <2>2 DEF Shapes
    <3>2. CASE best = 0
      BY <3>1, <3>2, <1>2, <2>2 DEF First, Improves
    <3>3. CASE best # 0
      <4>1. losses'[best] = losses[best] /\ losses[best] # NaN /\ best \in 1..n
        BY <3>1, <3>3, <1>2 DEF First
      <4>2. loss # NaN => losses[best] <= loss
        BY <2>2, <3>3, <4>1, <1>4, <1>5 DEF Improves
      <4>3. ASSUME NEW d \in 1..n + 1, losses'[d] # NaN
            PROVE  losses[best] < losses'[d] \/ (losses[best] = losses'[d] /\ best <= d)
        <5>1. CASE d = n + 1 BY <5>1, <4>1, <4>2, <4>3, <1>2, <1>4, <1>5
        <5>2. CASE d \in 1..n BY <5>2, <4>1, <4>3, <3>3, <1>2 DEF First
        <5> QED BY <5>1, <5>2, <1>2
      <4> QED BY <3>1, <3>3, <4>1, <4>3, <1>2 DEF First
    <3> QED BY <3>2, <3>3
  <2> QED BY <2>1, <2>2
<1>7. files' = files \/ files' = [files EXCEPT ![ckpt] = net]
  BY <1>1
<1>8. best' # 0 => files'[ckpt] \in Weights /\ files'[ckpt].run = run /\ files'[ckpt].epoch = best'
  <2>1. ckpt \in DOMAIN files
    BY DEF Shapes, Checkpoints, Files
  <2> QED BY <1>1, <1>2, <2>1 DEF AreBest
<1>9. Patience \in Nat \ {0}
  BY DistillAssumption
<1>10. pc' = IF Len(losses') >= epochs \/ Len(losses') - best' >= Patience THEN next ELSE pc
  BY DEF Epoch, Over
<1>11. Len(losses') <= epochs /\ Len(losses') <= best' + Patience
  BY <1>1, <1>2, <1>9 DEF Running, Shapes
<1>12. \/ pc' = next /\ Len(losses') = Lesser(epochs, best' + Patience)
       \/ pc' = pc /\ Len(losses') < epochs /\ Len(losses') < best' + Patience
  <2> DEFINE m == Len(losses')
             b == best'
  <2>1. m \in Nat /\ b \in Nat /\ Patience \in Nat /\ m <= epochs /\ m <= b + Patience
    BY <1>2, <1>3, <1>9, <1>11
  <2>2. pc' = IF m >= epochs \/ m - b >= Patience THEN next ELSE pc
    BY <1>10
  <2> HIDE DEF m, b
  <2>3. \/ pc' = next /\ m = Lesser(epochs, b + Patience)
        \/ pc' = pc /\ m < epochs /\ m < b + Patience
    BY ONLY <2>1, <2>2, epochs \in Nat DEF Lesser
  <2> QED BY <2>3 DEF m, b
<1> QED BY <1>2, <1>3, <1>6, <1>7, <1>8, <1>12
-----------------------------------------------------------------------------
(* Every step keeps the invariant.                                         *)

\* The numbers of epochs are numbers, and a file that is missing or torn is no weights.
LEMMA SettingShape ==
    ASSUME Shapes
    PROVE  /\ setting.prune \in BOOLEAN /\ setting.teacherEpochs \in Nat /\ setting.distillEpochs \in Nat
           /\ setting.tokenizer \in Tokenizers
  BY DistillAssumption DEF Shapes

LEMMA NoWeights == Absent \notin Weights /\ Torn \notin Weights
  BY DistillAssumption DEF Weights

\* What can be read are weights.
LEMMA ReadWeights ==
    ASSUME Shapes, Readable, NEW f \in Checkpoints, Source = {f}
    PROVE  files[f] \in Weights /\ Loaded = files[f]
<1>1. Loaded = files[f]
  BY LoadedFrom
<1> QED BY <1>1 DEF Shapes, Readable

LEMMA BeginPreserves == ASSUME IInv, Begin PROVE IInv'
<1> USE DEF IInv, models, loop, history
<1>1. Shapes'
  <2>1. setting' \in Settings /\ setting'.tokenizer \in Tokenizers /\ setting'.prune \in BOOLEAN
    BY DistillAssumption DEF Begin
  <2>2. /\ vocab' \in Vocabularies
        /\ vocab'.kept = Everything <=> ~setting'.prune
    BY <2>1, DistillAssumption DEF Begin, Vocabularies
  <2> QED BY <2>1, <2>2 DEF Begin, Shapes, Cells
<1>2. InMemory'
  BY DEF Begin, InMemory, TeacherCells, ExportCells
<1>3. First'
  BY DEF Begin, First
<1>4. Training'
  BY DEF Begin, Training, TeacherCells, ExportCells
<1>5. Inheritance'
  BY NoWeights DEF Begin, Inheritance, TeacherCells, TeacherFiles, Shapes, Weights
<1>6. Artefacts'
  BY DEF Begin, Artefacts, ArtefactsOfOneRun, Exists, ExportCells
<1>7. Raised'
  BY DEF Begin, Raised
<1> QED BY <1>1, <1>2, <1>3, <1>4, <1>5, <1>6, <1>7

LEMMA LoadRaisesPreserves == ASSUME IInv, LoadRaises PROVE IInv'
<1> USE DEF IInv, models, loop, history
<1>1. Shapes'
  BY Sources DEF LoadRaises, Readable, Shapes, Ended
<1>2. InMemory'
  BY DEF LoadRaises, InMemory, TeacherCells, ExportCells
<1>3. First'
  BY DEF LoadRaises, First
<1>4. Training'
  BY DEF LoadRaises, Training, TeacherCells, ExportCells
<1>5. Inheritance'
  BY DEF LoadRaises, Inheritance, FoundVocab, TeacherCkpt, TeacherCells
<1>6. Artefacts'
  BY DEF LoadRaises, Artefacts, ArtefactsOfOneRun, Exists, ExportCells
<1>7. Raised'
  <2>1. PICK f \in Source : files[f] \in {Absent, Torn}
    BY DEF LoadRaises, Readable
  <2>2. f \in {TeacherCkpt, "student_best"} \cup FullTeacher
    BY DEF Source
  <2>3. CASE files[f] = Torn
    BY <2>2, <2>3 DEF LoadRaises, Raised, TeacherCkpt, FullTeacher, Exists
  <2>4. CASE files[f] = Absent
    <3>1. (pc = "init" /\ ~Exists(TeacherCkpt)) \/ (pc = "take" /\ ~Exists("student_best"))
      BY <2>4 DEF Source, FullTeacher, Exists
    <3>2. best = 0
      BY <3>1, NoWeights DEF Training, AreBest, TeacherCells, Exists
    <3> QED BY <3>1, <3>2 DEF LoadRaises, Raised, Exists, TeacherCkpt
  <2> QED BY <2>1, <2>3, <2>4
<1> QED BY <1>1, <1>2, <1>3, <1>4, <1>5, <1>6, <1>7

LEMMA PruneRaisesPreserves == ASSUME IInv, PruneRaises PROVE IInv'
<1> USE DEF IInv, models, loop, history
<1>1. Shapes'
  BY DEF PruneRaises, Shapes, Ended
<1>2. InMemory'
  BY DEF PruneRaises, InMemory, TeacherCells, ExportCells
<1>3. First'
  BY DEF PruneRaises, First
<1>4. Training'
  BY DEF PruneRaises, Training, TeacherCells, ExportCells
<1>5. Inheritance'
  BY DEF PruneRaises, Inheritance, FoundVocab, TeacherCkpt, TeacherCells
<1>6. Artefacts'
  BY DEF PruneRaises, Artefacts, ArtefactsOfOneRun, Exists, ExportCells
<1>7. Raised'
  <2>1. Loaded = files["teacher_best"] /\ FullTeacher = {"teacher_best"}
    BY LoadedFrom, Sources DEF PruneRaises, FullTeacher
  <2> QED BY <2>1 DEF PruneRaises, Raised, FullTeacher, Exists
<1> QED BY <1>1, <1>2, <1>3, <1>4, <1>5, <1>6, <1>7

LEMMA InputRaisesPreserves == ASSUME IInv, InputRaises PROVE IInv'
<1> USE DEF IInv, models, loop, history
<1>1. Shapes'
  BY DEF InputRaises, Asked, Shapes, Ended
<1>2. InMemory'
  BY DEF InputRaises, InMemory, TeacherCells, ExportCells
<1>3. First'
  BY DEF InputRaises, First
<1>4. Training'
  BY DEF InputRaises, Training, TeacherCells, ExportCells
<1>5. Inheritance'
  BY DEF InputRaises, Inheritance, FoundVocab, TeacherCkpt, TeacherCells
<1>6. Artefacts'
  BY DEF InputRaises, Artefacts, ArtefactsOfOneRun, Exists, ExportCells
<1>7. Raised'
  <2>1. PICK net \in Asked : MayExceed(net)
    BY DEF InputRaises
  <2>2. CASE net \in {teacher, student} /\ net \in Weights
    BY <2>1, <2>2, NoWeights DEF InputRaises, Raised, MayExceed, Fits
  <2>3. CASE pc = "compare" /\ net = Loaded /\ FullTeacher # {}
    <3>1. Source = {"teacher_best"}
      BY <2>3, Sources DEF FullTeacher
    <3>2. net = files["teacher_best"] /\ net \in Weights
      BY <2>3, <3>1, ReadWeights DEF InputRaises, Checkpoints
    <3>3. net.vocab.kept = Everything /\ net.vocab \in Vocabularies
      BY <3>2 DEF Inheritance, Weights
    <3>4. net.vocab = [table |-> net.vocab.table, kept |-> Everything]
      BY <3>3 DEF Vocabularies
    <3>5. net.vocab.table # vocab.table
      BY <2>1, <3>4 DEF MayExceed
    <3> QED BY <2>3, <3>2, <3>5 DEF InputRaises, Raised, FullTeacher, Exists
  <2>4. \/ net \in {teacher, student} /\ net \in Weights
        \/ pc = "compare" /\ net = Loaded /\ FullTeacher # {}
    BY DEF Asked, InMemory, TeacherCells, ExportCells
  <2> QED BY <2>2, <2>3, <2>4
<1> QED BY <1>1, <1>2, <1>3, <1>4, <1>5, <1>6, <1>7

LEMMA StoppedPreserves == ASSUME IInv, Stopped PROVE IInv'
<1> USE DEF IInv, models, loop, history
<1>1. /\ pc \notin Ended /\ pc' = "off" /\ teacher' = Absent /\ student' = Absent
      /\ losses' = <<>> /\ best' = 0
      /\ UNCHANGED <<setting, vocab, run, inherited, exporting>>
  BY DEF Stopped
<1>2. /\ Writing \subseteq Files
      /\ pc \notin ExportCells => Writing \subseteq Checkpoints
  BY CkptKnown DEF Writing, Files, Checkpoints, ExportCells
<1>3. /\ files' = [f \in Files |-> files'[f]]
      /\ \A f \in Files : files'[f] \in {files[f], Torn}
      /\ pc \notin ExportCells => \A f \in Files \ Checkpoints : files'[f] = files[f]
  BY <1>2 DEF Stopped, Shapes
<1>4. Shapes'
  BY <1>1, <1>3 DEF Shapes, Ended, Checkpoints, Files
<1>5. InMemory'
  BY <1>1 DEF InMemory, TeacherCells, ExportCells
<1>6. First'
  BY <1>1 DEF First
<1>7. Training'
  BY <1>1 DEF Training, TeacherCells, ExportCells
<1>8. Inheritance'
  BY <1>1, <1>3, NoWeights DEF Inheritance, TeacherCells, Files
<1>9. Artefacts'
  <2>1. CASE exporting
    BY <1>1, <2>1 DEF Artefacts, ArtefactsOfOneRun, ExportCells
  <2>2. CASE ~exporting
    <3>1. \A f \in Files \ Checkpoints : files'[f] = files[f]
      BY <1>3, <2>2 DEF Artefacts
    <3>2. {"student.onnx", "student_int8.onnx", "student_final", "vocab_remap.npy",
           "model_config.json"} \subseteq Files \ Checkpoints
      BY DEF Files, Checkpoints
    <3>3. ArtefactsOfOneRun'
      BY <1>1, <3>1, <3>2 DEF Artefacts, ArtefactsOfOneRun, Exists
    <3> QED BY <1>1, <3>3 DEF Artefacts, ExportCells
  <2> QED BY <2>1, <2>2
<1>10. Raised'
  BY <1>1 DEF Raised
<1> QED BY <1>4, <1>5, <1>6, <1>7, <1>8, <1>9, <1>10

LEMMA LoadTeacherPreserves == ASSUME IInv, LoadTeacher PROVE IInv'
<1> USE DEF IInv, models, loop, history
<1>1. /\ pc = "load" /\ pc' \in {"teach", "reload"} /\ losses = <<>> /\ best = 0
      /\ UNCHANGED <<setting, vocab, student, losses, best, run, inherited, exporting>>
      /\ TeacherCkpt' = TeacherCkpt
  BY DEF LoadTeacher, Training, Shapes, TeacherCkpt
<1>2. /\ teacher' \in Weights /\ teacher'.vocab = FoundVocab
      /\ ~setting.prune => teacher'.vocab.kept = Everything
      /\ \/ files' = files
         \/ setting.prune /\ files' = [files EXCEPT !["teacher_best_pruned"] = teacher']
      /\ files'[TeacherCkpt] \in Weights => files'[TeacherCkpt].vocab = FoundVocab
  <2>1. CASE Exists(TeacherCkpt)
    <3>1. Source = {TeacherCkpt}
      BY <1>1, <2>1, Sources
    <3>2. teacher' = files[TeacherCkpt] /\ files[TeacherCkpt] \in Weights /\ files' = files
      BY <2>1, <3>1, ReadWeights, CkptKnown DEF LoadTeacher
    <3>3. inherited[TeacherCkpt] = files[TeacherCkpt]
      BY <1>1, CkptKnown DEF Inheritance, TeacherFiles
    <3>4. files[TeacherCkpt].vocab = FoundVocab
      BY <2>1, <3>3 DEF FoundVocab, Exists
    <3>5. ~setting.prune => files[TeacherCkpt].vocab.kept = Everything
      BY <3>2 DEF Inheritance, TeacherCkpt
    <3> QED BY <3>2, <3>4, <3>5
  <2>2. CASE ~Exists(TeacherCkpt) /\ FullTeacher # {}
    <3>1. Source = {"teacher_best"} /\ setting.prune /\ TeacherCkpt = "teacher_best_pruned"
      BY <1>1, <2>2, Sources DEF FullTeacher, TeacherCkpt
    <3>2. Loaded \in Weights
      BY <3>1, ReadWeights DEF Checkpoints, LoadTeacher
    <3>3. /\ teacher' = [Loaded EXCEPT !.vocab.kept = vocab.kept]
          /\ files' = [files EXCEPT !["teacher_best_pruned"] = teacher']
      BY <3>1, <2>2 DEF LoadTeacher
    <3>4. Loaded.vocab \in Vocabularies /\ vocab \in Vocabularies
      BY <3>2 DEF Weights, Shapes
    <3>5. [Loaded.vocab EXCEPT !.kept = vocab.kept] \in Vocabularies
      BY <3>4 DEF Vocabularies
    <3>6. teacher' \in Weights /\ teacher'.vocab = [Loaded.vocab EXCEPT !.kept = vocab.kept]
      BY <3>2, <3>3, <3>5 DEF Weights
    <3>7. /\ inherited["teacher_best"] = files["teacher_best"] /\ files["teacher_best"] # Absent
          /\ inherited["teacher_best_pruned"] = files["teacher_best_pruned"]
          /\ files["teacher_best_pruned"] = Absent
      BY <1>1, <2>2, <3>1 DEF Inheritance, TeacherFiles, FullTeacher, Exists
    <3>8. Loaded = files["teacher_best"]
      BY <3>1, LoadedFrom
    <3>9. FoundVocab = [Loaded.vocab EXCEPT !.kept = vocab.kept]
      BY <3>1, <3>7, <3>8 DEF FoundVocab
    <3>10. files'[TeacherCkpt] = teacher'
      BY <3>1, <3>3 DEF Shapes, Files
    <3> QED BY <3>1, <3>3, <3>6, <3>9, <3>10
  <2>3. CASE ~Exists(TeacherCkpt) /\ FullTeacher = {}
    <3>1. Source = {}
      BY <1>1, <2>3, Sources
    <3>2. teacher' = [run |-> run, epoch |-> 0, vocab |-> vocab] /\ files' = files
      BY <3>1 DEF LoadTeacher
    <3>3. teacher' \in Weights /\ teacher'.vocab = vocab
      BY <3>2 DEF Weights, Shapes
    <3>4. ~setting.prune => vocab.kept = Everything
      BY <1>1 DEF Shapes
    <3>5. \A f \in TeacherFiles : inherited[f] = files[f]
      BY <1>1 DEF Inheritance
    <3>6. inherited[TeacherCkpt] = Absent /\ (setting.prune => inherited["teacher_best"] = Absent)
      BY <2>3, <3>5, CkptKnown DEF TeacherFiles, FullTeacher, Exists
    <3>7. FoundVocab = vocab
      BY <3>6 DEF FoundVocab
    <3> QED BY <2>3, <3>2, <3>3, <3>4, <3>7, NoWeights DEF Exists
  <2> QED BY <2>1, <2>2, <2>3
<1>3. Shapes'
  BY <1>1, <1>2 DEF Shapes, Cells, Checkpoints, Files
<1>4. InMemory'
  BY <1>1, <1>2 DEF InMemory, ExportCells
<1>5. First'
  BY <1>1 DEF First
<1>6. Training'
  <2>1. pc' = "teach" => setting.teacherEpochs > 0
    BY DEF LoadTeacher, Trains
  <2>2. Running(setting.teacherEpochs) \/ pc' # "teach"
    BY <1>1, <2>1, DistillAssumption DEF Running
  <2> QED BY <1>1, <2>2 DEF Training, AreBest, Running, TeacherCells, ExportCells
<1>7. Inheritance'
  <2>1. FoundVocab' = FoundVocab
    BY <1>1 DEF FoundVocab
  <2> QED BY <1>1, <1>2, <2>1 DEF Inheritance, Shapes, Files, TeacherCells
<1>8. Artefacts'
  BY <1>1, <1>2 DEF Artefacts, ArtefactsOfOneRun, Exists, ExportCells, Shapes, Files
<1>9. Raised'
  BY <1>1 DEF Raised
<1> QED BY <1>3, <1>4, <1>5, <1>6, <1>7, <1>8, <1>9

LEMMA TeacherEpochPreserves == ASSUME IInv, TeacherEpoch PROVE IInv'
<1> USE DEF IInv, models, loop, history
<1>1. /\ pc = "teach" /\ TeacherCkpt' = TeacherCkpt
      /\ UNCHANGED <<setting, vocab, student, run, inherited, exporting>>
  BY DEF TeacherEpoch, TeacherCkpt
<1>2. teacher \in Weights /\ TeacherCkpt \in Checkpoints
  BY <1>1, CkptKnown DEF InMemory, TeacherCells
<1>3. /\ teacher' \in Weights /\ teacher'.run = run /\ teacher'.epoch = Len(losses) + 1
      /\ teacher'.vocab = teacher.vocab
  BY <1>2 DEF TeacherEpoch, Trained, Weights, Shapes
<1>4. Epoch(teacher', TeacherCkpt, setting.teacherEpochs, "reload")
  BY DEF TeacherEpoch
<1>5. /\ losses' \in Seq(Losses \cup {NaN}) /\ best' \in 0..Len(losses') /\ losses' # <<>> /\ First'
      /\ files' = files \/ files' = [files EXCEPT ![TeacherCkpt] = teacher']
      /\ best' # 0 =>
             files'[TeacherCkpt] \in Weights /\ files'[TeacherCkpt].run = run /\ files'[TeacherCkpt].epoch = best'
      /\ \/ pc' = "reload" /\ Len(losses') = Lesser(setting.teacherEpochs, best' + Patience)
         \/ pc' = pc /\ Len(losses') < setting.teacherEpochs /\ Len(losses') < best' + Patience
  <2>1. AreBest(files[TeacherCkpt]) /\ Running(setting.teacherEpochs)
    BY <1>1 DEF Training, TeacherCells
  <2>2. setting.teacherEpochs \in Nat
    BY SettingShape
  <2> QED BY <1>1, <1>2, <1>3, <1>4, <2>1, <2>2, EpochKeeps
<1>6. pc' \in {"teach", "reload"}
  BY <1>1, <1>5
<1>7. /\ \A f \in Checkpoints \ {TeacherCkpt} : files'[f] = files[f]
      /\ files'[TeacherCkpt] \in {files[TeacherCkpt], teacher'}
      /\ \A f \in Files \ Checkpoints : files'[f] = files[f]
  BY <1>2, <1>5 DEF Shapes, Files, Checkpoints
<1>8. Shapes'
  BY <1>1, <1>3, <1>5, <1>7 DEF Shapes, Cells
<1>9. InMemory'
  BY <1>1, <1>3, <1>6 DEF InMemory, TeacherCells, ExportCells
<1>10. First'
  BY <1>5
<1>11. Training'
  BY <1>1, <1>5 DEF Training, AreBest, Running, Finished, ExportCells
<1>12. Inheritance'
  <2>1. teacher'.vocab = FoundVocab /\ (~setting.prune => teacher'.vocab.kept = Everything)
    BY <1>2, <1>3 DEF Inheritance
  <2>2. FoundVocab' = FoundVocab
    BY <1>1 DEF FoundVocab
  <2>3. files'["teacher_best"] \in Weights => files'["teacher_best"].vocab.kept = Everything
    BY <1>1, <1>7, <2>1, SettingShape DEF Inheritance, TeacherCkpt, Checkpoints
  <2>4. files'["student_best"] = files["student_best"]
    BY <1>7, CkptKnown DEF Checkpoints
  <2>5. files'[TeacherCkpt] \in Weights => files'[TeacherCkpt].vocab = FoundVocab
    BY <1>1, <1>7, <2>1 DEF Inheritance, TeacherCells
  <2>6. student' = student /\ student = Absent
    BY <1>1 DEF InMemory, TeacherCells
  <2> QED BY <1>1, <1>3, <1>6, <2>1, <2>2, <2>3, <2>4, <2>5, <2>6, NoWeights DEF Inheritance, TeacherCells
<1>13. Artefacts'
  BY <1>1, <1>6, <1>7 DEF Artefacts, ArtefactsOfOneRun, Exists, ExportCells, Files, Checkpoints
<1>14. Raised'
  BY <1>6 DEF Raised
<1> QED BY <1>8, <1>9, <1>10, <1>11, <1>12, <1>13, <1>14

LEMMA ReloadTeacherPreserves == ASSUME IInv, ReloadTeacher PROVE IInv'
<1> USE DEF IInv, models, loop, history
<1>1. /\ pc = "reload" /\ pc' = "compare" /\ TeacherCkpt' = TeacherCkpt
      /\ UNCHANGED <<setting, vocab, student, losses, best, run, files, inherited, exporting>>
  BY DEF ReloadTeacher, TeacherCkpt
<1>2. /\ teacher' \in Weights /\ teacher'.vocab = FoundVocab /\ AreBest(teacher')
      /\ ~setting.prune => teacher'.vocab.kept = Everything
  <2>1. CASE Exists(TeacherCkpt)
    <3>1. Source = {TeacherCkpt}
      BY <1>1, <2>1, Sources
    <3>2. teacher' = files[TeacherCkpt] /\ files[TeacherCkpt] \in Weights
      BY <3>1, ReadWeights, CkptKnown DEF ReloadTeacher
    <3> QED BY <1>1, <3>2 DEF Inheritance, Training, TeacherCells, TeacherCkpt
  <2>2. CASE ~Exists(TeacherCkpt)
    <3>1. teacher' = teacher
      BY <2>2, Sources DEF ReloadTeacher
    <3>2. files[TeacherCkpt] \notin Weights
      BY <2>2, NoWeights DEF Exists
    <3>3. best = 0
      BY <1>1, <3>2 DEF Training, AreBest, TeacherCells
    <3> QED BY <1>1, <3>1, <3>3 DEF InMemory, TeacherCells, Inheritance, AreBest
  <2> QED BY <2>1, <2>2
<1>3. Shapes'
  BY <1>1, <1>2 DEF Shapes, Cells
<1>4. InMemory'
  BY <1>1, <1>2 DEF InMemory, TeacherCells, ExportCells
<1>5. First'
  BY <1>1 DEF First
<1>6. Training'
  BY <1>1, <1>2 DEF Training, AreBest, Finished, TeacherCells, ExportCells
<1>7. Inheritance'
  BY <1>1, <1>2 DEF Inheritance, FoundVocab, TeacherCkpt, TeacherCells
<1>8. Artefacts'
  BY <1>1 DEF Artefacts, ArtefactsOfOneRun, Exists, ExportCells
<1>9. Raised'
  BY <1>1 DEF Raised
<1> QED BY <1>3, <1>4, <1>5, <1>6, <1>7, <1>8, <1>9

LEMMA CompareTeachersPreserves == ASSUME IInv, CompareTeachers PROVE IInv'
<1> USE DEF IInv, models, loop, history
<1>1. Shapes'
  BY DEF CompareTeachers, Shapes, Cells
<1>2. InMemory'
  BY DEF CompareTeachers, InMemory, TeacherCells, ExportCells
<1>3. First'
  BY DEF CompareTeachers, First
<1>4. Training'
  BY DEF CompareTeachers, TeacherCkpt, Training, AreBest, Finished, TeacherCells, ExportCells
<1>5. Inheritance'
  BY DEF CompareTeachers, TeacherCkpt, Inheritance, FoundVocab, TeacherCkpt, TeacherCells
<1>6. Artefacts'
  BY DEF CompareTeachers, Artefacts, ArtefactsOfOneRun, Exists, ExportCells
<1>7. Raised'
  BY DEF CompareTeachers, Raised
<1> QED BY <1>1, <1>2, <1>3, <1>4, <1>5, <1>6, <1>7

LEMMA InitStudentPreserves == ASSUME IInv, InitStudent PROVE IInv'
<1> USE DEF IInv, models, loop, history
<1>1. /\ pc = "init" /\ pc' \in {"take", "distill"} /\ losses' = <<>> /\ best' = 0
      /\ UNCHANGED <<setting, vocab, run, files, inherited, exporting>>
  BY DEF InitStudent
<1>2. /\ teacher' = files[TeacherCkpt] /\ teacher' \in Weights /\ teacher'.vocab = FoundVocab
      /\ ~setting.prune => teacher'.vocab.kept = Everything
  <2>1. Source = {TeacherCkpt}
    BY <1>1, Sources
  <2>2. teacher' = files[TeacherCkpt] /\ teacher' \in Weights
    BY <2>1, ReadWeights, CkptKnown DEF InitStudent
  <2> QED BY <1>1, <2>2 DEF Inheritance, TeacherCells, TeacherCkpt
<1>3. student' \in Weights /\ student'.vocab = teacher'.vocab /\ student'.run = run
  BY <1>2 DEF InitStudent, Weights, Shapes
<1>4. Shapes'
  BY <1>1, <1>2, <1>3 DEF Shapes, Cells
<1>5. InMemory'
  BY <1>1, <1>2, <1>3 DEF InMemory, TeacherCells
<1>6. First'
  BY <1>1 DEF First
<1>7. Training'
  <2>1. pc' = IF setting.distillEpochs = 0 THEN "take" ELSE "distill"
    BY DEF InitStudent
  <2>2. /\ Patience \in Nat \ {0} /\ setting.distillEpochs \in Nat /\ Len(losses') = 0
        /\ setting'.distillEpochs = setting.distillEpochs
    BY <1>1, SettingShape, DistillAssumption
  <2>3. pc' = "distill" => Len(losses') < setting'.distillEpochs /\ Len(losses') < best' + Patience
    BY <1>1, <2>1, <2>2
  <2>4. pc' = "take" => Len(losses') = Lesser(setting'.distillEpochs, best' + Patience)
    BY <1>1, <2>1, <2>2 DEF Lesser
  <2> QED BY <1>1, <2>3, <2>4 DEF Training, AreBest, Running, Finished, TeacherCells, ExportCells
<1>8. Inheritance'
  BY <1>1, <1>2, <1>3 DEF Inheritance, FoundVocab, TeacherCkpt, TeacherCells
<1>9. Artefacts'
  BY <1>1 DEF Artefacts, ArtefactsOfOneRun, Exists, ExportCells
<1>10. Raised'
  BY <1>1 DEF Raised
<1> QED BY <1>4, <1>5, <1>6, <1>7, <1>8, <1>9, <1>10

LEMMA DistillEpochPreserves == ASSUME IInv, DistillEpoch PROVE IInv'
<1> USE DEF IInv, models, loop, history
<1>1. /\ pc = "distill" /\ TeacherCkpt' = TeacherCkpt
      /\ UNCHANGED <<setting, vocab, teacher, run, inherited, exporting>>
  BY DEF DistillEpoch, TeacherCkpt
<1>2. student \in Weights /\ "student_best" \in Checkpoints
  BY <1>1 DEF InMemory, Checkpoints
<1>3. /\ student' \in Weights /\ student'.run = run /\ student'.epoch = Len(losses) + 1
      /\ student'.vocab = student.vocab
  BY <1>2 DEF DistillEpoch, Trained, Weights, Shapes
<1>4. Epoch(student', "student_best", setting.distillEpochs, "take")
  BY DEF DistillEpoch
<1>5. /\ losses' \in Seq(Losses \cup {NaN}) /\ best' \in 0..Len(losses') /\ losses' # <<>> /\ First'
      /\ files' = files \/ files' = [files EXCEPT !["student_best"] = student']
      /\ best' # 0 =>
             files'["student_best"] \in Weights /\ files'["student_best"].run = run /\ files'["student_best"].epoch = best'
      /\ \/ pc' = "take" /\ Len(losses') = Lesser(setting.distillEpochs, best' + Patience)
         \/ pc' = pc /\ Len(losses') < setting.distillEpochs /\ Len(losses') < best' + Patience
  <2>1. AreBest(files["student_best"]) /\ Running(setting.distillEpochs)
    BY <1>1 DEF Training
  <2>2. setting.distillEpochs \in Nat
    BY SettingShape
  <2> QED BY <1>1, <1>2, <1>3, <1>4, <2>1, <2>2, EpochKeeps
<1>6. pc' \in {"distill", "take"}
  BY <1>1, <1>5
<1>7. /\ \A f \in Checkpoints \ {"student_best"} : files'[f] = files[f]
      /\ files'["student_best"] \in {files["student_best"], student'}
      /\ \A f \in Files \ Checkpoints : files'[f] = files[f]
  BY <1>5 DEF Shapes, Files, Checkpoints
<1>8. Shapes'
  BY <1>1, <1>3, <1>5, <1>7 DEF Shapes, Cells
<1>9. InMemory'
  BY <1>1, <1>3, <1>6 DEF InMemory, TeacherCells
<1>10. First'
  BY <1>5
<1>11. Training'
  BY <1>1, <1>5 DEF Training, AreBest, Running, Finished, TeacherCells, ExportCells
<1>12. Inheritance'
  <2>1. student'.vocab = FoundVocab
    BY <1>1, <1>2, <1>3 DEF Inheritance, Weights
  <2>2. FoundVocab' = FoundVocab
    BY <1>1 DEF FoundVocab
  <2>3. files'["teacher_best"] \in Weights => files'["teacher_best"].vocab.kept = Everything
    BY <1>7 DEF Inheritance, Checkpoints
  <2>4. files'["student_best"] \in Weights =>
           /\ files'["student_best"].run <= run
           /\ files'["student_best"].run < run \/ files'["student_best"].vocab = FoundVocab
    BY <1>1, <1>3, <1>7, <2>1 DEF Inheritance, Shapes
  <2> QED BY <1>1, <1>3, <1>6, <2>1, <2>2, <2>3, <2>4 DEF Inheritance, TeacherCells
<1>13. Artefacts'
  BY <1>1, <1>6, <1>7 DEF Artefacts, ArtefactsOfOneRun, Exists, ExportCells, Files
<1>14. Raised'
  BY <1>6 DEF Raised
<1> QED BY <1>8, <1>9, <1>10, <1>11, <1>12, <1>13, <1>14

LEMMA TakeStudentPreserves == ASSUME IInv, TakeStudent PROVE IInv'
<1> USE DEF IInv, models, loop, history
<1>1. /\ pc = "take" /\ pc' = "export" /\ exporting'
      /\ UNCHANGED <<setting, vocab, teacher, losses, best, run, files, inherited>>
  BY DEF TakeStudent
<1>2. student' = files["student_best"] /\ student' \in Weights
  <2>1. Source = {"student_best"}
    BY <1>1, Sources
  <2> QED BY <2>1, ReadWeights DEF TakeStudent, Checkpoints
<1>3. Shapes'
  BY <1>2 DEF Shapes, Cells, TakeStudent
<1>4. InMemory'
  BY <1>1, <1>2 DEF InMemory, TeacherCells
<1>5. First'
  BY <1>1 DEF First
<1>6. Training'
  BY <1>1, <1>2 DEF Training, AreBest, Finished, TeacherCells
<1>7. Inheritance'
  <2>1. student'.vocab = FoundVocab \/ (student'.run < run /\ best = 0)
    <3>1. student'.run < run \/ student'.vocab = FoundVocab
      BY <1>1, <1>2 DEF Inheritance
    <3>2. best # 0 => student'.run = run
      BY <1>1, <1>2 DEF Training, AreBest
    <3>3. run \in Nat
      BY DEF Shapes
    <3> QED BY <3>1, <3>2, <3>3
  <2>2. FoundVocab' = FoundVocab
    BY <1>1 DEF FoundVocab, TeacherCkpt
  <2> QED BY <1>1, <1>2, <2>1, <2>2 DEF Inheritance, TeacherCells
<1>8. Artefacts'
  BY <1>1 DEF Artefacts, ArtefactsOfOneRun
<1>9. Raised'
  BY <1>1 DEF Raised
<1> QED BY <1>3, <1>4, <1>5, <1>6, <1>7, <1>8, <1>9

LEMMA ExportOnnxPreserves == ASSUME IInv, ExportOnnx PROVE IInv'
<1> USE DEF IInv, models, loop, history
<1>1. Shapes'
  BY DEF ExportOnnx, Saves, Shapes, Cells, Checkpoints
<1>2. InMemory'
  BY DEF ExportOnnx, Saves, InMemory, TeacherCells, ExportCells
<1>3. First'
  BY DEF ExportOnnx, Saves, First
<1>4. Training'
  BY DEF ExportOnnx, Saves, Training, AreBest, Finished, TeacherCells, ExportCells
<1>5. Inheritance'
  BY DEF ExportOnnx, Saves, Inheritance, FoundVocab, TeacherCkpt, TeacherCells
<1>6. Artefacts'
  BY DEF ExportOnnx, Saves, Shapes, Files, Artefacts, ArtefactsOfOneRun, ExportCells
<1>7. Raised'
  BY DEF ExportOnnx, Saves, Raised
<1> QED BY <1>1, <1>2, <1>3, <1>4, <1>5, <1>6, <1>7

LEMMA QuantizePreserves == ASSUME IInv, Quantize PROVE IInv'
<1> USE DEF IInv, models, loop, history
<1>1. Shapes'
  BY DEF Quantize, Saves, Shapes, Cells, Checkpoints
<1>2. InMemory'
  BY DEF Quantize, Saves, InMemory, TeacherCells, ExportCells
<1>3. First'
  BY DEF Quantize, Saves, First
<1>4. Training'
  BY DEF Quantize, Saves, Training, AreBest, Finished, TeacherCells, ExportCells
<1>5. Inheritance'
  BY DEF Quantize, Saves, Inheritance, FoundVocab, TeacherCkpt, TeacherCells
<1>6. Artefacts'
  BY DEF Quantize, Saves, Shapes, Files, Artefacts, ArtefactsOfOneRun, ExportCells
<1>7. Raised'
  BY DEF Quantize, Saves, Raised
<1> QED BY <1>1, <1>2, <1>3, <1>4, <1>5, <1>6, <1>7

LEMMA SaveFinalPreserves == ASSUME IInv, SaveFinal PROVE IInv'
<1> USE DEF IInv, models, loop, history
<1>1. Shapes'
  BY DEF SaveFinal, Saves, Shapes, Cells, Checkpoints
<1>2. InMemory'
  BY DEF SaveFinal, Saves, InMemory, TeacherCells, ExportCells
<1>3. First'
  BY DEF SaveFinal, Saves, First
<1>4. Training'
  BY DEF SaveFinal, Saves, Training, AreBest, Finished, TeacherCells, ExportCells
<1>5. Inheritance'
  BY DEF SaveFinal, Saves, Inheritance, FoundVocab, TeacherCkpt, TeacherCells
<1>6. Artefacts'
  BY DEF SaveFinal, Saves, Shapes, Files, Artefacts, ArtefactsOfOneRun, ExportCells
<1>7. Raised'
  BY DEF SaveFinal, Saves, Raised
<1> QED BY <1>1, <1>2, <1>3, <1>4, <1>5, <1>6, <1>7

LEMMA SaveRemapPreserves == ASSUME IInv, SaveRemap PROVE IInv'
<1> USE DEF IInv, models, loop, history
<1>1. Shapes'
  BY DEF SaveRemap, Saves, Shapes, Cells, Checkpoints
<1>2. InMemory'
  BY DEF SaveRemap, Saves, InMemory, TeacherCells, ExportCells
<1>3. First'
  BY DEF SaveRemap, Saves, First
<1>4. Training'
  BY DEF SaveRemap, Saves, Training, AreBest, Finished, TeacherCells, ExportCells
<1>5. Inheritance'
  BY DEF SaveRemap, Saves, Inheritance, FoundVocab, TeacherCkpt, TeacherCells
<1>6. Artefacts'
  BY DEF SaveRemap, Saves, Remap, Shapes, Files, Artefacts, ArtefactsOfOneRun, ExportCells
<1>7. Raised'
  BY DEF SaveRemap, Saves, Raised
<1> QED BY <1>1, <1>2, <1>3, <1>4, <1>5, <1>6, <1>7

LEMMA SaveConfigPreserves == ASSUME IInv, SaveConfig PROVE IInv'
<1> USE DEF IInv, models, loop, history
<1>1. Shapes'
  BY DEF SaveConfig, Saves, Shapes, Ended, Checkpoints, Files
<1>2. InMemory'
  BY DEF SaveConfig, Saves, InMemory, TeacherCells, ExportCells
<1>3. First'
  BY DEF SaveConfig, Saves, First
<1>4. Training'
  BY DEF SaveConfig, Saves, Training, AreBest, Finished, TeacherCells, ExportCells
<1>5. Inheritance'
  BY DEF SaveConfig, Saves, Inheritance, FoundVocab, TeacherCkpt, TeacherCells
<1>6. Artefacts'
  BY DEF SaveConfig, Saves, Shapes, Files, Artefacts, ArtefactsOfOneRun, ExportCells
<1>7. Raised'
  BY DEF SaveConfig, Saves, Raised
<1> QED BY <1>1, <1>2, <1>3, <1>4, <1>5, <1>6, <1>7

LEMMA InitEstablishes == Init => IInv
<1> SUFFICES ASSUME Init PROVE IInv
  OBVIOUS
<1> USE DEF Init
<1>1. Shapes
  <2>1. losses \in Seq(Losses \cup {NaN}) /\ best \in 0..Len(losses)
    OBVIOUS
  <2>2. files = [f \in Files |-> files[f]] /\ \A f \in Checkpoints : files[f] = Absent
    BY DEF Files, Checkpoints
  <2>3. setting \in Settings /\ vocab \in Vocabularies
    BY DistillAssumption DEF Vocabularies
  <2> QED BY <2>1, <2>2, <2>3 DEF Shapes, Ended
<1>2. InMemory /\ First /\ Training
  BY DEF InMemory, First, Training, TeacherCells, ExportCells
<1>3. Inheritance
  BY NoWeights DEF Inheritance, TeacherCells, Files
<1>4. Artefacts /\ Raised
  BY DEF Artefacts, ArtefactsOfOneRun, Exists, Files, ExportCells, Raised
<1> QED BY <1>1, <1>2, <1>3, <1>4 DEF IInv

LEMMA StutterPreserves == ASSUME IInv, UNCHANGED vars PROVE IInv'
<1> USE DEF IInv, vars, models, loop, history
<1>1. Shapes' /\ InMemory' /\ First'
  BY DEF Shapes, InMemory, First
<1>2. Training'
  BY DEF Training, AreBest, Running, Finished, TeacherCkpt
<1>3. Inheritance'
  BY DEF Inheritance, FoundVocab, TeacherCkpt, TeacherCkpt
<1>4. Artefacts' /\ Raised'
  BY DEF Artefacts, ArtefactsOfOneRun, Exists, Raised, MayExceed, Fits, FullTeacher, TeacherCkpt
<1> QED BY <1>1, <1>2, <1>3, <1>4

LEMMA StepPreserves == ASSUME IInv, [Next]_vars PROVE IInv'
<1>1. CASE Next
  BY <1>1, BeginPreserves, LoadRaisesPreserves, PruneRaisesPreserves, InputRaisesPreserves, StoppedPreserves,
     LoadTeacherPreserves, TeacherEpochPreserves, ReloadTeacherPreserves, CompareTeachersPreserves,
     InitStudentPreserves, DistillEpochPreserves, TakeStudentPreserves, ExportOnnxPreserves,
     QuantizePreserves, SaveFinalPreserves, SaveRemapPreserves, SaveConfigPreserves,
     StutterPreserves DEF Next, AllRun
<1> QED BY <1>1, StutterPreserves

-----------------------------------------------------------------------------
(* What holds of every notebook.                                           *)

\* The inductive invariant holds in every reachable state.
THEOREM DistillInvariance == Spec => []IInv
<1> QED BY InitEstablishes, StepPreserves, PTL DEF Spec

\* Whatever was stopped, torn or left behind before, both training loops end at their last epoch or
\* Patience epochs after their best, and hand on the weights of the first epoch of the least val_loss.
THEOREM BestAlwaysKept == Spec => []BestWeightsKept
<1>1. IInv => BestWeightsKept
  <2> SUFFICES ASSUME IInv PROVE BestWeightsKept
    OBVIOUS
  <2>1. Chosen = best
    BY BestIsChosen DEF IInv
  <2> QED BY <2>1 DEF IInv, Training, AreBest, Finished, BestWeightsKept, ChoseBest, ExportCells
<1> QED BY <1>1, DistillInvariance, PTL

\* The deployed files are of one student and one run, unless a run was cut off while it wrote them.
THEOREM DeploymentOfOneRun == Spec => []ArtefactsOfOneRun
<1>1. IInv => ArtefactsOfOneRun
  BY DEF IInv, Artefacts
<1> QED BY <1>1, DistillInvariance, PTL

\* For any tokenizers and prunings, run after run over one directory: the embeddings of a run have the
\* vocabulary of the checkpoint it found, its own if it found none, or are an earlier run's student; and
\* the full teacher never fits the ids it is compared on.
THEOREM MisfitInherited == Spec => []MisfitOnlyInherited
<1>1. IInv => MisfitOnlyInherited
  <2> SUFFICES ASSUME IInv PROVE MisfitOnlyInherited
    OBVIOUS
  <2>1. Chosen = best
    BY BestIsChosen DEF IInv
  <2>2. teacher # Absent => teacher.vocab = FoundVocab
    BY DEF IInv, Shapes, Inheritance
  <2>3. student # Absent => student.vocab = FoundVocab \/ (student.run < run /\ Chosen = 0)
    BY <2>1 DEF IInv, Shapes, Inheritance
  <2>4. ASSUME pc = "compare", FullTeacher # {}, Readable PROVE ~Fits(files["teacher_best"])
    <3>1. Source = {"teacher_best"} /\ setting.prune
      BY <2>4, Sources DEF FullTeacher
    <3>2. files["teacher_best"] \in Weights
      BY <2>4, <3>1, ReadWeights DEF Checkpoints, IInv
    <3>3. files["teacher_best"].vocab.kept = Everything
      BY <3>2 DEF IInv, Inheritance
    <3>4. vocab.kept # Everything
      BY <2>4, <3>1 DEF IInv, Shapes
    <3> QED BY <3>3, <3>4 DEF Fits
  <2> QED BY <2>2, <2>3, <2>4 DEF MisfitOnlyInherited
<1> QED BY <1>1, DistillInvariance, PTL

\* A run raises over a torn checkpoint, over ids without a row, or for want of any weights: never
\* because a checkpoint that one of its loops chose is not there.
THEOREM RaisesForWant == Spec => []RaisesOnlyWithoutWeights
<1>1. IInv => RaisesOnlyWithoutWeights
  <2> SUFFICES ASSUME IInv PROVE RaisesOnlyWithoutWeights
    OBVIOUS
  <2>1. Chosen = best
    BY BestIsChosen DEF IInv
  <2> QED BY <2>1 DEF IInv, Raised, RaisesOnlyWithoutWeights, Checkpoints
<1> QED BY <1>1, DistillInvariance, PTL
=============================================================================
