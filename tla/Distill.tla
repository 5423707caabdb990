------------------------------ MODULE Distill ------------------------------
(***************************************************************************)
(* The notebook written by scripts/build_distill_notebook.py, run from top *)
(* to bottom: a teacher is trained or taken from an earlier run, a student *)
(* with fewer layers is distilled from it, exported to ONNX, quantized and *)
(* saved with its configuration.  Hours pass between the first checkpoint  *)
(* and the last file, all files stay in OUT_DIR, and a later run takes     *)
(* what it finds there.                                                    *)
(*                                                                         *)
(* Weights are known by the run and the epoch they come from and by the    *)
(* vocabulary of their embeddings: the tokenizer whose tokens the rows     *)
(* stood for when they were first loaded, and the ids whose rows are kept. *)
(* Training changes the numbers in the rows and none of that.              *)
(***************************************************************************)
EXTENDS Integers, Sequences

CONSTANTS
    Tokenizers,     \* what PII_TEACHER_NAME names; no two have the same table
    KeepSorted,     \* keep_sorted: it follows from the table, from the rows in DATA_DIR and
                    \* from PII_PRUNE_MIN_COUNT
    Everything,     \* all ids of a tokenizer, when nothing is pruned
    Settings,       \* the environment variables of a run
    Losses,         \* values of val_loss
    NaN,            \* val_loss of a training that diverged
    Patience,       \* HP["patience"]
    Absent,         \* no file, no model
    Torn,           \* a file or directory whose writing was cut off
    MaxRuns         \* bound of the model: how often the notebook is started

Files ==
    {"teacher_best", "teacher_best_pruned", "student_best", "student.onnx",
     "student_int8.onnx", "student_final", "vocab_remap.npy", "model_config.json"}

\* The rows of the embeddings are those of the kept ids in the table of a tokenizer.
Vocabularies == [table : Tokenizers, kept : KeepSorted \cup {Everything}]

ASSUME DistillAssumption ==
    /\ Everything \notin KeepSorted
    /\ Settings \subseteq [prune : BOOLEAN, force : BOOLEAN, tokenizer : Tokenizers,
                           teacherEpochs : Nat, distillEpochs : Nat]
    /\ Losses \subseteq Int /\ NaN \notin Losses
    /\ Patience \in Nat \ {0}
    /\ MaxRuns \in Nat
    /\ {Absent, Torn} \cap [run : Nat, epoch : Nat, vocab : Vocabularies] = {}

VARIABLES
    pc,         \* the cell, or the part of a cell, that is next
    setting,    \* the environment of this run
    vocab,      \* the vocabulary of the ids that remap_ids returns
    teacher,
    student,
    losses,     \* val_loss of every epoch of the loop that runs or ran last
    best,       \* best_epoch; best_loss is its val_loss, infinite before the first
    run,        \* how many runs have begun
    files,      \* OUT_DIR
    \* history
    inherited,  \* the two teachers' checkpoints as this run found them
    exporting   \* a run has begun to write its artefacts; the last of them is missing

loop == <<losses, best>>
models == <<teacher, student>>
history == <<inherited, exporting>>
vars == <<pc, setting, vocab, models, loop, run, files, history>>

Ended == {"off", "raised", "done"}
TeacherFiles == {"teacher_best", "teacher_best_pruned"}

Init ==
    /\ pc = "off"
    /\ setting \in Settings
    /\ vocab = [table |-> setting.tokenizer, kept |-> Everything]
    /\ teacher = Absent /\ student = Absent
    /\ losses = <<>> /\ best = 0
    /\ run = 0
    /\ files = [f \in Files |-> Absent]
    /\ inherited = [f \in TeacherFiles |-> Absent]
    /\ exporting = FALSE

\* A run begins with nothing in memory; it reads its tokenizer and, if it prunes,
\* counts the tokens of its rows.
Begin ==
    /\ pc \in Ended
    /\ run < MaxRuns
    /\ run' = run + 1
    /\ setting' \in Settings
    /\ vocab' \in [table : {setting'.tokenizer},
                   kept : IF setting'.prune THEN KeepSorted ELSE {Everything}]
    /\ teacher' = Absent /\ student' = Absent
    /\ losses' = <<>> /\ best' = 0
    /\ inherited' = [f \in TeacherFiles |-> files[f]]
    /\ pc' = "load"
    /\ UNCHANGED <<files, exporting>>

-----------------------------------------------------------------------------
(* Checkpoints.                                                            *)

\* Mutant of TeacherCkpt: one directory for both kinds of teacher.
OneTeacherCkpt == "teacher_best"
TeacherCkpt == IF setting.prune THEN "teacher_best_pruned" ELSE "teacher_best"

Exists(f) == files[f] # Absent

\* A full teacher that is there, for a run that prunes.
FullTeacher == IF setting.prune /\ Exists("teacher_best") THEN {"teacher_best"} ELSE {}

\* The directory from_pretrained is about to read; from_pretrained(TEACHER_NAME)
\* needs none.
Source ==
    CASE pc = "load"    -> IF Exists(TeacherCkpt) THEN {TeacherCkpt} ELSE FullTeacher
      [] pc = "reload"  -> {f \in {TeacherCkpt} : Exists(f)}
      [] pc = "compare" -> FullTeacher
      [] pc = "init"    -> {TeacherCkpt}
      [] pc = "take"    -> {"student_best"}
      [] OTHER          -> {}

Loaded == files[CHOOSE f \in Source : TRUE]
Readable == \A f \in Source : files[f] \notin {Absent, Torn}

\* from_pretrained raises, and the notebook goes no further.
LoadRaises ==
    /\ ~Readable
    /\ pc' = "raised"
    /\ UNCHANGED <<setting, vocab, models, loop, run, files, history>>

\* keep_sorted may name rows that the table of an earlier run's tokenizer has not.
PruneRaises ==
    /\ pc = "load"
    /\ Source = {"teacher_best"} /\ TeacherCkpt # "teacher_best"
    /\ Readable
    /\ Loaded.vocab.table # vocab.table
    /\ pc' = "raised"
    /\ UNCHANGED <<setting, vocab, models, loop, run, files, history>>

\* The models that answer texts: in training, in the comparison of the full teacher
\* with the pruned one, on the test rows before the export, and as ONNX before the
\* final save.  All of them get the ids that remap_ids returns.
Asked ==
    CASE pc = "teach"               -> {teacher}
      [] pc = "compare"             -> IF FullTeacher = {} THEN {} ELSE {Loaded, teacher}
      [] pc \in {"distill", "export"} -> {teacher, student}
      [] pc = "final"               -> {student}
      [] OTHER                      -> {}

Fits(net) == net.vocab = vocab
\* An id for which the embeddings may have no row; remapped ids are all less than the
\* number of the full table's rows.
MayExceed(net) == ~Fits(net) /\ net.vocab # [table |-> vocab.table, kept |-> Everything]

InputRaises ==
    /\ Readable
    /\ \E net \in Asked : MayExceed(net)
    /\ pc' = "raised"
    /\ UNCHANGED <<setting, vocab, models, loop, run, files, history>>

-----------------------------------------------------------------------------
(* The two training loops.                                                 *)

\* Mutant of Improves: an equal loss replaces the checkpoint, too.
ImprovesOrEquals(loss) == loss # NaN /\ (best = 0 \/ loss <= losses[best])
\* Mutant of Improves: best_loss begins at zero.
ImprovesOnZero(loss) == loss # NaN /\ best # 0 /\ loss < losses[best]
\* val_loss < best_loss
Improves(loss) == loss # NaN /\ (best = 0 \/ loss < losses[best])

Over(epochs) == Len(losses') >= epochs \/ Len(losses') - best' >= Patience

\* One epoch: net, trained once more, is saved if it is the best so far.
Epoch(net, ckpt, epochs, next) ==
    /\ \E loss \in Losses \cup {NaN} :
        /\ losses' = Append(losses, loss)
        /\ best' = IF Improves(loss) THEN Len(losses') ELSE best
        /\ files' = IF Improves(loss) THEN [files EXCEPT ![ckpt] = net] ELSE files
    /\ pc' = IF Over(epochs) THEN next ELSE pc

Trained(net) == [run |-> run, epoch |-> Len(losses) + 1, vocab |-> net.vocab]

-----------------------------------------------------------------------------
(* Stage 1: the teacher.                                                   *)

Trains ==
    /\ setting.teacherEpochs > 0
    /\ setting.force \/ ~(Exists(TeacherCkpt) \/ FullTeacher # {})

\* The checkpoint, or the full one, of which the kept ids' rows are saved as a
\* checkpoint, or TEACHER_NAME.
LoadTeacher ==
    /\ pc = "load"
    /\ Readable
    /\ teacher' =
         IF Source = {} THEN [run |-> run, epoch |-> 0, vocab |-> vocab]
         ELSE IF Exists(TeacherCkpt) THEN Loaded ELSE [Loaded EXCEPT !.vocab.kept = vocab.kept]
    /\ files' = IF Source \in {{}, {TeacherCkpt}} THEN files
                ELSE [files EXCEPT ![TeacherCkpt] = teacher']
    /\ pc' = IF Trains THEN "teach" ELSE "reload"
    /\ UNCHANGED <<setting, vocab, student, loop, run, history>>

TeacherEpoch ==
    /\ pc = "teach"
    /\ teacher' = Trained(teacher)
    /\ Epoch(teacher', TeacherCkpt, setting.teacherEpochs, "reload")
    /\ UNCHANGED <<setting, vocab, student, run, history>>

\* The best weights of the loop; without a checkpoint only a warning is printed.
ReloadTeacher ==
    /\ pc = "reload"
    /\ Readable
    /\ teacher' = IF Source = {} THEN teacher ELSE Loaded
    /\ pc' = "compare"
    /\ UNCHANGED <<setting, vocab, student, loop, run, files, history>>

\* A/B of the full and the pruned teacher: the full one is loaded, it and the pruned one
\* answer the same remapped ids (Asked), and it is deleted again.
CompareTeachers ==
    /\ pc = "compare"
    /\ Readable
    /\ pc' = "init"
    /\ UNCHANGED <<setting, vocab, models, loop, run, files, history>>

-----------------------------------------------------------------------------
(* Stage 2: the student.                                                   *)

\* Some layers of the teacher, its embeddings and its classifier.
InitStudent ==
    /\ pc = "init"
    /\ Readable
    /\ teacher' = Loaded
    /\ student' = [run |-> run, epoch |-> 0, vocab |-> teacher'.vocab]
    /\ losses' = <<>> /\ best' = 0
    /\ pc' = IF setting.distillEpochs = 0 THEN "take" ELSE "distill"
    /\ UNCHANGED <<setting, vocab, run, files, history>>

DistillEpoch ==
    /\ pc = "distill"
    /\ student' = Trained(student)
    /\ Epoch(student', "student_best", setting.distillEpochs, "take")
    /\ UNCHANGED <<setting, vocab, teacher, run, history>>

\* student_best, whoever wrote it.
TakeStudent ==
    /\ pc = "take"
    /\ Readable
    /\ student' = Loaded
    /\ pc' = "export"
    /\ exporting' = TRUE
    /\ UNCHANGED <<setting, vocab, teacher, loop, run, files, inherited>>

-----------------------------------------------------------------------------
(* The artefacts, one after the other.                                     *)

Saves(step, f, content, next) ==
    /\ pc = step
    /\ files' = [files EXCEPT ![f] = content]
    /\ pc' = next
    /\ UNCHANGED <<setting, vocab, models, loop, run, inherited>>

ExportOnnx == Saves("export", "student.onnx", student, "quantize") /\ UNCHANGED exporting

\* quantize_dynamic reads the file just written.
Quantize ==
    Saves("quantize", "student_int8.onnx", files["student.onnx"], "final") /\ UNCHANGED exporting

SaveFinal ==
    /\ Saves("final", "student_final", student, IF setting.prune THEN "remap" ELSE "config")
    /\ UNCHANGED exporting

\* Mutant of Remap: a file that is there is taken to be right.
RemapKept ==
    IF Exists("vocab_remap.npy") THEN files["vocab_remap.npy"] ELSE [run |-> run, vocab |-> vocab]
Remap == [run |-> run, vocab |-> vocab]

SaveRemap == Saves("remap", "vocab_remap.npy", Remap, "config") /\ UNCHANGED exporting

SaveConfig ==
    /\ Saves("config", "model_config.json",
             [run |-> run, pruned |-> setting.prune, size |-> student.vocab], "done")
    /\ exporting' = FALSE

-----------------------------------------------------------------------------
\* What the next step may be writing when it is cut off.
Writing ==
    CASE pc = "load"     -> IF Source \in {{}, {TeacherCkpt}} THEN {} ELSE {TeacherCkpt}
      [] pc = "teach"    -> {TeacherCkpt}
      [] pc = "distill"  -> {"student_best"}
      [] pc = "export"   -> {"student.onnx"}
      [] pc = "quantize" -> {"student_int8.onnx"}
      [] pc = "final"    -> {"student_final"}
      [] pc = "remap"    -> {"vocab_remap.npy"}
      [] pc = "config"   -> {"model_config.json"}
      [] OTHER           -> {}

\* The kernel is stopped, or a disk is full; at worst in the middle of a file.
Stopped ==
    /\ pc \notin Ended
    /\ files' \in {files} \cup {[files EXCEPT ![f] = Torn] : f \in Writing}
    /\ teacher' = Absent /\ student' = Absent
    /\ losses' = <<>> /\ best' = 0
    /\ pc' = "off"
    /\ UNCHANGED <<setting, vocab, run, history>>

AllRun == pc \in Ended /\ run = MaxRuns /\ UNCHANGED vars

Next ==
    \/ Begin \/ LoadRaises \/ PruneRaises \/ InputRaises \/ Stopped
    \/ LoadTeacher \/ TeacherEpoch \/ ReloadTeacher \/ CompareTeachers
    \/ InitStudent \/ DistillEpoch \/ TakeStudent
    \/ ExportOnnx \/ Quantize \/ SaveFinal \/ SaveRemap \/ SaveConfig
    \/ AllRun

Spec == Init /\ [][Next]_vars

-----------------------------------------------------------------------------
(* Properties.                                                             *)

Lesser(a, b) == IF a < b THEN a ELSE b

\* The first epoch of the least val_loss; 0 if every epoch diverged.
Chosen ==
    LET numbers == {e \in DOMAIN losses : losses[e] # NaN}
    IN  IF numbers = {} THEN 0
        ELSE CHOOSE e \in numbers :
                \A d \in numbers : losses[e] < losses[d] \/ (losses[e] = losses[d] /\ e <= d)

\* The loop of epochs stopped Patience epochs after its best, or at its last, and
\* its best weights are those that net was loaded from.
ChoseBest(net, epochs) ==
    /\ Len(losses) = Lesser(epochs, Chosen + Patience)
    /\ Chosen # 0 => net.run = run /\ net.epoch = Chosen

\* After either training loop the weights that go on are those of its epoch with
\* the least val_loss, and of the first of several; the loop ran no longer than two
\* epochs beyond it.  A stop, what earlier runs left behind, and the other loop's
\* best do not matter.
BestWeightsKept ==
    /\ pc = "compare" /\ losses # <<>> => ChoseBest(teacher, setting.teacherEpochs)
    /\ pc \in {"export", "quantize", "final", "remap", "config", "done"} =>
           ChoseBest(student, setting.distillEpochs)

\* Unless a run was cut off between its first artefact and its last, the files that
\* are deployed are of one student: both ONNX files, the final weights, the size in
\* the configuration, and the remap it names if the vocabulary was pruned.
ArtefactsOfOneRun ==
    ~exporting /\ Exists("model_config.json") =>
        LET config == files["model_config.json"]
            final == files["student_final"]
        IN  /\ files["student.onnx"] = final
            /\ files["student_int8.onnx"] = final
            /\ config.size = final.vocab
            /\ config.pruned =>
                  \E v \in Vocabularies :
                      /\ files["vocab_remap.npy"] = [run |-> config.run, vocab |-> v]
                      /\ v.kept # Everything

\* The vocabulary that the checkpoint a run found gives to its embeddings.
FoundVocab ==
    LET found == inherited[TeacherCkpt]
        full == inherited["teacher_best"]
    IN  CASE found # Absent -> found.vocab
          [] found = Absent /\ setting.prune /\ full # Absent ->
                 [full.vocab EXCEPT !.kept = vocab.kept]
          [] OTHER -> vocab

\* Whose rows the ids of a run are answered with is settled by the checkpoint it found,
\* whatever it trains, saves and loads after that.  So the ids mean other tokens than
\* the rows in these cases only: teacher_best_pruned is of an earlier run that pruned to
\* another vocabulary, or teacher_best, taken as it is or to be pruned, of an earlier
\* run with another tokenizer; or no epoch of this run had a least loss and student_best
\* is of an earlier run.  And in one case always: the full teacher, in its comparison
\* with the pruned one, answers remapped ids.
MisfitOnlyInherited ==
    /\ teacher # Absent => teacher.vocab = FoundVocab
    /\ student # Absent => student.vocab = FoundVocab \/ (student.run < run /\ Chosen = 0)
    /\ pc = "compare" /\ FullTeacher # {} /\ Readable => ~Fits(files["teacher_best"])

\* A run raises (but for the asserts on its data and on the architecture, which are
\* not modelled) only over a checkpoint it reads that was torn, over ids that one of its
\* models may have no row for, over the full teacher of another tokenizer, or because
\* neither this stage nor an earlier run has saved any weights.
RaisesOnlyWithoutWeights ==
    pc = "raised" =>
        \/ \E f \in {TeacherCkpt, "student_best"} \cup FullTeacher : files[f] = Torn
        \/ \E net \in {teacher, student} : net # Absent /\ MayExceed(net)
        \/ FullTeacher # {} /\ files["teacher_best"].vocab.table # vocab.table
        \/ Chosen = 0 /\ (~Exists(TeacherCkpt) \/ ~Exists("student_best"))
=============================================================================
