------------------------------ MODULE KeyFile -------------------------------
(***************************************************************************)
(* The default key of the command line (crates/aitp-cli/src/main.rs): the  *)
(* first `aitp enroll` writes it, and every later command reads it. The    *)
(* commands are processes of their own; two may find the file missing at   *)
(* once, and any may die between creating it and writing it.               *)
(***************************************************************************)
EXTENDS Naturals, FiniteSets

CONSTANTS
  Processes,
  Seeds,              \* what random_key may draw
  NoFile, Unwritten   \* contents of the file: none, and created but not written in full

ASSUME KeyFileAssumption ==
  /\ NoFile \notin Seeds /\ Unwritten \notin Seeds /\ NoFile # Unwritten
  /\ IsFiniteSet(Processes) /\ IsFiniteSet(Seeds) /\ Cardinality(Seeds) >= Cardinality(Processes)

VARIABLES
  file,      \* NoFile, Unwritten or a seed
  process,   \* pc, and the seed drawn
  used       \* history: the keys that commands went on with

kfVars == <<file, process, used>>

KfInit ==
  /\ file = NoFile
  /\ process = [p \in Processes |-> [pc |-> "start", seed |-> NoFile]]
  /\ used = {}

Go(p, pc) == process' = [process EXCEPT ![p].pc = pc] /\ UNCHANGED used
UseKey(p, seed) == process' = [process EXCEPT ![p].pc = "ended"] /\ used' = used \cup {seed}

\* load_or_create_default_key, and KeyChoice::resolve without options: only
\* the first creates a key when there is none.
FindKey(p, creates) ==
  /\ process[p].pc = "start"
  /\ Go(p, IF file # NoFile THEN "read" ELSE IF creates THEN "generate" ELSE "ended")
  /\ UNCHANGED file

\* key_from_file: a file without a seed in it is an error.
ReadKey(p) ==
  /\ process[p].pc = "read"
  /\ IF file \in Seeds THEN UseKey(p, file) ELSE Go(p, "ended")
  /\ UNCHANGED file

GenerateKey(p, seed) ==
  /\ process[p].pc = "generate"
  /\ seed \notin used \cup {process[q].seed : q \in Processes}
  /\ process' = [process EXCEPT ![p].pc = "create", ![p].seed = seed]
  /\ UNCHANGED <<file, used>>

\* Mutant of CreateFile: `create` and `truncate` for `create_new`.
CreateFileAnyway(p) ==
  /\ process[p].pc = "create"
  /\ file' = Unwritten /\ Go(p, "write")

\* create_new refuses a file that has appeared since.
CreateFile(p) ==
  /\ process[p].pc = "create"
  /\ IF file = NoFile THEN file' = Unwritten /\ Go(p, "write")
     ELSE Go(p, "ended") /\ UNCHANGED file

WriteKey(p) ==
  /\ process[p].pc = "write"
  /\ file' = process[p].seed
  /\ UseKey(p, process[p].seed)

Die(p) ==
  /\ process[p].pc # "ended"
  /\ Go(p, "ended")
  /\ UNCHANGED file

\* The next command.
Again(p) ==
  /\ process[p].pc = "ended"
  /\ process' = [process EXCEPT ![p] = [pc |-> "start", seed |-> NoFile]]
  /\ UNCHANGED <<file, used>>

KfNext == \E p \in Processes :
  \/ \E creates \in BOOLEAN : FindKey(p, creates)
  \/ ReadKey(p)
  \/ \E seed \in Seeds : GenerateKey(p, seed)
  \/ CreateFile(p)
  \/ WriteKey(p)
  \/ Die(p)
  \/ Again(p)

KfSpec == KfInit /\ [][KfNext]_kfVars

\* However many commands start at once, and wherever they die, all that get
\* the default key get the same one, and it stays in the file: what was
\* enrolled with a peer is never replaced by another command's key.
KeyFileKept == used \subseteq {file}
=============================================================================
