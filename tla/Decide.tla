------------------------------- MODULE Decide -------------------------------
(***************************************************************************)
(* `jev decide REQUEST.json --output FILE` (src/src/main.cpp) run over a   *)
(* folder of requests by shell loops, as src/wiki/batch-decisions-with-    *)
(* jev-decide.md has them: a loop skips the outputs that exist, runs one   *)
(* process per request and goes on whatever its exit status.  Two loops    *)
(* may run over the same folders, any process may be killed, and the disk  *)
(* may fill up.                                                            *)
(*                                                                         *)
(* An answer file is who created it and how much of the answer is in it.   *)
(***************************************************************************)
EXTENDS Integers, Sequences

CONSTANTS Loops,
          Requests     \* a sequence: the refusal of each request file: "reading"
                       \* (not JSON, or not the wire model), "answering" or "none"

ASSUME RequestsAssumption == Requests \in Seq({"reading", "answering", "none"})

VARIABLES at,      \* the request each loop is at
          pc,      \* where its process is
          file,    \* the answer files
          status,  \* how each loop's process of each request ended
          full     \* the disk has filled up
decideVars == <<at, pc, file, status, full>>

Absent == [by |-> {}, holds |-> "nothing"]
Created(l, text) == [by |-> {l}, holds |-> text]

DecideInit == /\ at = [l \in Loops |-> 1]
              /\ pc = [l \in Loops |-> "test"]
              /\ file = [r \in DOMAIN Requests |-> Absent]
              /\ status = [l \in Loops |-> [r \in DOMAIN Requests |-> "not run"]]
              /\ full = FALSE

-----------------------------------------------------------------------------
At(l, place) == at[l] \in DOMAIN Requests /\ pc[l] = place
Move(l, place) == pc' = [pc EXCEPT ![l] = place] /\ UNCHANGED <<at, status, full>>
Exit(l, how) == /\ pc' = [pc EXCEPT ![l] = "test"]
                /\ status' = [status EXCEPT ![l][at[l]] = how]
                /\ at' = [at EXCEPT ![l] = @ + 1]
                /\ UNCHANGED full

\* [ -e "$out" ] && continue
Skip(l) == /\ At(l, "test")
           /\ file[at[l]] # Absent
           /\ Exit(l, "skipped")
           /\ UNCHANGED file
Run(l) == /\ At(l, "test")
          /\ file[at[l]] = Absent
          /\ Move(l, "read")
          /\ UNCHANGED file

\* read_file, loads and check_wire, before the model loads
ReadRequest(l) == /\ At(l, "read")
                  /\ IF Requests[at[l]] = "reading" THEN Exit(l, "failed") ELSE Move(l, "answer")
                  /\ UNCHANGED file

\* The model loads and systemone answers; either may throw.
Answer(l) == /\ At(l, "answer")
             /\ Requests[at[l]] # "answering"
             /\ Move(l, "open")
             /\ UNCHANGED file
Refuse(l) == /\ At(l, "answer")
             /\ Exit(l, "failed")
             /\ UNCHANGED file

OpenTruncates(l) == /\ At(l, "open")
                    /\ file' = [file EXCEPT ![at[l]] = Created(l, "nothing")]
                    /\ Move(l, "write")
\* fopen "wbx": it creates the file or fails.
Open(l) == /\ At(l, "open")
           /\ file[at[l]] = Absent
           /\ file' = [file EXCEPT ![at[l]] = Created(l, "nothing")]
           /\ Move(l, "write")
\* It exists, or the folder cannot be made or written.
OpenFails(l) == /\ At(l, "open")
                /\ Exit(l, "failed")
                /\ UNCHANGED file

\* fwrite: what does not fit stdio's buffer goes to the file; its result is
\* not read.
WriteAnswer(l) == /\ At(l, "write")
                  /\ \E text \in {"nothing", "part", "whole"} :
                       file' = [file EXCEPT ![at[l]] = [@ EXCEPT !.holds = text]]
                  /\ Move(l, "close")

CloseForgotten(l) == /\ At(l, "close")
                     /\ Exit(l, "answered")
                     /\ UNCHANGED file
\* fclose writes the rest, and its result is not read either.
Close(l) == /\ At(l, "close")
            /\ Exit(l, "answered")
            /\ \/ file' = [file EXCEPT ![at[l]] = [@ EXCEPT !.holds = "whole"]]
               \/ full /\ UNCHANGED file

Killed(l) == /\ at[l] \in DOMAIN Requests
             /\ pc[l] # "test"
             /\ Exit(l, "killed")
             /\ UNCHANGED file

DiskFills == ~full /\ full' = TRUE /\ UNCHANGED <<at, pc, file, status>>

Process(l) == \/ Skip(l) \/ Run(l) \/ ReadRequest(l) \/ Answer(l) \/ Refuse(l)
              \/ Open(l) \/ OpenFails(l) \/ WriteAnswer(l) \/ Close(l) \/ Killed(l)
DecideNext == DiskFills \/ \E l \in Loops : Process(l)
DecideSpec == DecideInit /\ [][DecideNext]_decideVars

-----------------------------------------------------------------------------
(* Properties *)

\* "Answers are create-only: an existing file is never written over": a file
\* has one writer for good, whichever loop is behind, and an answer in it is
\* never changed.
NeverWrittenOver ==
  [][\A r \in DOMAIN Requests :
       file[r] # Absent => /\ file'[r].by = file[r].by
                           /\ \A l \in Loops : status[l][r] = "answered" => file'[r] = file[r]]_decideVars

\* "so a loop can tell answers from failures by the exit status": a process
\* that exits with 0 has left its answer in its file - the whole of it, as long
\* as the disk has not filled up - and one that fails has left no file of its
\* own, whatever the other loop did meanwhile.
StatusTellsAnswers ==
  \A l \in Loops, r \in DOMAIN Requests :
    /\ status[l][r] = "answered" => /\ file[r].by = {l}
                                    /\ full \/ file[r].holds = "whole"
    /\ status[l][r] = "failed" => file[r].by # {l}

=============================================================================
