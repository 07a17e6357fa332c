-------------------------- MODULE SubProgramTable --------------------------
(***************************************************************************)
(* The table of sub-programs of a scene (scene_core.rs): the vectors       *)
(* sub_programs and sub_program_inputs, the free index next_subprogram and *)
(* the map program_indexes from program ids to indexes ("handles"), as     *)
(* start_subprogram and the closing code of a program's process change     *)
(* them.  Each action is one critical section of the scene core's mutex.   *)
(* The two vectors are always changed together and are one variable here.  *)
(***************************************************************************)
EXTENDS Integers, FiniteSets

CONSTANTS Programs,  \* ids of sub-programs
          MaxHandles,\* bound: size of the table
          None       \* Rust's None

ASSUME TableAssumption ==
    /\ MaxHandles \in Nat \ {0}
    /\ None \notin Int \cup Programs

Handles == 0..MaxHandles-1

VARIABLES sub_programs,    \* per handle: the program there, or None
          next_subprogram, \* SceneCore::next_subprogram
          program_indexes, \* per id: its handle, or None
          handle_of,       \* per id: the handle captured by its live process, or None
          panicked         \* the program whose start panicked, or None

vars == <<sub_programs, next_subprogram, program_indexes, handle_of, panicked>>

TypeOK ==
    /\ sub_programs \in [Handles -> Programs \cup {None}]
    /\ next_subprogram \in 0..MaxHandles
    /\ program_indexes \in [Programs -> Handles \cup {None}]
    /\ handle_of \in [Programs -> Handles \cup {None}]
    /\ panicked \in Programs \cup {None}

Running == {g \in Programs : handle_of[g] # None}

\* The start of g is refused: its last known handle is in use.  start_subprogram
\* panics, with the core's mutex held, so nothing can use the scene any more.
Refused(g) == program_indexes[g] # None /\ sub_programs[program_indexes[g]] # None

StartRefused(g) ==
    /\ panicked = None /\ Refused(g)
    /\ panicked' = g
    /\ UNCHANGED <<sub_programs, next_subprogram, program_indexes, handle_of>>

IndexesAfterStart(g) == [program_indexes EXCEPT ![g] = next_subprogram]

\* n is the first index above the new program's that is not in use.
NextAfterStart(n) ==
    /\ n > next_subprogram
    /\ n \in Handles => sub_programs[n] = None
    /\ \A m \in next_subprogram+1..n-1 : sub_programs[m] # None

StartSubprogram(g) ==
    /\ panicked = None /\ ~Refused(g) /\ next_subprogram \in Handles
    /\ sub_programs' = [sub_programs EXCEPT ![next_subprogram] = g]
    /\ program_indexes' = IndexesAfterStart(g)
    /\ handle_of' = [handle_of EXCEPT ![g] = next_subprogram]
    /\ \E n \in 0..MaxHandles : NextAfterStart(n) /\ next_subprogram' = n
    /\ UNCHANGED panicked

\* Mutant: a freed handle is not looked at.
NextAfterFinish_Kept(h) == next_subprogram

NextAfterFinish(h) == IF h < next_subprogram THEN h ELSE next_subprogram

\* The closing code of g's process: its entries are taken out, but program_indexes
\* keeps its handle.
FinishSubprogram(g) ==
    LET h == handle_of[g] IN
    /\ panicked = None /\ h # None
    /\ sub_programs' = [sub_programs EXCEPT ![h] = None]
    /\ next_subprogram' = NextAfterFinish(h)
    /\ handle_of' = [handle_of EXCEPT ![g] = None]
    /\ UNCHANGED <<program_indexes, panicked>>

Init ==
    /\ sub_programs = [h \in Handles |-> None]
    /\ next_subprogram = 0
    /\ program_indexes = [g \in Programs |-> None]
    /\ handle_of = [g \in Programs |-> None]
    /\ panicked = None

Next == \E g \in Programs : StartSubprogram(g) \/ FinishSubprogram(g) \/ StartRefused(g)

Spec == Init /\ [][Next]_vars

(***************************************************************************)
(* What the lookups return (get_sub_program; get_input_stream_core and     *)
(* get_target_input take the same path to the program's input).            *)
(***************************************************************************)
GetSubProgram(g) == IF program_indexes[g] = None THEN None
                    ELSE sub_programs[program_indexes[g]]

GetRunningSubprograms == {g \in Programs : program_indexes[g] # None}

\* run_core's test for the end of a scene.
NoProgramsLeft == next_subprogram = 0 /\ \A h \in Handles : sub_programs[h] = None

(***************************************************************************)
(* Properties                                                              *)
(***************************************************************************)
\* next_subprogram is the lowest free handle, as start_subprogram's comment and
\* debug_assert say, so a start never overwrites a running program.
NextSubprogramIsLowestFree ==
    /\ next_subprogram \in Handles => sub_programs[next_subprogram] = None
    /\ \A h \in Handles : h < next_subprogram => sub_programs[h] # None

\* However often programs are stopped and started again, a running program is
\* found by its id and listed, and no two programs share a handle.
RunningProgramIsFound ==
    \A g \in Running : /\ GetSubProgram(g) = g /\ sub_programs[handle_of[g]] = g
                       /\ g \in GetRunningSubprograms

\* run_core ends the scene exactly when no program is running.
EndsWhenNothingRuns == NoProgramsLeft <=> Running = {}

\* The table through every order of starts, ends and restarts: well typed, the lowest
\* handle free, each running program at a handle of its own, the end of the scene exact.
TableIsSound ==
    /\ TypeOK
    /\ NextSubprogramIsLowestFree
    /\ RunningProgramIsFound
    /\ EndsWhenNothingRuns
=============================================================================
