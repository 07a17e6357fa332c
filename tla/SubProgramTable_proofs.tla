----------------------- MODULE SubProgramTable_proofs -----------------------
(***************************************************************************)
(* Proofs, for any set of programs and any size of the table, that the     *)
(* free handle is the lowest one, that a running program is found by its   *)
(* id and that the scene ends exactly when no program is running.          *)
(***************************************************************************)
EXTENDS SubProgramTable, TLAPS

(***************************************************************************)
(* The inductive invariant.  RunningProgramIsFound says what a running     *)
(* program's handle leads to; an entry of the table must also lead back to *)
(* the program whose process captured it, or a finishing program could     *)
(* free the handle of another.                                             *)
(***************************************************************************)
EntriesAreOwned ==
    \A h \in Handles : sub_programs[h] # None => handle_of[sub_programs[h]] = h

IInv == TypeOK /\ NextSubprogramIsLowestFree /\ RunningProgramIsFound /\ EntriesAreOwned

\* The empty table satisfies the invariant.
LEMMA InitIInv == Init => IInv
  BY TableAssumption DEF Init, IInv, TypeOK, NextSubprogramIsLowestFree, RunningProgramIsFound,
     EntriesAreOwned, Running, Handles

\* A program that is running is refused a second start: the check of start_subprogram
\* is on its last handle, and that is the handle it runs at.
LEMMA OnlyStoppedProgramsStart ==
  ASSUME IInv, NEW g \in Programs, ~Refused(g)
  PROVE  handle_of[g] = None
  BY TableAssumption DEF IInv, TypeOK, RunningProgramIsFound, Refused, Running, GetSubProgram, GetRunningSubprograms,
         Handles

\* start_subprogram preserves the invariant.
LEMMA StartStep ==
  ASSUME IInv, NEW g \in Programs, StartSubprogram(g)
  PROVE  IInv'
<1>1. handle_of[g] = None
  BY OnlyStoppedProgramsStart DEF StartSubprogram
<1>2. PICK n \in 0..MaxHandles : NextAfterStart(n) /\ next_subprogram' = n
  BY DEF StartSubprogram
<1>3. /\ next_subprogram \in Handles /\ sub_programs[next_subprogram] = None
      /\ sub_programs' = [sub_programs EXCEPT ![next_subprogram] = g]
      /\ program_indexes' = [program_indexes EXCEPT ![g] = next_subprogram]
      /\ handle_of' = [handle_of EXCEPT ![g] = next_subprogram]
      /\ panicked' = panicked
  BY DEF StartSubprogram, IInv, NextSubprogramIsLowestFree, IndexesAfterStart
<1>4. TypeOK'
  BY <1>2, <1>3 DEF IInv, TypeOK, Handles
<1>5. NextSubprogramIsLowestFree'
  <2>1. next_subprogram' \in Handles => sub_programs'[next_subprogram'] = None
    BY <1>2, <1>3, TableAssumption DEF NextAfterStart, IInv, TypeOK, Handles
  <2>2. ASSUME NEW h \in Handles, h < next_subprogram' PROVE sub_programs'[h] # None
    <3>1. CASE h < next_subprogram
      BY <1>3, <2>2, <3>1, TableAssumption DEF IInv, TypeOK, NextSubprogramIsLowestFree, Handles
    <3>2. CASE h = next_subprogram
      BY <1>3, <3>2, TableAssumption DEF IInv, TypeOK, Handles
    <3>3. CASE h > next_subprogram
      <4>1. h \in next_subprogram+1..n-1
        BY <1>2, <1>3, <2>2, <3>3, TableAssumption DEF Handles
      <4> QED BY <1>2, <1>3, <3>3, <4>1, TableAssumption DEF NextAfterStart, IInv, TypeOK, Handles
    <3> QED BY <1>3, <3>1, <3>2, <3>3, TableAssumption DEF Handles
  <2> QED BY <2>1, <2>2 DEF NextSubprogramIsLowestFree
<1>6. EntriesAreOwned'
  <2> SUFFICES ASSUME NEW h \in Handles, sub_programs'[h] # None
               PROVE  handle_of'[sub_programs'[h]] = h
    BY DEF EntriesAreOwned
  <2>1. CASE h = next_subprogram
    BY <1>3, <2>1 DEF IInv, TypeOK
  <2>2. CASE h # next_subprogram
    BY <1>1, <1>3, <2>2, TableAssumption DEF IInv, TypeOK, EntriesAreOwned, Handles
  <2> QED BY <2>1, <2>2
<1>7. RunningProgramIsFound'
  <2> SUFFICES ASSUME NEW k \in Programs, handle_of'[k] # None
               PROVE  /\ program_indexes'[k] # None /\ sub_programs'[program_indexes'[k]] = k
                      /\ sub_programs'[handle_of'[k]] = k
    BY DEF RunningProgramIsFound, Running, GetSubProgram, GetRunningSubprograms
  <2>1. CASE k = g
    BY <1>3, <2>1, TableAssumption DEF IInv, TypeOK, Handles
  <2>2. CASE k # g
    <3>1. /\ program_indexes[k] # None /\ sub_programs[program_indexes[k]] = k
          /\ sub_programs[handle_of[k]] = k /\ handle_of[k] # None
      BY <1>3, <2>2, TableAssumption
         DEF IInv, TypeOK, RunningProgramIsFound, Running, GetSubProgram, GetRunningSubprograms
    <3>2. program_indexes[k] # next_subprogram /\ handle_of[k] # next_subprogram
      BY <1>3, <3>1, TableAssumption
    <3> QED BY <1>3, <2>2, <3>1, <3>2 DEF IInv, TypeOK
  <2> QED BY <2>1, <2>2
<1> QED BY <1>4, <1>5, <1>6, <1>7 DEF IInv

\* The closing code of a program's process preserves the invariant.
LEMMA FinishStep ==
  ASSUME IInv, NEW g \in Programs, FinishSubprogram(g)
  PROVE  IInv'
<1>1. PICK h \in Handles : h = handle_of[g]
  BY DEF IInv, TypeOK, FinishSubprogram
<1>2. /\ sub_programs' = [sub_programs EXCEPT ![h] = None]
      /\ next_subprogram' = IF h < next_subprogram THEN h ELSE next_subprogram
      /\ handle_of' = [handle_of EXCEPT ![g] = None]
      /\ program_indexes' = program_indexes /\ panicked' = panicked
  BY <1>1 DEF FinishSubprogram, NextAfterFinish
<1>3. sub_programs[h] = g
  BY <1>1, TableAssumption DEF IInv, TypeOK, RunningProgramIsFound, Running, Handles
<1>4. TypeOK'
  BY <1>2, TableAssumption DEF IInv, TypeOK, Handles
<1>5. NextSubprogramIsLowestFree'
  BY <1>2, TableAssumption DEF IInv, TypeOK, NextSubprogramIsLowestFree, Handles
<1>6. EntriesAreOwned'
  <2> SUFFICES ASSUME NEW k \in Handles, sub_programs'[k] # None
               PROVE  handle_of'[sub_programs'[k]] = k
    BY DEF EntriesAreOwned
  <2>1. k # h /\ sub_programs'[k] = sub_programs[k] /\ handle_of[sub_programs[k]] = k
    BY <1>2 DEF IInv, TypeOK, EntriesAreOwned
  <2>2. sub_programs[k] # g
    BY <1>1, <2>1
  <2> QED BY <1>2, <2>1, <2>2 DEF IInv, TypeOK
<1>7. RunningProgramIsFound'
  <2> SUFFICES ASSUME NEW k \in Programs, handle_of'[k] # None
               PROVE  /\ program_indexes'[k] # None /\ sub_programs'[program_indexes'[k]] = k
                      /\ sub_programs'[handle_of'[k]] = k
    BY DEF RunningProgramIsFound, Running, GetSubProgram, GetRunningSubprograms
  <2>1. k # g
    BY <1>2 DEF IInv, TypeOK
  <2>2. /\ program_indexes[k] # None /\ sub_programs[program_indexes[k]] = k
        /\ sub_programs[handle_of[k]] = k /\ handle_of[k] # None
    BY <1>2, <2>1, TableAssumption DEF IInv, TypeOK, RunningProgramIsFound, Running, GetSubProgram, GetRunningSubprograms
  <2>3. program_indexes[k] # h /\ handle_of[k] # h
    BY <1>3, <2>1, <2>2
  <2> QED BY <1>2, <2>1, <2>2, <2>3 DEF IInv, TypeOK
<1> QED BY <1>4, <1>5, <1>6, <1>7 DEF IInv

\* Every step preserves the invariant.
LEMMA NextIInv ==
  ASSUME IInv, [Next]_vars
  PROVE  IInv'
<1>1. ASSUME NEW g \in Programs, StartSubprogram(g) PROVE IInv'
  BY <1>1, StartStep
<1>2. ASSUME NEW g \in Programs, FinishSubprogram(g) PROVE IInv'
  BY <1>2, FinishStep
<1>3. ASSUME NEW g \in Programs, StartRefused(g) PROVE IInv'
  BY <1>3 DEF StartRefused, IInv, TypeOK, NextSubprogramIsLowestFree, RunningProgramIsFound,
     EntriesAreOwned, Running, GetSubProgram, GetRunningSubprograms
<1>4. CASE UNCHANGED vars
  BY <1>4 DEF vars, IInv, TypeOK, NextSubprogramIsLowestFree, RunningProgramIsFound,
     EntriesAreOwned, Running, GetSubProgram, GetRunningSubprograms
<1> QED BY <1>1, <1>2, <1>3, <1>4 DEF Next

\* IInv is an invariant of the table.
THEOREM TableInvariant == Spec => []IInv
  BY InitIInv, NextIInv, PTL DEF Spec

\* The variables keep their types: in particular next_subprogram never leaves the table.
THEOREM TableTypeCorrect == Spec => []TypeOK
<1>1. IInv => TypeOK BY DEF IInv
<1> QED BY <1>1, TableInvariant, PTL

\* next_subprogram is always the lowest free handle, so start_subprogram never replaces
\* a running program.
THEOREM LowestHandleIsReused == Spec => []NextSubprogramIsLowestFree
<1>1. IInv => NextSubprogramIsLowestFree BY DEF IInv
<1> QED BY <1>1, TableInvariant, PTL

\* A running program is always found by its id.
THEOREM RunningProgramsAreFound == Spec => []RunningProgramIsFound
<1>1. IInv => RunningProgramIsFound BY DEF IInv
<1> QED BY <1>1, TableInvariant, PTL

\* run_core's test for the end of the scene is exact.
THEOREM SceneEndsWhenNothingRuns == Spec => []EndsWhenNothingRuns
<1>1. ASSUME IInv PROVE EndsWhenNothingRuns
  <2>1. ASSUME NoProgramsLeft PROVE Running = {}
    BY <1>1, <2>1, TableAssumption
       DEF IInv, TypeOK, RunningProgramIsFound, NoProgramsLeft, Running, Handles
  <2>2. ASSUME Running = {} PROVE NoProgramsLeft
    <3>1. \A h \in Handles : sub_programs[h] = None
      BY <1>1, <2>2, TableAssumption DEF IInv, TypeOK, EntriesAreOwned, Running, Handles
    <3>2. 0 \in Handles
      BY TableAssumption DEF Handles
    <3> QED BY <1>1, <3>1, <3>2, TableAssumption
            DEF IInv, TypeOK, NextSubprogramIsLowestFree, NoProgramsLeft, Handles
  <2> QED BY <2>1, <2>2 DEF EndsWhenNothingRuns
<1> QED BY <1>1, TableInvariant, PTL

\* All of it together.
THEOREM TableIsAlwaysSound == Spec => []TableIsSound
BY TableTypeCorrect, LowestHandleIsReused, RunningProgramsAreFound, SceneEndsWhenNothingRuns,
   PTL DEF TableIsSound
=============================================================================
