--------------------------- MODULE RemoteTrainProofs ---------------------------
(***************************************************************************)
(* What a remote fine-tuning run keeps, for any number of voices and runs: *)
(* the type invariant, and that finished epochs are not removed.           *)
(***************************************************************************)
EXTENDS RemoteTrain, TLAPS

USE DEF runVars, sessionVars, codeVars, inputVars, outputVars, Stages, Weights,
        NoModel, Unknown, NothingSeen, State, At

-----------------------------------------------------------------------------
(* Types.  What a run keeps of its own, what the machine's process is, and *)
(* the files are typed apart.                                              *)

RunType ==
    /\ platform \in {"linux", "windows"}
    /\ runs \in 0..MaxRuns
    /\ stage \in [Voices -> Stages]
    /\ seen \in [Voices -> [held : BOOLEAN, alive : BOOLEAN, venv : BOOLEAN,
                            saved : BOOLEAN]]
    /\ digest \in [Voices -> Weights \cup {Unknown}]
    /\ local \in [Voices -> [of : Weights, intact : BOOLEAN]]

SessionType ==
    /\ session \in [Voices -> {"none", "waiting", "training"}]
    /\ learning \in [Voices -> Weights]
    /\ opened \in [Voices -> Nat] /\ lockFile \in Nat
    /\ data \in Voices \cup {Nobody}
    /\ checkpoint \in Weights /\ adapter \in Weights /\ merged \in Weights

FileType ==
    /\ installed \in {"broken", "old", "current"}
    /\ sourceHash \in {"none", "old", "current"}
    /\ profiles \in Weights
    /\ log \in {"none", "running", "ok", "failed"}
    /\ script \in {"none", "fresh", "resume"}

FlagType == runner \in BOOLEAN

ServedType == registered \in [Voices -> [of : Weights, intact : BOOLEAN]]

\* The type invariant, part by part.
LEMMA TypeParts ==
    TypeOK <=> RunType /\ SessionType /\ FileType /\ FlagType /\ ServedType
BY Zenon DEF TypeOK, RunType, SessionType, FileType, FlagType, ServedType

\* At the start no run is under way and nothing of any voice is there.
LEMMA TypeInit == Init => TypeOK
<1>1. SUFFICES ASSUME Init PROVE TypeOK
  OBVIOUS
<1>2. RunType
  BY <1>1, MaxRunsAssumption DEF Init, RunType
<1>3. SessionType /\ FileType /\ ServedType
  BY <1>1 DEF Init, SessionType, FileType, ServedType
<1>4. FlagType
  BY <1>1, Zenon DEF Init, FlagType
<1> QED BY <1>2, <1>3, <1>4, TypeParts

\* Whatever part of the answer comes, the rest is false.
LEMMA AnswersType ==
    ASSUME NEW v \in Voices, NEW answer \in Answers(v)
    PROVE  answer \in [held : BOOLEAN, alive : BOOLEAN, venv : BOOLEAN, saved : BOOLEAN]
<1>1. LockHeld \in BOOLEAN /\ Alive(v) \in BOOLEAN /\ (installed # "broken") \in BOOLEAN
  BY Zenon DEF LockHeld, Alive
<1>2. PICK h, a, e \in BOOLEAN : answer = State(h, a, e, FALSE)
  BY <1>1, Zenon DEF Answers, NothingSeen
<1> QED BY <1>2 DEF State

\* Every step keeps the types of the runs.
LEMMA RunTypeStep == RunType /\ SessionType /\ [Next]_vars => RunType'
<1>1. SUFFICES ASSUME RunType, SessionType, [Next]_vars PROVE RunType'
  OBVIOUS
<1>2. CASE UNCHANGED vars
  BY <1>1, <1>2 DEF RunType, vars
<1>3. ASSUME NEW v \in Voices, StartRun(v) PROVE RunType'
  BY <1>1, <1>3, MaxRunsAssumption DEF StartRun, RunType
<1>4. ASSUME NEW v \in Voices, Probe(v) PROVE RunType'
  <2>1. PICK answer \in Answers(v) : seen' = [seen EXCEPT ![v] = answer]
    BY <1>4 DEF Probe
  <2>2. answer \in [held : BOOLEAN, alive : BOOLEAN, venv : BOOLEAN, saved : BOOLEAN]
    BY <2>1, AnswersType
  <2>3. seen' \in [Voices -> [held : BOOLEAN, alive : BOOLEAN, venv : BOOLEAN,
                              saved : BOOLEAN]]
    BY <1>1, <2>1, <2>2 DEF RunType
  <2>4. stage' \in [Voices -> Stages]
    BY <1>1, <1>4 DEF Probe, RunType
  <2> QED BY <1>1, <1>4, <2>3, <2>4 DEF Probe, RunType
<1>5. ASSUME NEW v \in Voices, RemoveLock(v) PROVE RunType'
  BY <1>1, <1>5 DEF RemoveLock, RunType, Go
<1>6. ASSUME NEW v \in Voices, KillOrphan(v) PROVE RunType'
  BY <1>1, <1>6 DEF KillOrphan, RunType, Go, Kill
<1>7. ASSUME NEW v \in Voices, NothingToClear(v) PROVE RunType'
  BY <1>1, <1>7 DEF NothingToClear, RunType, Go
<1>8. ASSUME NEW v \in Voices, SkipBundle(v) PROVE RunType'
  BY <1>1, <1>8 DEF SkipBundle, RunType, Go, UpToDate
<1>9. ASSUME NEW v \in Voices, Install(v) PROVE RunType'
  BY <1>1, <1>9 DEF Install, RunType, Go, Extract, UpToDate
<1>10. ASSUME NEW v \in Voices, InstallFails(v) PROVE RunType'
  BY <1>1, <1>10 DEF InstallFails, RunType, Stop, Extract, UpToDate
<1>11. ASSUME NEW v \in Voices, Prepare(v) PROVE RunType'
  BY <1>1, <1>11 DEF Prepare, RunType, Go
<1>12. ASSUME NEW v \in Voices, Examine(v) PROVE RunType'
  <2>1. PICK saved \in BOOLEAN :
           seen' = [seen EXCEPT ![v] = State(FALSE, FALSE, FALSE, saved)]
    BY <1>12, Zenon DEF Examine
  <2>2. State(FALSE, FALSE, FALSE, saved)
          \in [held : BOOLEAN, alive : BOOLEAN, venv : BOOLEAN, saved : BOOLEAN]
    BY DEF State
  <2>3. seen' \in [Voices -> [held : BOOLEAN, alive : BOOLEAN, venv : BOOLEAN,
                              saved : BOOLEAN]]
    BY <1>1, <2>1, <2>2 DEF RunType
  <2>4. stage' \in [Voices -> Stages]
    BY <1>1, <1>12 DEF Examine, RunType
  <2> QED BY <1>1, <1>12, <2>3, <2>4 DEF Examine, RunType
<1>13. ASSUME NEW v \in Voices, TryLock(v) PROVE RunType'
  BY <1>1, <1>13 DEF TryLock, RunType, Go
<1>14. ASSUME NEW v \in Voices, Launch(v) PROVE RunType'
  BY <1>1, <1>14 DEF Launch, RunType, Go
<1>15. ASSUME NEW v \in Voices, LaunchInCall(v) PROVE RunType'
  BY <1>1, <1>15 DEF LaunchInCall, RunType, Go, Train, Learnt
<1>16. ASSUME NEW v \in Voices, Begin(v) PROVE RunType'
  BY <1>1, <1>16 DEF Begin, RunType, Train, Learnt
<1>17. ASSUME NEW v \in Voices, Epoch(v) PROVE RunType'
  BY <1>1, <1>17 DEF Epoch, RunType
<1>18. ASSUME NEW v \in Voices, SessionEnds(v) PROVE RunType'
  <2>1. Go(v, "result") \/ Stop(v) \/ UNCHANGED <<platform, runVars>>
    BY <1>18 DEF SessionEnds, CallReturns
  <2>2. CASE Go(v, "result")
    BY <1>1, <2>2 DEF RunType, Go
  <2>3. CASE Stop(v)
    BY <1>1, <2>3 DEF RunType, Stop
  <2>4. CASE UNCHANGED <<platform, runVars>>
    BY <1>1, <2>4 DEF RunType
  <2> QED BY <2>1, <2>2, <2>3, <2>4
<1>19. ASSUME NEW v \in Voices, SessionKilled(v) PROVE RunType'
  BY <1>1, <1>19 DEF SessionKilled, RunType, Kill, Alive
<1>20. ASSUME NEW v \in Voices, Polled(v) PROVE RunType'
  BY <1>1, <1>20 DEF Polled, RunType, Go, Alive
<1>21. ASSUME NEW v \in Voices, Result(v) PROVE RunType'
  BY <1>1, <1>21 DEF Result, RunType, Go
<1>22. ASSUME NEW v \in Voices, Merge(v) PROVE RunType'
  BY <1>1, <1>22 DEF Merge, RunType, Go
<1>23. ASSUME NEW v \in Voices, Hash(v) PROVE RunType'
  <2>1. digest' = [digest EXCEPT ![v] = merged] \/ digest' = [digest EXCEPT ![v] = Unknown]
    BY <1>23 DEF Hash
  <2>2. digest' \in [Voices -> Weights \cup {Unknown}]
    BY <1>1, <2>1 DEF RunType, SessionType
  <2>3. stage' \in [Voices -> Stages]
    BY <1>1, <1>23 DEF Hash, RunType
  <2> QED BY <1>1, <1>23, <2>2, <2>3 DEF Hash, RunType
<1>24. ASSUME NEW v \in Voices, Pull(v) PROVE RunType'
  <2>1. PICK intact \in BOOLEAN :
           local' = [local EXCEPT ![v] = [of |-> merged, intact |-> intact]]
    BY <1>24 DEF Pull
  <2>2. local' \in [Voices -> [of : Weights, intact : BOOLEAN]]
    BY <1>1, <2>1 DEF RunType, SessionType
  <2>3. stage' \in [Voices -> Stages]
    BY <1>1, <1>24 DEF Pull, RunType
  <2> QED BY <1>1, <1>24, <2>2, <2>3 DEF Pull, RunType
<1>25. ASSUME NEW v \in Voices, Register(v) PROVE RunType'
  BY <1>1, <1>25 DEF Register, RunType, Go, Matches
<1>26. ASSUME NEW v \in Voices, Cleanup(v) PROVE RunType'
  BY <1>1, <1>26 DEF Cleanup, RunType, Stop
<1>27. ASSUME NEW v \in Voices, Fail(v) PROVE RunType'
  BY <1>1, <1>27 DEF Fail, RunType, Stop, Kill
<1>28. ASSUME NEW v \in Voices, NothingToRun(v) PROVE RunType'
  BY <1>1, <1>28 DEF NothingToRun, RunType, Kill
<1>29. ASSUME NEW v \in Voices, CleanupFails(v) PROVE RunType'
  BY <1>1, <1>29 DEF CleanupFails, RunType, Stop
<1> QED BY <1>1, <1>2, <1>3, <1>4, <1>5, <1>6, <1>7, <1>8, <1>9, <1>10, <1>11,
       <1>12, <1>13, <1>14, <1>15, <1>16, <1>17, <1>18, <1>19, <1>20, <1>21,
       <1>22, <1>23, <1>24, <1>25, <1>26, <1>27, <1>28, <1>29
       DEF Next, Step, Session

\* Every step keeps the types of the training sessions.
LEMMA SessionTypeStep == RunType /\ SessionType /\ [Next]_vars => SessionType'
<1>1. SUFFICES ASSUME RunType, SessionType, [Next]_vars PROVE SessionType'
  OBVIOUS
<1>2. CASE UNCHANGED vars
  BY <1>1, <1>2 DEF SessionType, vars
<1>3. ASSUME NEW v \in Voices, StartRun(v) PROVE SessionType'
  BY <1>1, <1>3 DEF StartRun, SessionType
<1>4. ASSUME NEW v \in Voices, Probe(v) PROVE SessionType'
  BY <1>1, <1>4 DEF Probe, SessionType
<1>5. ASSUME NEW v \in Voices, RemoveLock(v) PROVE SessionType'
  BY <1>1, <1>5 DEF RemoveLock, SessionType, Go
<1>6. ASSUME NEW v \in Voices, KillOrphan(v) PROVE SessionType'
  BY <1>1, <1>6 DEF KillOrphan, SessionType, Go, Kill
<1>7. ASSUME NEW v \in Voices, NothingToClear(v) PROVE SessionType'
  BY <1>1, <1>7 DEF NothingToClear, SessionType, Go
<1>8. ASSUME NEW v \in Voices, SkipBundle(v) PROVE SessionType'
  BY <1>1, <1>8 DEF SkipBundle, SessionType, Go, UpToDate
<1>9. ASSUME NEW v \in Voices, Install(v) PROVE SessionType'
  BY <1>1, <1>9 DEF Install, SessionType, Go, Extract, UpToDate
<1>10. ASSUME NEW v \in Voices, InstallFails(v) PROVE SessionType'
  BY <1>1, <1>10 DEF InstallFails, SessionType, Stop, Extract, UpToDate
<1>11. ASSUME NEW v \in Voices, Prepare(v) PROVE SessionType'
  BY <1>1, <1>11 DEF Prepare, SessionType, Go
<1>12. ASSUME NEW v \in Voices, Examine(v) PROVE SessionType'
  BY <1>1, <1>12 DEF Examine, SessionType
<1>13. ASSUME NEW v \in Voices, TryLock(v) PROVE SessionType'
  BY <1>1, <1>13 DEF TryLock, SessionType, Go
<1>14. ASSUME NEW v \in Voices, Launch(v) PROVE SessionType'
  BY <1>1, <1>14 DEF Launch, SessionType, Go
<1>15. ASSUME NEW v \in Voices, LaunchInCall(v) PROVE SessionType'
  BY <1>1, <1>15 DEF LaunchInCall, SessionType, Go, Train, Learnt
<1>16. ASSUME NEW v \in Voices, Begin(v) PROVE SessionType'
  BY <1>1, <1>16 DEF Begin, SessionType, Train, Learnt
<1>17. ASSUME NEW v \in Voices, Epoch(v) PROVE SessionType'
  BY <1>1, <1>17 DEF Epoch, SessionType
<1>18. ASSUME NEW v \in Voices, SessionEnds(v) PROVE SessionType'
  BY <1>1, <1>18 DEF SessionEnds, SessionType, Kill, CallReturns, Go, Stop
<1>19. ASSUME NEW v \in Voices, SessionKilled(v) PROVE SessionType'
  BY <1>1, <1>19 DEF SessionKilled, SessionType, Kill, Alive
<1>20. ASSUME NEW v \in Voices, Polled(v) PROVE SessionType'
  BY <1>1, <1>20 DEF Polled, SessionType, Go, Alive
<1>21. ASSUME NEW v \in Voices, Result(v) PROVE SessionType'
  BY <1>1, <1>21 DEF Result, SessionType, Go
<1>22. ASSUME NEW v \in Voices, Merge(v) PROVE SessionType'
  BY <1>1, <1>22 DEF Merge, SessionType, Go
<1>23. ASSUME NEW v \in Voices, Hash(v) PROVE SessionType'
  BY <1>1, <1>23 DEF Hash, SessionType
<1>24. ASSUME NEW v \in Voices, Pull(v) PROVE SessionType'
  BY <1>1, <1>24 DEF Pull, SessionType
<1>25. ASSUME NEW v \in Voices, Register(v) PROVE SessionType'
  BY <1>1, <1>25 DEF Register, SessionType, Go, Matches
<1>26. ASSUME NEW v \in Voices, Cleanup(v) PROVE SessionType'
  BY <1>1, <1>26 DEF Cleanup, SessionType, Stop
<1>27. ASSUME NEW v \in Voices, Fail(v) PROVE SessionType'
  BY <1>1, <1>27 DEF Fail, SessionType, Stop, Kill
<1>28. ASSUME NEW v \in Voices, NothingToRun(v) PROVE SessionType'
  BY <1>1, <1>28 DEF NothingToRun, SessionType, Kill
<1>29. ASSUME NEW v \in Voices, CleanupFails(v) PROVE SessionType'
  BY <1>1, <1>29 DEF CleanupFails, SessionType, Stop
<1> QED BY <1>1, <1>2, <1>3, <1>4, <1>5, <1>6, <1>7, <1>8, <1>9, <1>10, <1>11,
       <1>12, <1>13, <1>14, <1>15, <1>16, <1>17, <1>18, <1>19, <1>20, <1>21,
       <1>22, <1>23, <1>24, <1>25, <1>26, <1>27, <1>28, <1>29
       DEF Next, Step, Session

\* Every step keeps the types of the machine's files.
LEMMA FileTypeStep == FileType /\ [Next]_vars => FileType'
<1>1. SUFFICES ASSUME FileType, [Next]_vars PROVE FileType'
  OBVIOUS
<1>2. CASE UNCHANGED vars
  BY <1>1, <1>2 DEF FileType, vars
<1>3. ASSUME NEW v \in Voices, StartRun(v) PROVE FileType'
  BY <1>1, <1>3 DEF StartRun, FileType
<1>4. ASSUME NEW v \in Voices, Probe(v) PROVE FileType'
  BY <1>1, <1>4 DEF Probe, FileType
<1>5. ASSUME NEW v \in Voices, RemoveLock(v) PROVE FileType'
  BY <1>1, <1>5 DEF RemoveLock, FileType, Go
<1>6. ASSUME NEW v \in Voices, KillOrphan(v) PROVE FileType'
  BY <1>1, <1>6 DEF KillOrphan, FileType, Go, Kill
<1>7. ASSUME NEW v \in Voices, NothingToClear(v) PROVE FileType'
  BY <1>1, <1>7 DEF NothingToClear, FileType, Go
<1>8. ASSUME NEW v \in Voices, SkipBundle(v) PROVE FileType'
  BY <1>1, <1>8 DEF SkipBundle, FileType, Go, UpToDate
<1>9. ASSUME NEW v \in Voices, Install(v) PROVE FileType'
  BY <1>1, <1>9 DEF Install, FileType, Go, Extract, UpToDate
<1>10. ASSUME NEW v \in Voices, InstallFails(v) PROVE FileType'
  BY <1>1, <1>10 DEF InstallFails, FileType, Stop, Extract, UpToDate
<1>11. ASSUME NEW v \in Voices, Prepare(v) PROVE FileType'
  BY <1>1, <1>11 DEF Prepare, FileType, Go
<1>12. ASSUME NEW v \in Voices, Examine(v) PROVE FileType'
  BY <1>1, <1>12 DEF Examine, FileType
<1>13. ASSUME NEW v \in Voices, TryLock(v) PROVE FileType'
  BY <1>1, <1>13 DEF TryLock, FileType, Go
<1>14. ASSUME NEW v \in Voices, Launch(v) PROVE FileType'
  BY <1>1, <1>14 DEF Launch, FileType, Go
<1>15. ASSUME NEW v \in Voices, LaunchInCall(v) PROVE FileType'
  BY <1>1, <1>15 DEF LaunchInCall, FileType, Go, Train, Learnt
<1>16. ASSUME NEW v \in Voices, Begin(v) PROVE FileType'
  BY <1>1, <1>16 DEF Begin, FileType, Train, Learnt
<1>17. ASSUME NEW v \in Voices, Epoch(v) PROVE FileType'
  BY <1>1, <1>17 DEF Epoch, FileType
<1>18. ASSUME NEW v \in Voices, SessionEnds(v) PROVE FileType'
  BY <1>1, <1>18 DEF SessionEnds, FileType, Kill, CallReturns, Go, Stop
<1>19. ASSUME NEW v \in Voices, SessionKilled(v) PROVE FileType'
  BY <1>1, <1>19 DEF SessionKilled, FileType, Kill, Alive
<1>20. ASSUME NEW v \in Voices, Polled(v) PROVE FileType'
  BY <1>1, <1>20 DEF Polled, FileType, Go, Alive
<1>21. ASSUME NEW v \in Voices, Result(v) PROVE FileType'
  BY <1>1, <1>21 DEF Result, FileType, Go
<1>22. ASSUME NEW v \in Voices, Merge(v) PROVE FileType'
  BY <1>1, <1>22 DEF Merge, FileType, Go
<1>23. ASSUME NEW v \in Voices, Hash(v) PROVE FileType'
  BY <1>1, <1>23 DEF Hash, FileType
<1>24. ASSUME NEW v \in Voices, Pull(v) PROVE FileType'
  BY <1>1, <1>24 DEF Pull, FileType
<1>25. ASSUME NEW v \in Voices, Register(v) PROVE FileType'
  BY <1>1, <1>25 DEF Register, FileType, Go, Matches
<1>26. ASSUME NEW v \in Voices, Cleanup(v) PROVE FileType'
  BY <1>1, <1>26 DEF Cleanup, FileType, Stop
<1>27. ASSUME NEW v \in Voices, Fail(v) PROVE FileType'
  BY <1>1, <1>27 DEF Fail, FileType, Stop, Kill
<1>28. ASSUME NEW v \in Voices, NothingToRun(v) PROVE FileType'
  BY <1>1, <1>28 DEF NothingToRun, FileType, Kill
<1>29. ASSUME NEW v \in Voices, CleanupFails(v) PROVE FileType'
  BY <1>1, <1>29 DEF CleanupFails, FileType, Stop
<1> QED BY <1>1, <1>2, <1>3, <1>4, <1>5, <1>6, <1>7, <1>8, <1>9, <1>10, <1>11,
       <1>12, <1>13, <1>14, <1>15, <1>16, <1>17, <1>18, <1>19, <1>20, <1>21,
       <1>22, <1>23, <1>24, <1>25, <1>26, <1>27, <1>28, <1>29
       DEF Next, Step, Session

\* Every step keeps the type of the flag.
LEMMA FlagTypeStep == RunType /\ FlagType /\ [Next]_vars => FlagType'
<1>1. SUFFICES ASSUME RunType, FlagType, [Next]_vars PROVE FlagType'
  OBVIOUS
<1>2. CASE UNCHANGED vars
  BY <1>1, <1>2 DEF FlagType, vars
<1>3. ASSUME NEW v \in Voices, StartRun(v) PROVE FlagType'
  BY <1>1, <1>3 DEF StartRun, FlagType
<1>4. ASSUME NEW v \in Voices, Probe(v) PROVE FlagType'
  BY <1>1, <1>4 DEF Probe, FlagType
<1>5. ASSUME NEW v \in Voices, RemoveLock(v) PROVE FlagType'
  BY <1>1, <1>5 DEF RemoveLock, FlagType, Go
<1>6. ASSUME NEW v \in Voices, KillOrphan(v) PROVE FlagType'
  BY <1>1, <1>6 DEF KillOrphan, FlagType, Go, Kill
<1>7. ASSUME NEW v \in Voices, NothingToClear(v) PROVE FlagType'
  BY <1>1, <1>7 DEF NothingToClear, FlagType, Go
<1>8. ASSUME NEW v \in Voices, SkipBundle(v) PROVE FlagType'
  BY <1>1, <1>8 DEF SkipBundle, FlagType, Go, UpToDate
<1>9. ASSUME NEW v \in Voices, Install(v) PROVE FlagType'
  BY <1>1, <1>9 DEF Install, FlagType, Go, Extract, UpToDate
<1>10. ASSUME NEW v \in Voices, InstallFails(v) PROVE FlagType'
  BY <1>1, <1>10 DEF InstallFails, FlagType, Stop, Extract, UpToDate
<1>11. ASSUME NEW v \in Voices, Prepare(v) PROVE FlagType'
  BY <1>1, <1>11 DEF Prepare, FlagType, Go
<1>12. ASSUME NEW v \in Voices, Examine(v) PROVE FlagType'
  BY <1>1, <1>12 DEF Examine, FlagType
<1>13. ASSUME NEW v \in Voices, TryLock(v) PROVE FlagType'
  BY <1>1, <1>13 DEF TryLock, FlagType, Go
<1>14. ASSUME NEW v \in Voices, Launch(v) PROVE FlagType'
  BY <1>1, <1>14 DEF Launch, FlagType
<1>15. ASSUME NEW v \in Voices, LaunchInCall(v) PROVE FlagType'
  BY <1>1, <1>15 DEF LaunchInCall, FlagType
<1>16. ASSUME NEW v \in Voices, Begin(v) PROVE FlagType'
  BY <1>1, <1>16 DEF Begin, FlagType, Train, Learnt
<1>17. ASSUME NEW v \in Voices, Epoch(v) PROVE FlagType'
  BY <1>1, <1>17 DEF Epoch, FlagType
<1>18. ASSUME NEW v \in Voices, SessionEnds(v) PROVE FlagType'
  BY <1>1, <1>18 DEF SessionEnds, FlagType, Kill, CallReturns, Go, Stop
<1>19. ASSUME NEW v \in Voices, SessionKilled(v) PROVE FlagType'
  BY <1>1, <1>19 DEF SessionKilled, FlagType, Kill, Alive
<1>20. ASSUME NEW v \in Voices, Polled(v) PROVE FlagType'
  BY <1>1, <1>20 DEF Polled, FlagType, Go, Alive
<1>21. ASSUME NEW v \in Voices, Result(v) PROVE FlagType'
  BY <1>1, <1>21 DEF Result, FlagType, Go
<1>22. ASSUME NEW v \in Voices, Merge(v) PROVE FlagType'
  BY <1>1, <1>22 DEF Merge, FlagType, Go
<1>23. ASSUME NEW v \in Voices, Hash(v) PROVE FlagType'
  BY <1>1, <1>23 DEF Hash, FlagType
<1>24. ASSUME NEW v \in Voices, Pull(v) PROVE FlagType'
  BY <1>1, <1>24 DEF Pull, FlagType
<1>25. ASSUME NEW v \in Voices, Register(v) PROVE FlagType'
  BY <1>1, <1>25 DEF Register, FlagType, Go, Matches
<1>26. ASSUME NEW v \in Voices, Cleanup(v) PROVE FlagType'
  BY <1>1, <1>26 DEF Cleanup, FlagType, Stop
<1>27. ASSUME NEW v \in Voices, Fail(v) PROVE FlagType'
  BY <1>1, <1>27 DEF Fail, FlagType, Stop, Kill
<1>28. ASSUME NEW v \in Voices, NothingToRun(v) PROVE FlagType'
  BY <1>1, <1>28 DEF NothingToRun, FlagType, Kill
<1>29. ASSUME NEW v \in Voices, CleanupFails(v) PROVE FlagType'
  BY <1>1, <1>29 DEF CleanupFails, FlagType, Stop
<1> QED BY <1>1, <1>2, <1>3, <1>4, <1>5, <1>6, <1>7, <1>8, <1>9, <1>10, <1>11,
       <1>12, <1>13, <1>14, <1>15, <1>16, <1>17, <1>18, <1>19, <1>20, <1>21,
       <1>22, <1>23, <1>24, <1>25, <1>26, <1>27, <1>28, <1>29
       DEF Next, Step, Session

\* Every step keeps the types of what is served.
LEMMA ServedTypeStep == RunType /\ ServedType /\ [Next]_vars => ServedType'
<1>1. SUFFICES ASSUME RunType, ServedType, [Next]_vars PROVE ServedType'
  OBVIOUS
<1>2. CASE UNCHANGED vars
  BY <1>1, <1>2 DEF ServedType, vars
<1>3. ASSUME NEW v \in Voices, StartRun(v) PROVE ServedType'
  BY <1>1, <1>3 DEF StartRun, ServedType
<1>4. ASSUME NEW v \in Voices, Probe(v) PROVE ServedType'
  BY <1>1, <1>4 DEF Probe, ServedType
<1>5. ASSUME NEW v \in Voices, RemoveLock(v) PROVE ServedType'
  BY <1>1, <1>5 DEF RemoveLock, ServedType, Go
<1>6. ASSUME NEW v \in Voices, KillOrphan(v) PROVE ServedType'
  BY <1>1, <1>6 DEF KillOrphan, ServedType, Go, Kill
<1>7. ASSUME NEW v \in Voices, NothingToClear(v) PROVE ServedType'
  BY <1>1, <1>7 DEF NothingToClear, ServedType, Go
<1>8. ASSUME NEW v \in Voices, SkipBundle(v) PROVE ServedType'
  BY <1>1, <1>8 DEF SkipBundle, ServedType, Go, UpToDate
<1>9. ASSUME NEW v \in Voices, Install(v) PROVE ServedType'
  BY <1>1, <1>9 DEF Install, ServedType, Go, Extract, UpToDate
<1>10. ASSUME NEW v \in Voices, InstallFails(v) PROVE ServedType'
  BY <1>1, <1>10 DEF InstallFails, ServedType, Stop, Extract, UpToDate
<1>11. ASSUME NEW v \in Voices, Prepare(v) PROVE ServedType'
  BY <1>1, <1>11 DEF Prepare, ServedType, Go
<1>12. ASSUME NEW v \in Voices, Examine(v) PROVE ServedType'
  BY <1>1, <1>12 DEF Examine, ServedType
<1>13. ASSUME NEW v \in Voices, TryLock(v) PROVE ServedType'
  BY <1>1, <1>13 DEF TryLock, ServedType, Go
<1>14. ASSUME NEW v \in Voices, Launch(v) PROVE ServedType'
  BY <1>1, <1>14 DEF Launch, ServedType, Go
<1>15. ASSUME NEW v \in Voices, LaunchInCall(v) PROVE ServedType'
  BY <1>1, <1>15 DEF LaunchInCall, ServedType, Go, Train, Learnt
<1>16. ASSUME NEW v \in Voices, Begin(v) PROVE ServedType'
  BY <1>1, <1>16 DEF Begin, ServedType, Train, Learnt
<1>17. ASSUME NEW v \in Voices, Epoch(v) PROVE ServedType'
  BY <1>1, <1>17 DEF Epoch, ServedType
<1>18. ASSUME NEW v \in Voices, SessionEnds(v) PROVE ServedType'
  BY <1>1, <1>18 DEF SessionEnds, ServedType, Kill, CallReturns, Go, Stop
<1>19. ASSUME NEW v \in Voices, SessionKilled(v) PROVE ServedType'
  BY <1>1, <1>19 DEF SessionKilled, ServedType, Kill, Alive
<1>20. ASSUME NEW v \in Voices, Polled(v) PROVE ServedType'
  BY <1>1, <1>20 DEF Polled, ServedType, Go, Alive
<1>21. ASSUME NEW v \in Voices, Result(v) PROVE ServedType'
  BY <1>1, <1>21 DEF Result, ServedType, Go
<1>22. ASSUME NEW v \in Voices, Merge(v) PROVE ServedType'
  BY <1>1, <1>22 DEF Merge, ServedType, Go
<1>23. ASSUME NEW v \in Voices, Hash(v) PROVE ServedType'
  BY <1>1, <1>23 DEF Hash, ServedType
<1>24. ASSUME NEW v \in Voices, Pull(v) PROVE ServedType'
  BY <1>1, <1>24 DEF Pull, ServedType
<1>25. ASSUME NEW v \in Voices, Register(v) PROVE ServedType'
  BY <1>1, <1>25 DEF Register, ServedType, RunType
<1>26. ASSUME NEW v \in Voices, Cleanup(v) PROVE ServedType'
  BY <1>1, <1>26 DEF Cleanup, ServedType, Stop
<1>27. ASSUME NEW v \in Voices, Fail(v) PROVE ServedType'
  BY <1>1, <1>27 DEF Fail, ServedType, Stop, Kill
<1>28. ASSUME NEW v \in Voices, NothingToRun(v) PROVE ServedType'
  BY <1>1, <1>28 DEF NothingToRun, ServedType, Kill
<1>29. ASSUME NEW v \in Voices, CleanupFails(v) PROVE ServedType'
  BY <1>1, <1>29 DEF CleanupFails, ServedType, Stop
<1> QED BY <1>1, <1>2, <1>3, <1>4, <1>5, <1>6, <1>7, <1>8, <1>9, <1>10, <1>11,
       <1>12, <1>13, <1>14, <1>15, <1>16, <1>17, <1>18, <1>19, <1>20, <1>21,
       <1>22, <1>23, <1>24, <1>25, <1>26, <1>27, <1>28, <1>29
       DEF Next, Step, Session

\* Every step keeps the type invariant.
LEMMA TypeStep == TypeOK /\ [Next]_vars => TypeOK'
<1>1. TypeOK /\ [Next]_vars =>
        RunType' /\ SessionType' /\ FileType' /\ FlagType' /\ ServedType'
  BY TypeParts, RunTypeStep, SessionTypeStep, FileTypeStep, FlagTypeStep, ServedTypeStep
<1>2. RunType' /\ SessionType' /\ FileType' /\ FlagType' /\ ServedType' => TypeOK'
  BY Zenon DEF TypeOK, RunType, SessionType, FileType, FlagType, ServedType
<1> QED BY <1>1, <1>2

\* The type invariant of the runs, the machine and what is served
\* (remote_finetune).
THEOREM TypeCorrect == Spec => []TypeOK
BY TypeInit, TypeStep, PTL DEF Spec

-----------------------------------------------------------------------------
(* Checkpoints.  They are removed by the cleanup, and a run that cleans up *)
(* has registered something it downloaded.                                 *)

KeepInv ==
    \A v \in Voices :
        /\ At(v, "register") => local[v].of # {}
        /\ At(v, "cleanup") => registered[v].of # {}

\* No run is at its last stages at the start.
LEMMA KeepInit == Init => KeepInv
BY DEF Init, KeepInv

\* No run comes to remove checkpoints but behind the registration of its model.
LEMMA KeepStep == RunType /\ ServedType /\ KeepInv /\ [Next]_vars => KeepInv'
<1>1. SUFFICES ASSUME RunType, ServedType, KeepInv, [Next]_vars PROVE KeepInv'
  OBVIOUS
<1>2. CASE UNCHANGED vars
  BY <1>1, <1>2 DEF KeepInv, vars
<1>3. ASSUME NEW v \in Voices, StartRun(v) PROVE KeepInv'
  BY <1>1, <1>3 DEF StartRun, KeepInv
<1>4. ASSUME NEW v \in Voices, Probe(v) PROVE KeepInv'
  BY <1>1, <1>4 DEF Probe, KeepInv
<1>5. ASSUME NEW v \in Voices, RemoveLock(v) PROVE KeepInv'
  BY <1>1, <1>5 DEF RemoveLock, KeepInv, Go
<1>6. ASSUME NEW v \in Voices, KillOrphan(v) PROVE KeepInv'
  BY <1>1, <1>6 DEF KillOrphan, KeepInv, Go, Kill
<1>7. ASSUME NEW v \in Voices, NothingToClear(v) PROVE KeepInv'
  BY <1>1, <1>7 DEF NothingToClear, KeepInv, Go
<1>8. ASSUME NEW v \in Voices, SkipBundle(v) PROVE KeepInv'
  BY <1>1, <1>8 DEF SkipBundle, KeepInv, Go, UpToDate
<1>9. ASSUME NEW v \in Voices, Install(v) PROVE KeepInv'
  BY <1>1, <1>9 DEF Install, KeepInv, Go, Extract, UpToDate
<1>10. ASSUME NEW v \in Voices, InstallFails(v) PROVE KeepInv'
  BY <1>1, <1>10 DEF InstallFails, KeepInv, Stop, Extract, UpToDate
<1>11. ASSUME NEW v \in Voices, Prepare(v) PROVE KeepInv'
  BY <1>1, <1>11 DEF Prepare, KeepInv, Go
<1>12. ASSUME NEW v \in Voices, Examine(v) PROVE KeepInv'
  BY <1>1, <1>12 DEF Examine, KeepInv
<1>13. ASSUME NEW v \in Voices, TryLock(v) PROVE KeepInv'
  BY <1>1, <1>13 DEF TryLock, KeepInv, Go
<1>14. ASSUME NEW v \in Voices, Launch(v) PROVE KeepInv'
  BY <1>1, <1>14 DEF Launch, KeepInv, Go
<1>15. ASSUME NEW v \in Voices, LaunchInCall(v) PROVE KeepInv'
  BY <1>1, <1>15 DEF LaunchInCall, KeepInv, Go, Train, Learnt
<1>16. ASSUME NEW v \in Voices, Begin(v) PROVE KeepInv'
  BY <1>1, <1>16 DEF Begin, KeepInv, Train, Learnt
<1>17. ASSUME NEW v \in Voices, Epoch(v) PROVE KeepInv'
  BY <1>1, <1>17 DEF Epoch, KeepInv
<1>18. ASSUME NEW v \in Voices, SessionEnds(v) PROVE KeepInv'
  <2>1. Go(v, "result") \/ Stop(v) \/ UNCHANGED <<platform, runVars>>
    BY <1>18 DEF SessionEnds, CallReturns
  <2>2. UNCHANGED registered
    BY <1>18 DEF SessionEnds
  <2>3. CASE Go(v, "result")
    BY <1>1, <2>2, <2>3 DEF KeepInv, RunType, Go
  <2>4. CASE Stop(v)
    BY <1>1, <2>2, <2>4 DEF KeepInv, RunType, Stop
  <2>5. CASE UNCHANGED <<platform, runVars>>
    BY <1>1, <2>2, <2>5 DEF KeepInv
  <2> QED BY <2>1, <2>3, <2>4, <2>5
<1>19. ASSUME NEW v \in Voices, SessionKilled(v) PROVE KeepInv'
  BY <1>1, <1>19 DEF SessionKilled, KeepInv, Kill, Alive
<1>20. ASSUME NEW v \in Voices, Polled(v) PROVE KeepInv'
  BY <1>1, <1>20 DEF Polled, KeepInv, Go, Alive
<1>21. ASSUME NEW v \in Voices, Result(v) PROVE KeepInv'
  BY <1>1, <1>21 DEF Result, KeepInv, Go
<1>22. ASSUME NEW v \in Voices, Merge(v) PROVE KeepInv'
  BY <1>1, <1>22 DEF Merge, KeepInv, Go
<1>23. ASSUME NEW v \in Voices, Hash(v) PROVE KeepInv'
  BY <1>1, <1>23 DEF Hash, KeepInv
<1>24. ASSUME NEW v \in Voices, Pull(v) PROVE KeepInv'
  <2>1. PICK intact \in BOOLEAN :
           local' = [local EXCEPT ![v] = [of |-> merged, intact |-> intact]]
    BY <1>24 DEF Pull
  <2> QED BY <1>1, <1>24, <2>1 DEF Pull, KeepInv, RunType
<1>25. ASSUME NEW v \in Voices, Register(v) PROVE KeepInv'
  BY <1>1, <1>25 DEF Register, KeepInv, Go, RunType, ServedType
<1>26. ASSUME NEW v \in Voices, Cleanup(v) PROVE KeepInv'
  BY <1>1, <1>26 DEF Cleanup, KeepInv, Stop
<1>27. ASSUME NEW v \in Voices, Fail(v) PROVE KeepInv'
  BY <1>1, <1>27 DEF Fail, KeepInv, Stop, RunType
<1>28. ASSUME NEW v \in Voices, NothingToRun(v) PROVE KeepInv'
  BY <1>1, <1>28 DEF NothingToRun, KeepInv, Kill
<1>29. ASSUME NEW v \in Voices, CleanupFails(v) PROVE KeepInv'
  BY <1>1, <1>29 DEF CleanupFails, KeepInv, Stop, RunType
<1> QED BY <1>1, <1>2, <1>3, <1>4, <1>5, <1>6, <1>7, <1>8, <1>9, <1>10, <1>11,
       <1>12, <1>13, <1>14, <1>15, <1>16, <1>17, <1>18, <1>19, <1>20, <1>21,
       <1>22, <1>23, <1>24, <1>25, <1>26, <1>27, <1>28, <1>29
       DEF Next, Step, Session

\* Epochs already trained are lost only in the cleanup of a run that registered
\* its model (remote_finetune, the cleanup after step 10).
THEOREM CheckpointsSurviveThm == Spec => CheckpointsSurvive
<1>1. TypeOK /\ KeepInv /\ [Next]_vars =>
        [checkpoint # {} /\ checkpoint' = {} =>
            \E v \in Voices : At(v, "cleanup") /\ registered[v].of # {}]_vars
  <2>1. SUFFICES ASSUME TypeOK, KeepInv, [Next]_vars, checkpoint # {}, checkpoint' = {}
                 PROVE  \E v \in Voices : At(v, "cleanup") /\ registered[v].of # {}
    OBVIOUS
  <2>2. PICK v \in Voices : Cleanup(v)
    BY <2>1 DEF Next, Step, Session, vars, StartRun, Probe, RemoveLock, KillOrphan,
                NothingToClear, SkipBundle, Install, InstallFails, Extract, Prepare,
                Examine, TryLock, Launch, LaunchInCall, Begin, Epoch, SessionEnds,
                SessionKilled, Polled, Result, Merge, Hash, Pull, Register, Train, Fail,
                NothingToRun, CleanupFails
  <2> QED BY <2>1, <2>2 DEF Cleanup, KeepInv
<1>2. TypeOK /\ KeepInv /\ [Next]_vars => KeepInv'
  BY TypeParts, KeepStep
<1> QED BY <1>1, <1>2, TypeCorrect, KeepInit, PTL DEF Spec, CheckpointsSurvive
=============================================================================
