-------------------------- MODULE CacheSaverProofs --------------------------
(***************************************************************************)
(* Proof that the save protocol of the signature cache implements          *)
(* SnapshotFile, for any number of handlers, updates, crashes and failed   *)
(* writes.                                                                 *)
(***************************************************************************)
EXTENDS CacheSaver, TLAPS

(* The steps that change where a goroutine is, what it holds or the files. *)
LEMMA SaverStepInv ==
  ASSUME SaverInv, NEW w \in Writers, SaverStep(w)
  PROVE  SaverInv'
<1> USE SaverAssumption DEF SaverInv, TypeOK, Contents, OneSaver, SnapshotBetween, Active
<1>1. CASE Snapshot(w)
  BY <1>1 DEF Snapshot
<1>2. CASE Truncate(w)
  BY <1>2 DEF Truncate
<1>3. CASE WriteTmp(w)
  BY <1>3 DEF WriteTmp
<1>4. CASE Rename(w)
  BY <1>4 DEF Rename
<1>5. CASE ClearFlag(w)
  BY <1>5 DEF ClearFlag
<1>6. QED
  BY <1>1, <1>2, <1>3, <1>4, <1>5 DEF SaverStep

LEMMA SaverInvStep == SaverInv /\ [Next]_vars => SaverInv'
<1> SUFFICES ASSUME SaverInv, [Next]_vars
             PROVE  SaverInv'
  OBVIOUS
<1>1. CASE UNCHANGED vars
  BY <1>1 DEF vars, SaverInv, TypeOK, Contents, OneSaver, SnapshotBetween, Active
<1>2. ASSUME NEW w \in Writers, NEW u \in Updates, Put(w, u) PROVE SaverInv'
  BY <1>2 DEF Put, SaverInv, TypeOK, Contents, OneSaver, SnapshotBetween, Active
<1>3. ASSUME NEW w \in Writers, TriggerSave(w) PROVE SaverInv'
  BY <1>3 DEF TriggerSave, SaverInv, TypeOK, Contents, OneSaver, SnapshotBetween, Active
<1>4. ASSUME NEW w \in Writers, WriteFails(w) PROVE SaverInv'
  BY <1>4, SaverAssumption
     DEF WriteFails, SaverInv, TypeOK, Contents, OneSaver, SnapshotBetween, Active
<1>5. CASE Crash
  <2>1. \A w \in Writers : saver'[w] = "none"
    BY <1>5 DEF Crash
  <2>2. TypeOK'
    <3>1. saver' \in [Writers -> {"none", "sleep", "write", "written", "saved"}]
      BY <1>5 DEF Crash
    <3>2. snapshot' \in [Writers -> Contents]
      BY <1>5 DEF Crash, Contents
    <3>3. mishaps' \in 0..MaxMishaps
      BY <1>5, SaverAssumption DEF Crash, SaverInv, TypeOK
    <3>4. saving' \in BOOLEAN /\ calling' \subseteq Writers
      BY <1>5 DEF Crash
    <3>5. QED
      BY <1>5, <3>1, <3>2, <3>3, <3>4 DEF Crash, SaverInv, TypeOK
  <2>3. file' \subseteq mem'
    BY <1>5 DEF Crash
  <2>4. OneSaver'
    BY <1>5, <2>1 DEF Crash, OneSaver, Active
  <2>5. \A w \in Writers : SnapshotBetween(w)'
    BY <2>1 DEF SnapshotBetween
  <2>6. QED
    BY <2>2, <2>3, <2>4, <2>5 DEF SaverInv
<1>6. QED
  BY <1>1, <1>2, <1>3, <1>4, <1>5, SaverStepInv DEF Next

LEMMA SaverInvInit == Init => SaverInv
<1> SUFFICES ASSUME Init PROVE SaverInv
  OBVIOUS
<1>1. \A w \in Writers : saver[w] = "none"
  BY DEF Init
<1>2. TypeOK
  <2>1. saver \in [Writers -> {"none", "sleep", "write", "written", "saved"}]
    BY DEF Init
  <2>2. snapshot \in [Writers -> Contents]
    BY DEF Init, Contents
  <2>3. mishaps \in 0..MaxMishaps
    BY SaverAssumption DEF Init
  <2>4. saving \in BOOLEAN
    BY DEF Init
  <2>5. QED
    BY <2>1, <2>2, <2>3, <2>4 DEF Init, TypeOK, Contents
<1>3. OneSaver
  BY <1>1 DEF Init, OneSaver, Active
<1>4. \A w \in Writers : SnapshotBetween(w)
  BY <1>1 DEF SnapshotBetween
<1>5. QED
  BY <1>2, <1>3, <1>4 DEF Init, SaverInv

(* At most one goroutine saves, the flag tells exactly whether one does,   *)
(* and what it writes lies between the file and the cache.                 *)
THEOREM SaverInvariant == Spec => []SaverInv
BY SaverInvInit, SaverInvStep, PTL DEF Spec

(* Each step of the protocol is a step of SnapshotFile or leaves mem and   *)
(* file alone.                                                             *)
LEMMA SaverStepSnapshots ==
  SaverInv /\ [Next]_vars => [Saved!Next]_<<mem, file>>
<1> SUFFICES ASSUME SaverInv, [Next]_vars
             PROVE  [Saved!Next]_<<mem, file>>
  OBVIOUS
<1> USE DEF Saved!Next
<1>1. CASE UNCHANGED vars
  BY <1>1 DEF vars
<1>2. ASSUME NEW w \in Writers, NEW u \in Updates, Put(w, u)
      PROVE  [Saved!Next]_<<mem, file>>
  BY <1>2 DEF Put, Saved!Learn
<1>3. ASSUME NEW w \in Writers, TriggerSave(w) \/ WriteFails(w)
      PROVE  UNCHANGED <<mem, file>>
  BY <1>3 DEF TriggerSave, WriteFails
<1>4. ASSUME NEW w \in Writers, Rename(w)
      PROVE  Saved!Persist
  <2>1. file' = snapshot[w] /\ file \subseteq snapshot[w] /\ snapshot[w] \subseteq mem
    BY <1>4 DEF Rename, SaverInv, SnapshotBetween
  <2>2. QED
    BY <1>4, <2>1 DEF Rename, Saved!Persist
<1>5. ASSUME NEW w \in Writers, Snapshot(w) \/ Truncate(w) \/ WriteTmp(w) \/ ClearFlag(w)
      PROVE  UNCHANGED <<mem, file>>
  BY <1>5 DEF Snapshot, Truncate, WriteTmp, ClearFlag
<1>6. CASE Crash
  BY <1>6 DEF Crash, Saved!Restart
<1>7. QED
  BY <1>1, <1>2, <1>3, <1>4, <1>5, <1>6 DEF Next, SaverStep

(* The file only moves forward through whole states of the cache, and a    *)
(* restart resumes from it.                                                *)
THEOREM SaverImplementsSnapshot == Spec => ImplementsSnapshot
<1>1. Init => Saved!Init
  BY DEF Init, Saved!Init
<1>2. QED
  BY <1>1, SaverInvariant, SaverStepSnapshots, PTL DEF Spec, Saved!Spec, ImplementsSnapshot
=============================================================================
