----------------------------- MODULE CacheSaver -----------------------------
(***************************************************************************)
(* How the signature cache of agy-bridge-go reaches its file               *)
(* (signature_cache.go: triggerSave, SaveToFile, LoadFromFile).            *)
(*                                                                         *)
(* A handler changes the cache under its lock, gives the lock back and     *)
(* then calls triggerSave.  The first caller to swap the flag "saving"     *)
(* starts a goroutine, which sleeps 200 ms, takes a snapshot under the     *)
(* read lock, writes it to a temporary file, renames that over the file    *)
(* and clears the flag.  The process may crash anywhere; the next one      *)
(* loads the file.  The contents are abstracted to the set of updates      *)
(* they include (SignatureCache says what an update does).                 *)
(***************************************************************************)
EXTENDS Integers

CONSTANTS
  Writers,      \* handler goroutines
  Updates,      \* all that is ever put into the cache
  Signed,       \* the updates that carry a signature or siblings: the others
                \* (records without a signature) do not ask for a save
  Torn,         \* contents of a file whose write has not finished
  MaxMishaps    \* bound on crashes and failed writes

ASSUME SaverAssumption ==
  /\ Signed \subseteq Updates
  /\ Torn \notin SUBSET Updates
  /\ MaxMishaps \in Nat

VARIABLES
  mem,          \* the cache
  used,         \* history: the updates put so far
  calling,      \* the writers between their update and triggerSave
  saving,       \* SignatureCache.saving
  saver,        \* location of the goroutine each writer started
  snapshot,     \* its local variable data
  tmp, file,    \* contents of path.tmp and of path
  mishaps       \* number of crashes and failed writes so far

vars == <<mem, used, calling, saving, saver, snapshot, tmp, file, mishaps>>

Contents == SUBSET Updates

TypeOK ==
  /\ mem \in Contents /\ used \in Contents
  /\ calling \subseteq Writers
  /\ saving \in BOOLEAN
  /\ saver \in [Writers -> {"none", "sleep", "write", "written", "saved"}]
  /\ snapshot \in [Writers -> Contents]
  /\ tmp \in Contents \cup {Torn}
  /\ file \in Contents
  /\ mishaps \in 0..MaxMishaps

Init ==
  /\ mem = {} /\ used = {}
  /\ calling = {}
  /\ saving = FALSE
  /\ saver = [w \in Writers |-> "none"]
  /\ snapshot = [w \in Writers |-> {}]
  /\ tmp = {} /\ file = {}
  /\ mishaps = 0

-----------------------------------------------------------------------------
(* A Put or RecordTurnSiblings, up to the release of the lock.             *)
Put(w, u) ==
  /\ w \notin calling
  /\ u \in Updates \ used
  /\ mem' = mem \cup {u}
  /\ used' = used \cup {u}
  /\ calling' = IF u \in Signed THEN calling \cup {w} ELSE calling
  /\ UNCHANGED <<saving, saver, snapshot, tmp, file, mishaps>>

(* Faulty variant: every caller starts a goroutine.                        *)
TriggerSaveAlways(w) ==
  /\ w \in calling
  /\ calling' = calling \ {w}
  /\ saving' = TRUE
  /\ saver' = IF saver[w] = "none" THEN [saver EXCEPT ![w] = "sleep"] ELSE saver
  /\ UNCHANGED <<mem, used, snapshot, tmp, file, mishaps>>

(* triggerSave: nothing to do when a save is under way.  A goroutine that  *)
(* has cleared the flag is gone, so a writer has one at most.              *)
TriggerSave(w) ==
  /\ w \in calling
  /\ calling' = calling \ {w}
  /\ saving' = TRUE
  /\ saver' = IF saving THEN saver ELSE [saver EXCEPT ![w] = "sleep"]
  /\ UNCHANGED <<mem, used, snapshot, tmp, file, mishaps>>

(* Faulty variant: the next save may start once the snapshot is taken.     *)
SnapshotReleasing(w) ==
  /\ saver[w] = "sleep"
  /\ saver' = [saver EXCEPT ![w] = "write"]
  /\ snapshot' = [snapshot EXCEPT ![w] = mem]
  /\ saving' = FALSE
  /\ UNCHANGED <<mem, used, calling, tmp, file, mishaps>>

(* The sleep ends; the snapshot is taken under the read lock.              *)
Snapshot(w) ==
  /\ saver[w] = "sleep"
  /\ saver' = [saver EXCEPT ![w] = "write"]
  /\ snapshot' = [snapshot EXCEPT ![w] = mem]
  /\ UNCHANGED <<mem, used, calling, saving, tmp, file, mishaps>>

(* os.WriteFile truncates, then writes.                                    *)
Truncate(w) ==
  /\ saver[w] = "write" /\ tmp # Torn
  /\ tmp' = Torn
  /\ UNCHANGED <<mem, used, calling, saving, saver, snapshot, file, mishaps>>

WriteTmp(w) ==
  /\ saver[w] = "write" /\ tmp = Torn
  /\ tmp' = snapshot[w]
  /\ saver' = [saver EXCEPT ![w] = "written"]
  /\ UNCHANGED <<mem, used, calling, saving, snapshot, file, mishaps>>

(* A full disk: SaveToFile returns the error, which triggerSave drops.     *)
WriteFails(w) ==
  /\ mishaps < MaxMishaps
  /\ saver[w] \in {"write", "written"}
  /\ saver' = [saver EXCEPT ![w] = "saved"]
  /\ mishaps' = mishaps + 1
  /\ UNCHANGED <<mem, used, calling, saving, snapshot, tmp, file>>

(* os.Rename puts what path.tmp holds in place of the file.                *)
Rename(w) ==
  /\ saver[w] = "written"
  /\ saver' = [saver EXCEPT ![w] = "saved"]
  /\ file' = tmp
  /\ tmp' = {}
  /\ UNCHANGED <<mem, used, calling, saving, snapshot, mishaps>>

(* Faulty variant: the deferred Store is missing.                          *)
ClearFlagNever(w) ==
  /\ saver[w] = "saved"
  /\ saver' = [saver EXCEPT ![w] = "none"]
  /\ snapshot' = [snapshot EXCEPT ![w] = {}]
  /\ UNCHANGED <<mem, used, calling, saving, tmp, file, mishaps>>

(* The deferred saving.Store(false), and the goroutine ends.               *)
ClearFlag(w) ==
  /\ saver[w] = "saved"
  /\ saver' = [saver EXCEPT ![w] = "none"]
  /\ snapshot' = [snapshot EXCEPT ![w] = {}]
  /\ saving' = FALSE
  /\ UNCHANGED <<mem, used, calling, tmp, file, mishaps>>

(* The process dies, or is stopped: main does not wait for a save.  The    *)
(* next one starts from the file (LoadFromFile).                           *)
Crash ==
  /\ mishaps < MaxMishaps
  /\ mishaps' = mishaps + 1
  /\ mem' = file
  /\ calling' = {}
  /\ saving' = FALSE
  /\ saver' = [w \in Writers |-> "none"]
  /\ snapshot' = [w \in Writers |-> {}]
  /\ UNCHANGED <<used, tmp, file>>

-----------------------------------------------------------------------------
SaverStep(w) ==
  Snapshot(w) \/ Truncate(w) \/ WriteTmp(w) \/ Rename(w) \/ ClearFlag(w)

Next ==
  \/ \E w \in Writers :
       \/ \E u \in Updates : Put(w, u)
       \/ TriggerSave(w)
       \/ SaverStep(w)
       \/ WriteFails(w)
  \/ Crash

(* Goroutines run and the sleep ends; nobody is obliged to put anything.   *)
Fairness == \A w \in Writers : WF_vars(TriggerSave(w)) /\ WF_vars(SaverStep(w))

Spec == Init /\ [][Next]_vars
FairSpec == Spec /\ Fairness

-----------------------------------------------------------------------------
(* The file always holds a whole state of this process, never an older one *)
(* than before, and a restart resumes from it ("saves the cache snapshot   *)
(* to disk atomically", signature_cache.go:508), although every save goes  *)
(* through one temporary file and the process may stop half way.           *)
Saved == INSTANCE SnapshotFile
ImplementsSnapshot == Saved!Spec

(* A signature in the cache while triggerSave is about to be called, or    *)
(* its goroutine sleeps, gets into the file as long as no save is past its *)
(* snapshot, unless the process dies or the disk refuses: in particular    *)
(* the flag never stays up without a goroutine that will clear it.         *)
AskedInTimeIsSaved ==
  \A u \in Updates, n \in 0..MaxMishaps :
    ( /\ u \in mem /\ mishaps = n
      /\ \E w \in Writers : w \in calling \/ saver[w] = "sleep"
      /\ \A w \in Writers : saver[w] \in {"none", "sleep"} )
      ~> (u \in file \/ mishaps > n)

(* "SetPersistPath sets the path to automatically save cache contents to   *)
(* disk" (signature_cache.go:113): every signature should get there.       *)
EverySignatureSaved ==
  \A u \in Signed, n \in 0..MaxMishaps :
    (u \in mem /\ mishaps = n) ~> (u \in file \/ mishaps > n)

(* One goroutine at a time, and the flag is up exactly while it runs; its  *)
(* snapshot is behind the cache and ahead of the file, and the temporary   *)
(* file is its own from the write to the rename.  This is the inductive    *)
(* invariant behind the refinement.                                        *)
Active(w) == saver[w] # "none"

OneSaver ==
  /\ saving => \E w \in Writers : Active(w)
  /\ \A w \in Writers : Active(w) => saving
  /\ \A v, w \in Writers : Active(v) /\ Active(w) => v = w

SnapshotBetween(w) ==
  /\ saver[w] \in {"write", "written"} =>
       file \subseteq snapshot[w] /\ snapshot[w] \subseteq mem
  /\ saver[w] = "written" => tmp = snapshot[w]

SaverInv ==
  /\ TypeOK
  /\ file \subseteq mem
  /\ OneSaver
  /\ \A w \in Writers : SnapshotBetween(w)
=============================================================================
