--------------------------- MODULE TrustedStorage ---------------------------
(***************************************************************************)
(* The persistent objects of the TEE (TEE_STORAGE_PRIVATE), as the TA uses *)
(* them.  The objects belong to the TA's UUID, so every session, each an   *)
(* instance of its own, shares them.  Objects are created with write and   *)
(* write-meta access and no sharing flag, which makes the creating handle  *)
(* exclusive; they are opened for reading with TEE_DATA_FLAG_SHARE_READ.   *)
(* Handles are released one by one by TEE_CloseObject or all together when *)
(* the session ends.                                                       *)
(***************************************************************************)
EXTENDS ScriptData, Naturals

CONSTANTS Sessions, Names,
          Nobody,   \* no session
          MaxOpen   \* read handles a session can hold on one object before
                    \* the TEE runs out of memory for another one

ASSUME StorageAssumption == Nobody \notin Sessions /\ MaxOpen \in Nat \ {0}

VARIABLES store,    \* the content of each object
          writer,   \* the session holding the exclusive handle of an object
          readers   \* the number of read handles a session holds on an object

storageVars == <<store, writer, readers>>

StorageTypeOK ==
  /\ store \in [Names -> Content]
  /\ writer \in [Names -> Sessions \cup {Nobody}]
  /\ readers \in [Sessions -> [Names -> 0..MaxOpen]]

StorageInit ==
  /\ store = [n \in Names |-> Absent]
  /\ writer = [n \in Names |-> Nobody]
  /\ readers = [s \in Sessions |-> [n \in Names |-> 0]]

(* TEE_CreatePersistentObject refuses an object that is open anywhere.     *)
CanCreate(n) == writer[n] = Nobody /\ \A s \in Sessions : readers[s][n] = 0

(* TEE_OpenPersistentObject for shared reading refuses a missing object    *)
(* and one whose handle is exclusive.                                      *)
CanOpen(s, n) ==
  store[n] # Absent /\ writer[n] = Nobody /\ readers[s][n] < MaxOpen

(* TEE_DATA_FLAG_OVERWRITE: an object of that name is replaced by an empty *)
(* one.                                                                    *)
CreateObject(s, n) ==
  /\ CanCreate(n)
  /\ store' = [store EXCEPT ![n] = Empty]
  /\ writer' = [writer EXCEPT ![n] = s]
  /\ UNCHANGED readers

WriteObject(n, c) ==
  store' = [store EXCEPT ![n] = c] /\ UNCHANGED <<writer, readers>>

CloseWriter(n) ==
  writer' = [writer EXCEPT ![n] = Nobody] /\ UNCHANGED <<store, readers>>

(* TEE_CloseAndDeletePersistentObject1.                                    *)
DeleteObject(n) ==
  /\ store' = [store EXCEPT ![n] = Absent]
  /\ writer' = [writer EXCEPT ![n] = Nobody]
  /\ UNCHANGED readers

OpenObject(s, n) ==
  /\ CanOpen(s, n)
  /\ readers' = [readers EXCEPT ![s][n] = @ + 1]
  /\ UNCHANGED <<store, writer>>

CloseReader(s, n) ==
  readers' = [readers EXCEPT ![s][n] = @ - 1] /\ UNCHANGED <<store, writer>>

(* The TEE closes every handle of a session that ends; objects stay as     *)
(* they are.                                                               *)
ReleaseHandles(s) ==
  /\ writer' = [n \in Names |-> IF writer[n] = s THEN Nobody ELSE writer[n]]
  /\ readers' = [readers EXCEPT ![s] = [n \in Names |-> 0]]
  /\ UNCHANGED store
=============================================================================
