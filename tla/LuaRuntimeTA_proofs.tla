------------------------- MODULE LuaRuntimeTA_proofs ------------------------
(***************************************************************************)
(* Proofs about LuaRuntimeTA, for any number of sessions, names, scripts   *)
(* and commands, any nesting of scripts, with TEE failures and deaths of   *)
(* instances at any moment: the inductive invariant and what it implies,   *)
(* then the refinement of the abstract script store.                       *)
(***************************************************************************)
EXTENDS LuaRuntimeTA, SequenceTheorems, TLAPS

-----------------------------------------------------------------------------
(* The inductive invariant.                                                *)

HoldsObject(s) == pc[s] \in {"save_write", "save_close", "save_delete"}

(* A session between the creation of an object and its closing has the     *)
(* exclusive handle, and the object is empty until it is written; a save   *)
(* whose write failed is recorded.                                         *)
WriterHolds ==
  \A s \in Sessions :
    /\ HoldsObject(s) => writer[cmd[s].name] = s
    /\ pc[s] \in {"save_write", "save_delete"} => store[cmd[s].name] = Empty
    /\ pc[s] = "save_close" => store[cmd[s].name] = buf[s]
    /\ pc[s] = "save_delete" => cmd[s].name \in torn
    /\ pc[s] \in {"save_write", "save_close"} => cmd[s].name \notin torn
    /\ pc[s] \in SaveSteps => buf[s] \notin {Empty, Absent}

(* An object is empty because a save is under way or because one was cut   *)
(* short.                                                                  *)
EmptyExplained ==
  \A n \in Names : store[n] = Empty => n \in torn \/ writer[n] # Nobody

(* The innermost frame has opened n and has not handed it to call_lua.     *)
Pending(s, n) ==
  /\ pc[s] = "run"
  /\ Top(s).pc \in {"info", "read", "close"}
  /\ Top(s).name = n

(* A session has a handle for the frame that is reading and another one    *)
(* for the run it has already made of the same name; an object that is     *)
(* open exists.                                                            *)
HandlesCounted ==
  \A s \in Sessions, n \in Names :
    /\ Pending(s, n) => readers[s][n] > 0
    /\ ran[s][n] # Absent => readers[s][n] > 0
    /\ Pending(s, n) /\ ran[s][n] # Absent => readers[s][n] > 1
    /\ readers[s][n] > 0 => store[n] # Absent

(* What the frames of a session hold.                                      *)
FrameOK(s, f) ==
  /\ f.pc = "exec" /\ f.stored => f.data = ran[s][f.name] /\ f.data # Absent
  /\ ~f.stored => f.pc = "exec" /\ f.data # Empty
  /\ f.pc # "exec" => f.data = Absent
  /\ f.pc = "read" => f.info = store[f.name]

FramesOK ==
  \A s \in Sessions :
    /\ \A i \in 1..Depth(s) : FrameOK(s, frames[s][i])
    /\ frames[s] # << >> /\ Top(s).pc = "exec" => Depth(s) <= MaxDepth

IndInv ==
  /\ TypeOK
  /\ HandleExclusion
  /\ WriterHolds
  /\ EmptyExplained
  /\ HandlesCounted
  /\ FramesOK
  /\ SameVersionPerSession

-----------------------------------------------------------------------------
(* Contents that the invariant tells apart are different contents.         *)
LEMMA ContentFacts ==
  /\ Absent \in Content /\ Empty \in Content /\ Zeros \in Content
  /\ Garbled \in Content /\ Blank \in Content
  /\ Absent # Empty
  /\ \A p \in Payload, e \in BOOLEAN :
       Received(p, e) \subseteq Content \ {Absent, Empty}
  BY ScriptsAssumption
  DEF Absent, Empty, Blank, Zeros, Garbled, Text, Content, Payload, Received, VerifyAndDecrypt

LEMMA NoCommandType == NoCommand \in Command
  BY RuntimeAssumption DEF NoCommand

(* A frame that is not inside call_lua is the innermost one, and one that  *)
(* is about to read is pending.                                            *)
LEMMA ReadingFrame ==
  ASSUME TypeOK, NEW q \in Sessions, NEW i \in 1..Depth(q),
         frames[q][i].pc = "read"
  PROVE  i = Depth(q) /\ Pending(q, frames[q][i].name)
  <1>1. Depth(q) \in Nat /\ frames[q] # << >> /\ pc[q] = "run"
    BY DEF TypeOK, Depth
  <1>2. i = Depth(q)
    <2>1. ~(i < Depth(q))
      BY DEF TypeOK
    <2>2. QED
      BY <1>1, <2>1
  <1>3. QED
    BY <1>1, <1>2 DEF Pending, Top

LEMMA InitInd == Init => IndInv
  <1>1. SUFFICES ASSUME Init PROVE IndInv
    OBVIOUS
  <1>2. TypeOK
    BY <1>1, ContentFacts, NoCommandType, StorageAssumption, RuntimeAssumption
    DEF Init, StorageInit, TypeOK, StorageTypeOK, Response, Answer, Depth
  <1>3. HandleExclusion
    BY <1>1 DEF Init, StorageInit, HandleExclusion
  <1>4. WriterHolds /\ EmptyExplained
    BY <1>1, ContentFacts DEF Init, StorageInit, WriterHolds, HoldsObject, SaveSteps, EmptyExplained
  <1>5. HandlesCounted /\ SameVersionPerSession
    BY <1>1 DEF Init, StorageInit, HandlesCounted, Pending, SameVersionPerSession
  <1>6. FramesOK
    BY <1>1 DEF Init, FramesOK, Depth
  <1>7. QED
    BY <1>2, <1>3, <1>4, <1>5, <1>6 DEF IndInv

-----------------------------------------------------------------------------
LEMMA OpenSessionInd ==
  ASSUME IndInv, NEW s \in Sessions, OpenSession(s)
  PROVE  IndInv'
  <1>. USE DEF IndInv, OpenSession, storageVars, history
  <1>2. TypeOK'
    BY DEF TypeOK, StorageTypeOK, Depth
  <1>3. HandleExclusion'
    BY DEF HandleExclusion, TypeOK, StorageTypeOK
  <1>4. (WriterHolds /\ EmptyExplained)'
    BY DEF WriterHolds, HoldsObject, SaveSteps, EmptyExplained, TypeOK, StorageTypeOK
  <1>5. (HandlesCounted /\ SameVersionPerSession)'
    BY DEF HandlesCounted, Pending, SameVersionPerSession, TypeOK, Top, Depth
  <1>6. FramesOK'
    BY DEF FramesOK, FrameOK, Depth, Top, TypeOK
  <1>7. QED
    BY <1>2, <1>3, <1>4, <1>5, <1>6

LEMMA CloseSessionInd ==
  ASSUME IndInv, NEW s \in Sessions, CloseSession(s)
  PROVE  IndInv'
  <1>. USE StorageAssumption
       DEF IndInv, CloseSession, ReleaseHandles, TypeOK, StorageTypeOK
  <1>1. frames[s] = << >> /\ ~HoldsObject(s)
    BY DEF HoldsObject
  <1>2. TypeOK'
    BY ContentFacts DEF Response, Answer, Depth
  <1>3. HandleExclusion'
    BY DEF HandleExclusion
  <1>4. WriterHolds'
    BY DEF WriterHolds, HoldsObject, SaveSteps, Command
  <1>a. EmptyExplained'
    BY DEF EmptyExplained, HandleExclusion
  <1>5. (HandlesCounted /\ SameVersionPerSession)'
    BY DEF HandlesCounted, Pending, SameVersionPerSession, Top, Depth
  <1>6. FramesOK'
    BY <1>1 DEF FramesOK, FrameOK, Depth, Top
  <1>7. QED
    BY <1>2, <1>3, <1>4, <1>a, <1>5, <1>6

LEMMA InvokeInd ==
  ASSUME IndInv, NEW s \in Sessions, NEW c \in Command, Invoke(s, c)
  PROVE  IndInv'
  <1>. USE DEF IndInv, Invoke, TypeOK, StorageTypeOK, storageVars, history
  <1>2. TypeOK'
    BY RuntimeAssumption DEF Response, Answer, Depth
  <1>3. HandleExclusion'
    BY DEF HandleExclusion
  <1>4. (WriterHolds /\ EmptyExplained)'
    BY DEF WriterHolds, HoldsObject, SaveSteps, EmptyExplained
  <1>5. (HandlesCounted /\ SameVersionPerSession)'
    BY DEF HandlesCounted, Pending, SameVersionPerSession, Top, Depth
  <1>6. FramesOK'
    BY DEF FramesOK, FrameOK, Depth, Top
  <1>7. QED
    BY <1>2, <1>3, <1>4, <1>5, <1>6

(* The death of an instance, for whatever reason.                          *)
LEMMA DieInd ==
  ASSUME IndInv, NEW s \in Sessions, Die(s)
  PROVE  IndInv'
  <1>. USE StorageAssumption, ContentFacts, NoCommandType
       DEF IndInv, Die, Leave, ReleaseHandles, TypeOK, StorageTypeOK
  <1>1. StorageTypeOK'
    OBVIOUS
  <1>a. torn' \in SUBSET Names
    OBVIOUS
  <1>b. before' \in [Names -> Content] /\ ran' \in [Sessions -> [Names -> Content]]
    OBVIOUS
  <1>c. frames' \in [Sessions -> Seq(Frame)] /\ Len(frames'[s]) = 0
    OBVIOUS
  <1>d. /\ pc' \in [Sessions -> {"closed", "idle", "dead", "entry", "run"}
                           \cup SaveSteps]
        /\ cmd' \in [Sessions -> Command] /\ buf' \in [Sessions -> Content]
        /\ resp' \in [Sessions -> Response]
    BY DEF Response, Answer
  <1>e. \A q \in Sessions :
          /\ pc'[q] = "run" <=> frames'[q] # << >>
          /\ Len(frames'[q]) <= MaxDepth + 1
          /\ \A i \in 1..Len(frames'[q]) :
               i < Len(frames'[q]) => frames'[q][i].pc = "exec"
    BY <1>c, RuntimeAssumption DEF Depth
  <1>2. TypeOK'
    BY <1>1, <1>a, <1>b, <1>c, <1>d, <1>e DEF Depth
  <1>3. HandleExclusion'
    BY DEF HandleExclusion
  <1>4. WriterHolds'
    BY DEF WriterHolds, HoldsObject, SaveSteps, HandleExclusion, Command
  <1>5. EmptyExplained'
    BY DEF EmptyExplained
  <1>6. (HandlesCounted /\ SameVersionPerSession)'
    BY DEF HandlesCounted, Pending, SameVersionPerSession, Top, Depth
  <1>7. FramesOK'
    BY DEF FramesOK, FrameOK, Depth, Top
  <1>8. QED
    BY <1>2, <1>3, <1>4, <1>5, <1>6, <1>7

(* A handler that returns without having touched storage or frames.        *)
LEMMA RespondInd ==
  ASSUME IndInv, NEW s \in Sessions,
         pc[s] \in {"entry", "save_create"},
         NEW r \in {"SUCCESS", "BAD_PARAMETERS", "OUT_OF_MEMORY", "STORAGE_ERROR"},
         NEW o \in {"none", "value"},
         Respond(s, r, o), UNCHANGED <<storageVars, frames, history>>
  PROVE  IndInv'
  <1>. USE ContentFacts, NoCommandType
       DEF IndInv, Respond, Leave, TypeOK, StorageTypeOK, storageVars, history
  <1>2. TypeOK'
    BY DEF Response, Answer, Depth
  <1>3. HandleExclusion'
    BY DEF HandleExclusion
  <1>4. (WriterHolds /\ EmptyExplained)'
    BY DEF WriterHolds, HoldsObject, SaveSteps, EmptyExplained
  <1>5. (HandlesCounted /\ SameVersionPerSession)'
    BY DEF HandlesCounted, Pending, SameVersionPerSession, Top, Depth
  <1>6. FramesOK'
    BY DEF FramesOK, FrameOK, Depth, Top
  <1>7. QED
    BY <1>2, <1>3, <1>4, <1>5, <1>6

-----------------------------------------------------------------------------
(* save_lua_script.                                                        *)

LEMMA SaveEntryInd ==
  ASSUME IndInv, NEW s \in Sessions, SaveEntry(s)
  PROVE  IndInv'
  <1>. USE DEF IndInv, SaveEntry, Enter, TypeOK, StorageTypeOK, storageVars, history
  <1>1. PICK d \in Content \ {Absent, Empty} : buf' = [buf EXCEPT ![s] = d]
    BY ContentFacts DEF Command
  <1>2. TypeOK'
    BY <1>1 DEF SaveSteps, Depth
  <1>3. HandleExclusion'
    BY DEF HandleExclusion
  <1>4. (WriterHolds /\ EmptyExplained)'
    BY <1>1 DEF WriterHolds, HoldsObject, SaveSteps, EmptyExplained
  <1>5. (HandlesCounted /\ SameVersionPerSession)'
    BY DEF HandlesCounted, Pending, SameVersionPerSession, Top, Depth
  <1>6. FramesOK'
    BY DEF FramesOK, FrameOK, Depth, Top
  <1>7. QED
    BY <1>2, <1>3, <1>4, <1>5, <1>6

(* A change of an object that no frame is about to read disturbs no frame. *)
LEMMA FramesKept ==
  ASSUME TypeOK, FramesOK, NEW n \in Names, NEW c,
         frames' = frames, ran' = ran, store' = [store EXCEPT ![n] = c],
         \A q \in Sessions : \A i \in 1..Depth(q) :
           frames[q][i].pc = "read" => frames[q][i].name # n
  PROVE  FramesOK'
  <1>1. ASSUME NEW q \in Sessions, NEW i \in 1..Depth(q)
        PROVE  FrameOK(q, frames[q][i])'
    <2>1. frames[q][i] \in Frame
      <3>1. frames[q] \in Seq(Frame) /\ i \in 1..Len(frames[q])
        BY DEF TypeOK, Depth
      <3>2. QED
        BY <3>1
    <2>2. store \in [Names -> Content] /\ frames[q][i].name \in Names
      BY <2>1 DEF TypeOK, StorageTypeOK, Frame
    <2>3. frames[q][i].pc = "read" =>
            store'[frames[q][i].name] = store[frames[q][i].name]
      BY <2>2
    <2>4. FrameOK(q, frames[q][i])
      BY DEF FramesOK
    <2>5. QED
      BY <2>3, <2>4 DEF FrameOK
  <1>2. ASSUME NEW q \in Sessions
        PROVE  (frames[q] # << >> /\ Top(q).pc = "exec" => Depth(q) <= MaxDepth)'
    BY DEF FramesOK, Top, Depth
  <1>3. \A q \in Sessions : Depth(q)' = Depth(q)
    BY DEF Depth
  <1>4. QED
    BY <1>1, <1>2, <1>3 DEF FramesOK

LEMMA SaveCreateInd ==
  ASSUME IndInv, NEW s \in Sessions, SaveCreate(s)
  PROVE  IndInv'
  <1>. USE StorageAssumption
       DEF IndInv, SaveCreate, CreateObject, CanCreate, TypeOK, StorageTypeOK
  <1>. DEFINE n == cmd[s].name
  <1>1. n \in Names /\ writer[n] = Nobody /\ \A q \in Sessions : readers[q][n] = 0
    BY DEF Command
  <1>2. TypeOK'
    BY <1>1, ContentFacts DEF SaveSteps, Depth
  <1>3. HandleExclusion'
    BY <1>1 DEF HandleExclusion
  <1>4. WriterHolds'
    BY <1>1 DEF WriterHolds, HoldsObject, SaveSteps, Command
  <1>5. EmptyExplained'
    BY <1>1 DEF EmptyExplained
  <1>6. \A q \in Sessions : ran[q][n] = Absent /\ ~Pending(q, n)
    BY <1>1 DEF HandlesCounted
  <1>7. HandlesCounted'
    BY <1>1, <1>6 DEF HandlesCounted, Pending, Top, Depth
  <1>8. SameVersionPerSession'
    BY <1>1, <1>6 DEF SameVersionPerSession
  <1>9. FramesOK'
    <2>1. ASSUME NEW q \in Sessions, NEW i \in 1..Depth(q),
                 frames[q][i].pc = "read"
          PROVE  frames[q][i].name # n
      BY <2>1, <1>6, ReadingFrame
    <2>2. /\ TypeOK /\ FramesOK /\ n \in Names /\ frames' = frames /\ ran' = ran
          /\ store' = [store EXCEPT ![n] = Empty]
      BY <1>1
    <2>. HIDE DEF n, IndInv, TypeOK, StorageTypeOK, SaveCreate, CreateObject, CanCreate
    <2>3. QED
      BY <2>1, <2>2, FramesKept
  <1>10. QED
    BY <1>2, <1>3, <1>4, <1>5, <1>7, <1>8, <1>9

(* The object that is written or deleted has no reader, so no frame and no *)
(* earlier run depends on it.                                              *)
LEMMA WriterAlone ==
  ASSUME IndInv, NEW s \in Sessions, HoldsObject(s)
  PROVE  LET n == cmd[s].name IN
         /\ n \in Names /\ writer[n] = s /\ frames[s] = << >>
         /\ \A q \in Sessions :
              readers[q][n] = 0 /\ ran[q][n] = Absent /\ ~Pending(q, n)
         /\ \A q \in Sessions : \A i \in 1..Depth(q) :
              frames[q][i].pc = "read" => frames[q][i].name # n
         /\ \A q \in Sessions : HoldsObject(q) /\ cmd[q].name = n => q = s
  <1>. USE StorageAssumption DEF IndInv, TypeOK, StorageTypeOK
  <1>. DEFINE n == cmd[s].name
  <1>1. n \in Names /\ writer[n] = s /\ frames[s] = << >>
    BY DEF WriterHolds, HoldsObject, Command
  <1>2. \A q \in Sessions :
          readers[q][n] = 0 /\ ran[q][n] = Absent /\ ~Pending(q, n)
    <2>a. n \in Names /\ writer[n] # Nobody
      BY <1>1
    <2>b. ASSUME NEW m \in Names, writer[m] # Nobody
          PROVE  \A q \in Sessions : readers[q][m] = 0
      BY <2>b DEF HandleExclusion
    <2>1. \A q \in Sessions : readers[q][n] = 0
      BY <2>a, <2>b
    <2>2. QED
      BY <1>1, <2>1 DEF HandlesCounted
  <1>3. ASSUME NEW q \in Sessions, NEW i \in 1..Depth(q),
               frames[q][i].pc = "read"
        PROVE  frames[q][i].name # n
    BY <1>2, <1>3, ReadingFrame
  <1>4. \A q \in Sessions : HoldsObject(q) /\ cmd[q].name = n => q = s
    BY <1>1 DEF WriterHolds
  <1>5. QED
    BY <1>1, <1>2, <1>3, <1>4

LEMMA SaveWriteInd ==
  ASSUME IndInv, NEW s \in Sessions, SaveWrite(s)
  PROVE  IndInv'
  <1>. DEFINE n == cmd[s].name
  <1>. USE DEF IndInv, SaveWrite, WriteObject, TypeOK, StorageTypeOK, history
  <1>a. HoldsObject(s)
    BY DEF HoldsObject
  <1>1. /\ n \in Names /\ writer[n] = s /\ frames[s] = << >>
        /\ \A q \in Sessions :
             readers[q][n] = 0 /\ ran[q][n] = Absent /\ ~Pending(q, n)
        /\ \A q \in Sessions : HoldsObject(q) /\ cmd[q].name = n => q = s
    BY <1>a, WriterAlone
  <1>b. \A q \in Sessions : \A i \in 1..Depth(q) :
          frames[q][i].pc = "read" => frames[q][i].name # n
    BY <1>a, WriterAlone
  <1>c. buf[s] \in Content \ {Empty, Absent}
    BY DEF WriterHolds, SaveSteps
  <1>2. TypeOK'
    BY <1>1, <1>c DEF SaveSteps, Depth
  <1>3. HandleExclusion'
    BY <1>1 DEF HandleExclusion
  <1>4. WriterHolds'
    BY <1>1 DEF WriterHolds, HoldsObject, SaveSteps
  <1>5. EmptyExplained'
    BY <1>1, <1>c DEF EmptyExplained
  <1>7. HandlesCounted'
    BY <1>1, <1>c DEF HandlesCounted, Pending, Top, Depth
  <1>8. SameVersionPerSession'
    BY <1>1 DEF SameVersionPerSession
  <1>9. FramesOK'
    <2>1. /\ TypeOK /\ FramesOK /\ n \in Names /\ frames' = frames /\ ran' = ran
          /\ store' = [store EXCEPT ![n] = buf[s]]
      BY <1>1 DEF history
    <2>. HIDE DEF n, IndInv, TypeOK, StorageTypeOK, SaveWrite, WriteObject, history
    <2>2. QED
      BY <1>b, <2>1, FramesKept
  <1>10. QED
    BY <1>2, <1>3, <1>4, <1>5, <1>7, <1>8, <1>9

LEMMA SaveWriteFailsInd ==
  ASSUME IndInv, NEW s \in Sessions, SaveWriteFails(s)
  PROVE  IndInv'
  <1>. USE DEF IndInv, SaveWriteFails, TypeOK, StorageTypeOK, storageVars
  <1>1. cmd[s].name \in Names
    BY DEF Command
  <1>2. TypeOK'
    BY <1>1 DEF SaveSteps, Depth
  <1>3. HandleExclusion'
    BY DEF HandleExclusion
  <1>4. (WriterHolds /\ EmptyExplained)'
    BY DEF WriterHolds, HoldsObject, SaveSteps, EmptyExplained
  <1>5. (HandlesCounted /\ SameVersionPerSession)'
    BY DEF HandlesCounted, Pending, SameVersionPerSession, Top, Depth
  <1>6. FramesOK'
    BY DEF FramesOK, FrameOK, Depth, Top
  <1>7. QED
    BY <1>2, <1>3, <1>4, <1>5, <1>6

LEMMA SaveCloseInd ==
  ASSUME IndInv, NEW s \in Sessions, SaveClose(s)
  PROVE  IndInv'
  <1>. DEFINE n == cmd[s].name
  <1>. USE ContentFacts, NoCommandType, StorageAssumption
       DEF IndInv, SaveClose, CloseWriter, Respond, Leave, TypeOK, StorageTypeOK
  <1>a. HoldsObject(s)
    BY DEF HoldsObject
  <1>1. /\ n \in Names /\ writer[n] = s /\ frames[s] = << >>
        /\ \A q \in Sessions : HoldsObject(q) /\ cmd[q].name = n => q = s
    BY <1>a, WriterAlone
  <1>b. store[n] # Empty
    BY <1>1 DEF WriterHolds, SaveSteps
  <1>2. TypeOK'
    BY <1>1 DEF Response, Answer, Depth
  <1>3. HandleExclusion'
    BY <1>1 DEF HandleExclusion
  <1>4. WriterHolds'
    BY <1>1 DEF WriterHolds, HoldsObject, SaveSteps, Command
  <1>5. EmptyExplained'
    BY <1>1, <1>b DEF EmptyExplained
  <1>6. (HandlesCounted /\ SameVersionPerSession)'
    BY DEF HandlesCounted, Pending, SameVersionPerSession, Top, Depth
  <1>7. FramesOK'
    BY DEF FramesOK, FrameOK, Depth, Top
  <1>8. QED
    BY <1>2, <1>3, <1>4, <1>5, <1>6, <1>7

(* The object that could not be deleted is empty for a known reason.       *)
LEMMA SaveDeleteFailsInd ==
  ASSUME IndInv, NEW s \in Sessions, SaveDeleteFails(s)
  PROVE  IndInv'
  <1>. DEFINE n == cmd[s].name
  <1>. USE ContentFacts, NoCommandType, StorageAssumption
       DEF IndInv, SaveDeleteFails, CloseWriter, Respond, Leave, TypeOK, StorageTypeOK
  <1>a. HoldsObject(s)
    BY DEF HoldsObject
  <1>1. /\ n \in Names /\ writer[n] = s /\ frames[s] = << >>
        /\ \A q \in Sessions : HoldsObject(q) /\ cmd[q].name = n => q = s
    BY <1>a, WriterAlone
  <1>b. n \in torn
    BY DEF WriterHolds
  <1>2. TypeOK'
    BY <1>1 DEF Response, Answer, Depth
  <1>3. HandleExclusion'
    BY <1>1 DEF HandleExclusion
  <1>4. WriterHolds'
    BY <1>1 DEF WriterHolds, HoldsObject, SaveSteps, Command
  <1>5. EmptyExplained'
    BY <1>1, <1>b DEF EmptyExplained
  <1>6. (HandlesCounted /\ SameVersionPerSession)'
    BY DEF HandlesCounted, Pending, SameVersionPerSession, Top, Depth
  <1>7. FramesOK'
    BY DEF FramesOK, FrameOK, Depth, Top
  <1>8. QED
    BY <1>2, <1>3, <1>4, <1>5, <1>6, <1>7

LEMMA SaveDeleteInd ==
  ASSUME IndInv, NEW s \in Sessions, SaveDelete(s)
  PROVE  IndInv'
  <1>. DEFINE n == cmd[s].name
  <1>. USE ContentFacts, NoCommandType, StorageAssumption
       DEF IndInv, SaveDelete, DeleteObject, Respond, Leave, TypeOK, StorageTypeOK
  <1>a. HoldsObject(s)
    BY DEF HoldsObject
  <1>1. /\ n \in Names /\ writer[n] = s /\ frames[s] = << >>
        /\ \A q \in Sessions :
             readers[q][n] = 0 /\ ran[q][n] = Absent /\ ~Pending(q, n)
        /\ \A q \in Sessions : HoldsObject(q) /\ cmd[q].name = n => q = s
    BY <1>a, WriterAlone
  <1>b. \A q \in Sessions : \A i \in 1..Depth(q) :
          frames[q][i].pc = "read" => frames[q][i].name # n
    BY <1>a, WriterAlone
  <1>2. TypeOK'
    BY <1>1 DEF Response, Answer, Depth
  <1>3. HandleExclusion'
    BY <1>1 DEF HandleExclusion
  <1>4. WriterHolds'
    BY <1>1 DEF WriterHolds, HoldsObject, SaveSteps, Command
  <1>5. EmptyExplained'
    BY <1>1 DEF EmptyExplained
  <1>6. HandlesCounted'
    BY <1>1 DEF HandlesCounted, Pending, Top, Depth
  <1>7. SameVersionPerSession'
    BY <1>1 DEF SameVersionPerSession
  <1>8. FramesOK'
    <2>1. /\ TypeOK /\ FramesOK /\ n \in Names /\ frames' = frames /\ ran' = ran
          /\ store' = [store EXCEPT ![n] = Absent]
      BY <1>1 DEF history
    <2>. HIDE DEF n, IndInv, TypeOK, StorageTypeOK, SaveDelete, DeleteObject, Respond, Leave
    <2>2. QED
      BY <1>b, <2>1, FramesKept
  <1>9. QED
    BY <1>2, <1>3, <1>4, <1>5, <1>6, <1>7, <1>8

-----------------------------------------------------------------------------
(* run_saved_lua_script: steps of the innermost frame.                     *)

LEMMA TopFacts ==
  ASSUME TypeOK, NEW s \in Sessions, pc[s] = "run"
  PROVE  /\ frames[s] \in Seq(Frame) /\ Depth(s) \in Nat \ {0}
         /\ Depth(s) \in 1..Depth(s)
         /\ Top(s) \in Frame /\ Top(s) = frames[s][Depth(s)]
         /\ Depth(s) <= MaxDepth + 1
  <1>1. frames[s] \in Seq(Frame) /\ frames[s] # << >> /\ Depth(s) <= MaxDepth + 1
    BY DEF TypeOK
  <1>2. Depth(s) \in Nat \ {0}
    BY <1>1 DEF Depth
  <1>3. QED
    BY <1>1, <1>2 DEF Top, Depth

LEMMA SetTopFacts ==
  ASSUME TypeOK, NEW s \in Sessions, pc[s] = "run", NEW f \in Frame, SetTop(s, f)
  PROVE  /\ frames' \in [Sessions -> Seq(Frame)]
         /\ Len(frames'[s]) = Depth(s)
         /\ frames'[s][Depth(s)] = f
         /\ \A i \in 1..Depth(s) : i # Depth(s) => frames'[s][i] = frames[s][i]
         /\ \A q \in Sessions : q # s => frames'[q] = frames[q]
  <1>1. frames[s] \in Seq(Frame) /\ Depth(s) \in Nat \ {0}
    BY TopFacts
  <1>2. frames' = [frames EXCEPT ![s] = [frames[s] EXCEPT ![Depth(s)] = f]]
    BY DEF SetTop, Depth, TypeOK
  <1>3. [frames[s] EXCEPT ![Depth(s)] = f] \in Seq(Frame)
    BY <1>1 DEF Depth
  <1>4. QED
    BY <1>1, <1>2, <1>3 DEF TypeOK, Depth

(* What a step of the innermost frame, which becomes f, must do to the     *)
(* handles of its session and to the record of what it ran ...             *)
KeepsHandles(s, f) ==
  LET n == f.name IN
  /\ readers' \in [Sessions -> [Names -> 0..MaxOpen]]
  /\ ran' \in [Sessions -> [Names -> Content]]
  /\ \A q \in Sessions, m \in Names : q # s \/ m # n =>
       readers'[q][m] = readers[q][m] /\ ran'[q][m] = ran[q][m]
  /\ readers'[s][n] > 0 => writer[n] = Nobody /\ store[n] # Absent
  /\ f.pc \in {"info", "read", "close"} => readers'[s][n] > 0
  /\ ran'[s][n] # Absent => readers'[s][n] > 0 /\ store[n] = ran'[s][n]
  /\ f.pc \in {"info", "read", "close"} /\ ran'[s][n] # Absent =>
       readers'[s][n] > 1

(* ... and what the frame must be, for the invariant to be kept.           *)
KeepsFrame(s, f) ==
  /\ f \in Frame /\ f.name = Top(s).name /\ f.stored
  /\ ran[s][f.name] # Absent => ran'[s][f.name] = ran[s][f.name]
  /\ f.pc = "exec" => /\ Depth(s) <= MaxDepth
                      /\ f.data = ran'[s][f.name] /\ f.data # Absent
  /\ f.pc # "exec" => f.data = Absent
  /\ f.pc = "read" => f.info = store[f.name]

Shape(q) ==
  /\ pc[q] = "run" <=> frames[q] # << >>
  /\ Depth(q) <= MaxDepth + 1
  /\ \A i \in 1..Depth(q) : i < Depth(q) => frames[q][i].pc = "exec"

LEMMA SetTopShape ==
  ASSUME TypeOK, NEW s \in Sessions, pc[s] = "run", NEW f \in Frame, SetTop(s, f),
         UNCHANGED pc
  PROVE  /\ frames' \in [Sessions -> Seq(Frame)]
         /\ \A q \in Sessions : Shape(q)'
  <1>1. /\ frames' \in [Sessions -> Seq(Frame)]
        /\ Len(frames'[s]) = Depth(s)
        /\ \A i \in 1..Depth(s) : i # Depth(s) => frames'[s][i] = frames[s][i]
        /\ \A q \in Sessions : q # s => frames'[q] = frames[q]
    BY SetTopFacts
  <1>2. Depth(s) \in Nat \ {0} /\ Depth(s) <= MaxDepth + 1
    BY TopFacts
  <1>3. \A i \in 1..Depth(s) : i < Depth(s) => frames[s][i].pc = "exec"
    BY DEF TypeOK
  <1>4. Shape(s)'
    BY <1>1, <1>2, <1>3 DEF Shape, Depth
  <1>5. ASSUME NEW q \in Sessions, q # s PROVE Shape(q)'
    BY <1>1, <1>5 DEF Shape, Depth, TypeOK
  <1>6. QED
    BY <1>1, <1>4, <1>5

(* A step of the innermost frame that leaves the objects alone keeps the   *)
(* invariant if it keeps the part of it that is about this frame, its      *)
(* object and its session.                                                 *)
LEMMA TopStep ==
  ASSUME IndInv, NEW s \in Sessions, NEW f,
         pc[s] = "run", SetTop(s, f), KeepsHandles(s, f), KeepsFrame(s, f),
         UNCHANGED <<store, writer, pc, cmd, buf, resp, before, torn>>
  PROVE  IndInv'
  <1>0. TypeOK /\ f \in Frame
    BY DEF IndInv, KeepsFrame
  <1>1. /\ frames' \in [Sessions -> Seq(Frame)]
        /\ Len(frames'[s]) = Depth(s)
        /\ frames'[s][Depth(s)] = f
        /\ \A i \in 1..Depth(s) : i # Depth(s) => frames'[s][i] = frames[s][i]
        /\ \A q \in Sessions : q # s => frames'[q] = frames[q]
    BY <1>0, SetTopFacts
  <1>2. Depth(s) \in Nat \ {0} /\ f.name \in Names
    BY <1>0, TopFacts DEF Frame
  <1>3. TypeOK'
    <2>1. \A q \in Sessions : Shape(q)'
      BY <1>0, SetTopShape
    <2>2. QED
      BY <1>0, <1>1, <2>1 DEF TypeOK, StorageTypeOK, Shape, KeepsHandles
  <1>4. HandleExclusion'
    <2>1. ASSUME NEW m \in Names, writer[m] # Nobody
          PROVE  \A q \in Sessions : readers'[q][m] = 0
      <3>1. \A q \in Sessions : readers[q][m] = 0
        BY <2>1 DEF IndInv, HandleExclusion
      <3>2. m = f.name => readers'[s][m] \in Nat /\ ~(readers'[s][m] > 0)
        BY <2>1, <1>2 DEF KeepsHandles
      <3>3. QED
        BY <3>1, <3>2 DEF KeepsHandles
    <2>2. QED
      BY <2>1 DEF IndInv, HandleExclusion
  <1>5. (WriterHolds /\ EmptyExplained)'
    BY DEF IndInv, WriterHolds, HoldsObject, EmptyExplained
  <1>6. HandlesCounted'
    <2>1. ASSUME NEW q \in Sessions, NEW m \in Names, q # s
          PROVE  Pending(q, m)' <=> Pending(q, m)
      BY <1>1, <2>1 DEF Pending, Top, Depth
    <2>2. ASSUME NEW m \in Names
          PROVE  Pending(s, m)' =>
                   m = f.name /\ f.pc \in {"info", "read", "close"}
      BY <1>1 DEF Pending, Top, Depth
    <2>3. QED
      BY <1>2, <2>1, <2>2 DEF IndInv, HandlesCounted, KeepsHandles
  <1>7. SameVersionPerSession'
    BY <1>2 DEF IndInv, SameVersionPerSession, KeepsHandles
  <1>8. FramesOK'
    <2>1. FrameOK(s, f)'
      BY <1>2 DEF FrameOK, KeepsFrame
    <2>2. ASSUME NEW q \in Sessions, NEW i \in 1..Depth(q), NEW g,
                 ~(q = s /\ i = Depth(s)), g = frames[q][i]
          PROVE  frames'[q][i] = g /\ FrameOK(q, g)'
      <3>1. frames'[q][i] = g
        BY <1>1, <2>2
      <3>2. FrameOK(q, g)
        BY <2>2 DEF IndInv, FramesOK
      <3>a. g \in Frame
        BY <1>0, <2>2 DEF TypeOK, Depth
      <3>3. ran[q][g.name] # Absent => ran'[q][g.name] = ran[q][g.name]
        BY <1>2, <3>a DEF KeepsHandles, KeepsFrame, Frame
      <3>4. QED
        BY <3>1, <3>2, <3>3 DEF FrameOK
    <2>3. ASSUME NEW q \in Sessions, NEW i \in 1..Len(frames'[q])
          PROVE  FrameOK(q, frames[q][i])'
      <3>1. CASE q = s /\ i = Depth(s)
        BY <1>1, <2>1, <3>1 DEF FrameOK
      <3>2. CASE ~(q = s /\ i = Depth(s))
        <4>1. i \in 1..Depth(q)
          BY <1>1, <3>2 DEF Depth
        <4>2. PICK g : g = frames[q][i]
          OBVIOUS
        <4>3. frames'[q][i] = g /\ FrameOK(q, g)'
          BY <2>2, <3>2, <4>1, <4>2
        <4>4. QED
          BY <4>3 DEF FrameOK
      <3>3. QED
        BY <3>1, <3>2
    <2>4. ASSUME NEW q \in Sessions, frames'[q] # << >>, Top(q)'.pc = "exec"
          PROVE  Len(frames'[q]) <= MaxDepth
      <3>1. CASE q = s
        BY <1>1, <2>4, <3>1 DEF KeepsFrame, Top, Depth
      <3>2. CASE q # s
        BY <1>1, <2>4, <3>2 DEF IndInv, FramesOK, Top, Depth
      <3>3. QED
        BY <3>1, <3>2
    <2>5. QED
      BY <2>3, <2>4 DEF FramesOK, Depth, Top
  <1>9. QED
    BY <1>3, <1>4, <1>5, <1>6, <1>7, <1>8 DEF IndInv

(* What is known of the innermost frame before such a step.                *)
LEMMA TopKnown ==
  ASSUME IndInv, NEW s \in Sessions, pc[s] = "run", Top(s).pc # "exec"
  PROVE  LET n == Top(s).name IN
         /\ Top(s) \in Frame /\ n \in Names
         /\ Top(s).stored /\ Top(s).data = Absent
         /\ Top(s).pc = "read" => Top(s).info = store[n]
         /\ readers \in [Sessions -> [Names -> 0..MaxOpen]]
         /\ ran \in [Sessions -> [Names -> Content]]
         /\ store \in [Names -> Content]
         /\ readers[s][n] \in Nat
         /\ readers[s][n] > 0 => writer[n] = Nobody /\ store[n] # Absent
         /\ ran[s][n] # Absent => readers[s][n] > 0 /\ store[n] = ran[s][n]
         /\ Top(s).pc \in {"info", "read", "close"} => readers[s][n] > 0
         /\ Top(s).pc \in {"info", "read", "close"} /\ ran[s][n] # Absent =>
              readers[s][n] > 1
  <1>. DEFINE n == Top(s).name
  <1>1. /\ Top(s) \in Frame /\ n \in Names /\ Depth(s) \in 1..Depth(s)
        /\ Top(s) = frames[s][Depth(s)]
    BY TopFacts DEF IndInv, Frame
  <1>2. FrameOK(s, Top(s))
    BY <1>1 DEF IndInv, FramesOK
  <1>3. /\ readers \in [Sessions -> [Names -> 0..MaxOpen]]
        /\ ran \in [Sessions -> [Names -> Content]]
        /\ store \in [Names -> Content]
        /\ readers[s][n] \in Nat
    BY <1>1 DEF IndInv, TypeOK, StorageTypeOK
  <1>4. readers[s][n] > 0 => writer[n] = Nobody
    BY <1>1, <1>3 DEF IndInv, HandleExclusion
  <1>5. Pending(s, n) <=> Top(s).pc \in {"info", "read", "close"}
    BY DEF Pending
  <1>6. /\ Pending(s, n) => readers[s][n] > 0
        /\ ran[s][n] # Absent => readers[s][n] > 0
        /\ Pending(s, n) /\ ran[s][n] # Absent => readers[s][n] > 1
        /\ readers[s][n] > 0 => store[n] # Absent
    BY <1>1 DEF IndInv, HandlesCounted
  <1>7. ran[s][n] # Absent => store[n] = ran[s][n]
    BY <1>1 DEF IndInv, SameVersionPerSession
  <1>8. QED
    BY <1>1, <1>2, <1>3, <1>4, <1>5, <1>6, <1>7 DEF FrameOK

(* A step of the innermost frame in which no handle and no run is added.   *)
LEMMA QuietTopStep ==
  ASSUME IndInv, NEW s \in Sessions, NEW f \in Frame,
         pc[s] = "run", Top(s).pc # "exec", SetTop(s, f),
         f.name = Top(s).name, f.stored, f.data = Absent, f.pc # "exec",
         f.pc \in {"info", "read", "close"} =>
           Top(s).pc \in {"info", "read", "close"},
         f.pc = "read" => f.info = store[f.name],
         UNCHANGED <<storageVars, pc, cmd, buf, resp, history>>
  PROVE  IndInv'
  <1>1. KeepsHandles(s, f)
    BY TopKnown DEF KeepsHandles, storageVars, history
  <1>2. KeepsFrame(s, f)
    BY DEF KeepsFrame, history
  <1>3. QED
    BY <1>1, <1>2, TopStep DEF storageVars, history

LEMMA OpenScriptInd ==
  ASSUME IndInv, NEW s \in Sessions, OpenScript(s)
  PROVE  IndInv'
  <1>. DEFINE f == [Top(s) EXCEPT !.pc = "info"]
              n == Top(s).name
  <1>1. /\ pc[s] = "run" /\ Top(s).pc = "open" /\ SetTop(s, f)
        /\ OpenObject(s, n)
        /\ UNCHANGED <<pc, cmd, buf, resp, history>>
    BY DEF OpenScript, At
  <1>2. f \in Frame /\ f.name = n /\ f.pc = "info" /\ f.stored /\ f.data = Absent
    BY <1>1, TopKnown DEF Frame
  <1>3. /\ store[n] # Absent /\ writer[n] = Nobody /\ readers[s][n] < MaxOpen
        /\ readers' = [readers EXCEPT ![s][n] = @ + 1]
        /\ UNCHANGED <<store, writer>>
    BY <1>1 DEF OpenObject, CanOpen
  <1>4. /\ readers' \in [Sessions -> [Names -> 0..MaxOpen]]
        /\ readers'[s][n] = readers[s][n] + 1 /\ readers[s][n] \in Nat
        /\ \A q \in Sessions, m \in Names :
             q # s \/ m # n => readers'[q][m] = readers[q][m]
    BY <1>1, <1>3, TopKnown, StorageAssumption
  <1>5. KeepsHandles(s, f)
    <2>1. ran' = ran /\ ran \in [Sessions -> [Names -> Content]]
      BY <1>1, TopKnown DEF history
    <2>2. ran[s][n] # Absent => readers[s][n] > 0 /\ store[n] = ran[s][n]
      BY <1>1, TopKnown
    <2>3. QED
      BY <1>2, <1>3, <1>4, <2>1, <2>2 DEF KeepsHandles
  <1>6. KeepsFrame(s, f)
    BY <1>1, <1>2 DEF KeepsFrame, history
  <1>7. QED
    BY <1>1, <1>3, <1>5, <1>6, TopStep DEF history

LEMMA CloseScriptInd ==
  ASSUME IndInv, NEW s \in Sessions, CloseScript(s)
  PROVE  IndInv'
  <1>. DEFINE f == [Top(s) EXCEPT !.pc = "failed"]
              n == Top(s).name
  <1>1. /\ pc[s] = "run" /\ Top(s).pc = "close" /\ SetTop(s, f)
        /\ readers' = [readers EXCEPT ![s][n] = @ - 1]
        /\ UNCHANGED <<store, writer, pc, cmd, buf, resp, history>>
    BY DEF CloseScript, At, CloseReader
  <1>2. f \in Frame /\ f.name = n /\ f.pc = "failed" /\ f.stored /\ f.data = Absent
    BY <1>1, TopKnown DEF Frame
  <1>3. /\ readers[s][n] \in Nat /\ readers[s][n] > 0
        /\ ran[s][n] # Absent => readers[s][n] > 1 /\ store[n] = ran[s][n]
        /\ writer[n] = Nobody /\ store[n] # Absent
    BY <1>1, TopKnown
  <1>4. /\ readers' \in [Sessions -> [Names -> 0..MaxOpen]]
        /\ readers'[s][n] = readers[s][n] - 1
        /\ \A q \in Sessions, m \in Names :
             q # s \/ m # n => readers'[q][m] = readers[q][m]
    BY <1>1, <1>3, TopKnown, StorageAssumption
  <1>5. KeepsHandles(s, f)
    <2>1. ran' = ran /\ ran \in [Sessions -> [Names -> Content]]
      BY <1>1, TopKnown DEF history
    <2>2. QED
      BY <1>2, <1>3, <1>4, <2>1 DEF KeepsHandles
  <1>6. KeepsFrame(s, f)
    BY <1>1, <1>2 DEF KeepsFrame, history
  <1>7. QED
    BY <1>1, <1>5, <1>6, TopStep DEF history

LEMMA ReadScriptInd ==
  ASSUME IndInv, NEW s \in Sessions, ReadScript(s)
  PROVE  IndInv'
  <1>. DEFINE n == Top(s).name
              f == CallLua(Top(s), store[n])
  <1>1. /\ pc[s] = "run" /\ Top(s).pc = "read" /\ SetTop(s, f)
        /\ Depth(s) <= MaxDepth
        /\ ran' = [ran EXCEPT ![s][n] = store[n]]
        /\ UNCHANGED <<storageVars, pc, cmd, buf, resp, before, torn>>
    BY DEF ReadScript, At
  <1>2. /\ f \in Frame /\ f.name = n /\ f.pc = "exec" /\ f.stored
        /\ f.data = store[n]
    <2>1. Top(s) \in Frame /\ store[n] \in Content /\ Top(s).stored
      BY <1>1, TopKnown
    <2>2. Absent \in Content /\ MaxCalls \in 0..MaxCalls
      BY ContentFacts, RuntimeAssumption
    <2>3. QED
      BY <2>1, <2>2 DEF Frame, CallLua
  <1>3. /\ readers[s][n] \in Nat /\ readers[s][n] > 0
        /\ ran[s][n] # Absent => store[n] = ran[s][n]
        /\ writer[n] = Nobody /\ store[n] # Absent /\ store[n] \in Content
    BY <1>1, TopKnown
  <1>4. /\ ran' \in [Sessions -> [Names -> Content]]
        /\ ran'[s][n] = store[n]
        /\ \A q \in Sessions, m \in Names :
             q # s \/ m # n => ran'[q][m] = ran[q][m]
    BY <1>1, <1>3, TopKnown
  <1>5. KeepsHandles(s, f)
    <2>1. readers' = readers /\ readers \in [Sessions -> [Names -> 0..MaxOpen]]
      BY <1>1, TopKnown DEF storageVars
    <2>2. QED
      BY <1>2, <1>3, <1>4, <2>1 DEF KeepsHandles
  <1>6. KeepsFrame(s, f)
    BY <1>1, <1>2, <1>3, <1>4 DEF KeepsFrame
  <1>7. QED
    BY <1>1, <1>5, <1>6, TopStep DEF storageVars

LEMMA QuietFrameInd ==
  ASSUME IndInv, NEW s \in Sessions,
         OpenFails(s) \/ GetObjectInfo(s) \/ ReadFails(s)
  PROVE  IndInv'
  <1>1. /\ pc[s] = "run" /\ Top(s).pc \in {"open", "info", "read"}
        /\ UNCHANGED <<storageVars, pc, cmd, buf, resp, history>>
    BY DEF OpenFails, GetObjectInfo, ReadFails, At
  <1>2. /\ Top(s) \in Frame /\ Top(s).name \in Names
        /\ Top(s).stored /\ Top(s).data = Absent
        /\ store[Top(s).name] \in Content
    BY <1>1, TopKnown
  <1>3. CASE OpenFails(s)
    <2>. DEFINE f == [Top(s) EXCEPT !.pc = "failed"]
    <2>1. f \in Frame /\ f.name = Top(s).name /\ f.stored /\ f.data = Absent
            /\ f.pc = "failed" /\ SetTop(s, f)
      BY <1>2, <1>3 DEF OpenFails, Frame
    <2>2. QED
      BY <1>1, <2>1, QuietTopStep
  <1>4. CASE SetTop(s, [Top(s) EXCEPT !.pc = "close"]) /\ Top(s).pc # "open"
    <2>. DEFINE f == [Top(s) EXCEPT !.pc = "close"]
    <2>1. f \in Frame /\ f.name = Top(s).name /\ f.stored /\ f.data = Absent
            /\ f.pc = "close" /\ SetTop(s, f)
      BY <1>2, <1>4 DEF Frame
    <2>2. QED
      BY <1>1, <1>4, <2>1, QuietTopStep
  <1>5. CASE /\ Top(s).pc = "info"
             /\ SetTop(s, [Top(s) EXCEPT !.pc = "read", !.info = store[Top(s).name]])
    <2>. DEFINE f == [Top(s) EXCEPT !.pc = "read", !.info = store[Top(s).name]]
    <2>1. f \in Frame /\ f.name = Top(s).name /\ f.stored /\ f.data = Absent
            /\ f.pc = "read" /\ f.info = store[Top(s).name] /\ SetTop(s, f)
      BY <1>2, <1>5 DEF Frame
    <2>2. QED
      BY <1>1, <1>5, <2>1, QuietTopStep
  <1>6. QED
    BY <1>3, <1>4, <1>5 DEF GetObjectInfo, ReadFails, At

-----------------------------------------------------------------------------
(* Steps that add or remove a frame.                                       *)

(* The stack fs that such a step leaves: all but the innermost frame are   *)
(* inside call_lua, and that one is not pending.                           *)
StackOK(s, fs) ==
  /\ fs \in Seq(Frame)
  /\ Len(fs) <= MaxDepth + 1
  /\ \A i \in 1..Len(fs) : FrameOK(s, fs[i])
  /\ \A i \in 1..Len(fs) : i < Len(fs) => fs[i].pc = "exec"
  /\ fs # << >> => \/ fs[Len(fs)].pc = "open"
                   \/ fs[Len(fs)].pc = "exec" /\ Len(fs) <= MaxDepth

(* What it does to the control state of the sessions.                      *)
ControlOK(s, fs) ==
  /\ pc[s] \in {"entry", "run"}
  /\ pc' = [pc EXCEPT ![s] = IF fs = << >> THEN "idle" ELSE "run"]
  /\ cmd' \in [Sessions -> Command]
  /\ buf' \in [Sessions -> Content]
  /\ resp' \in [Sessions -> Response]
  /\ \A q \in Sessions : q # s => cmd'[q] = cmd[q] /\ buf'[q] = buf[q]

LEMMA FramesStep ==
  ASSUME IndInv, NEW s \in Sessions, NEW fs,
         frames' = [frames EXCEPT ![s] = fs],
         StackOK(s, fs), ControlOK(s, fs),
         UNCHANGED <<storageVars, history>>
  PROVE  IndInv'
  <1>0. TypeOK /\ UNCHANGED <<store, writer, readers, before, torn, ran>>
    BY DEF IndInv, storageVars, history
  <1>1. /\ frames' \in [Sessions -> Seq(Frame)] /\ frames'[s] = fs
        /\ \A q \in Sessions : q # s => frames'[q] = frames[q]
    BY <1>0 DEF TypeOK, StackOK
  <1>2. /\ pc' \in [Sessions -> {"closed", "idle", "dead", "entry", "run"}
                                  \cup SaveSteps]
        /\ pc'[s] = IF fs = << >> THEN "idle" ELSE "run"
        /\ \A q \in Sessions : q # s => pc'[q] = pc[q]
    BY <1>0 DEF TypeOK, ControlOK
  <1>3. TypeOK'
    <2>1. Shape(s)'
      BY <1>1, <1>2 DEF Shape, StackOK, Depth
    <2>2. ASSUME NEW q \in Sessions, q # s PROVE Shape(q)'
      BY <1>0, <1>1, <1>2, <2>2 DEF Shape, Depth, TypeOK
    <2>3. \A q \in Sessions : Shape(q)'
      BY <2>1, <2>2
    <2>4. QED
      BY <1>0, <1>1, <1>2, <2>3 DEF TypeOK, StorageTypeOK, ControlOK, Shape
  <1>4. HandleExclusion'
    <2>1. ASSUME NEW m \in Names, writer[m] # Nobody
          PROVE  /\ \A q \in Sessions : readers[q][m] = 0
                 /\ HoldsObject(writer[m]) /\ cmd[writer[m]].name = m
                 /\ writer[m] \in Sessions
      BY <1>0, <2>1 DEF IndInv, HandleExclusion, HoldsObject, TypeOK, StorageTypeOK
    <2>2. ASSUME NEW m \in Names, writer[m] # Nobody PROVE writer[m] # s
      BY <2>1, <2>2 DEF ControlOK, HoldsObject
    <2>3. \A q \in Sessions : q # s => pc'[q] = pc[q] /\ cmd'[q] = cmd[q]
      BY <1>2 DEF ControlOK
    <2>4. QED
      BY <1>0, <2>1, <2>2, <2>3 DEF HandleExclusion, HoldsObject
  <1>5. (WriterHolds /\ EmptyExplained)'
    <2>1. pc'[s] \in {"idle", "run"}
      BY <1>2
    <2>2. \A q \in Sessions : q # s =>
            pc'[q] = pc[q] /\ cmd'[q] = cmd[q] /\ buf'[q] = buf[q]
      BY <1>2 DEF ControlOK
    <2>3. WriterHolds'
      BY <1>0, <2>1, <2>2 DEF IndInv, WriterHolds, HoldsObject, SaveSteps
    <2>4. EmptyExplained'
      BY <1>0 DEF IndInv, EmptyExplained
    <2>5. QED
      BY <2>3, <2>4
  <1>6. HandlesCounted'
    <2>1. ASSUME NEW q \in Sessions, NEW m \in Names, q # s
          PROVE  Pending(q, m)' <=> Pending(q, m)
      BY <1>1, <1>2, <2>1 DEF Pending, Top, Depth
    <2>2. ASSUME NEW m \in Names
          PROVE  ~Pending(s, m)'
      BY <1>1, <1>2 DEF Pending, Top, Depth, StackOK
    <2>3. QED
      BY <1>0, <2>1, <2>2 DEF IndInv, HandlesCounted
  <1>7. SameVersionPerSession'
    BY <1>0 DEF IndInv, SameVersionPerSession
  <1>8. FramesOK'
    <2>1. ASSUME NEW q \in Sessions, NEW i \in 1..Len(frames'[q])
          PROVE  FrameOK(q, frames[q][i])'
      <3>1. CASE q = s
        BY <1>0, <1>1, <3>1 DEF StackOK, FrameOK
      <3>2. CASE q # s
        BY <1>0, <1>1, <3>2 DEF IndInv, FramesOK, FrameOK, Depth
      <3>3. QED
        BY <3>1, <3>2
    <2>2. ASSUME NEW q \in Sessions, frames'[q] # << >>, Top(q)'.pc = "exec"
          PROVE  Len(frames'[q]) <= MaxDepth
      <3>1. CASE q = s
        BY <1>1, <2>2, <3>1 DEF StackOK, Top, Depth
      <3>2. CASE q # s
        BY <1>1, <2>2, <3>2 DEF IndInv, FramesOK, Top, Depth
      <3>3. QED
        BY <3>1, <3>2
    <2>3. QED
      BY <2>1, <2>2 DEF FramesOK, Depth, Top
  <1>9. QED
    BY <1>3, <1>4, <1>5, <1>6, <1>7, <1>8 DEF IndInv

(* A frame that is about to open its object depends on nothing.            *)
LEMMA OpenFrameFacts ==
  ASSUME NEW s \in Sessions, NEW n \in Names
  PROVE  /\ OpenFrame(n) \in Frame /\ OpenFrame(n).pc = "open"
         /\ FrameOK(s, OpenFrame(n))
  <1>1. Absent \in Content /\ 0 \in 0..MaxCalls
    BY ContentFacts, RuntimeAssumption
  <1>2. OpenFrame(n) \in Frame
    BY <1>1 DEF OpenFrame, Frame
  <1>3. FrameOK(s, OpenFrame(n)) /\ OpenFrame(n).pc = "open"
    BY DEF OpenFrame, FrameOK
  <1>4. QED
    BY <1>2, <1>3

LEMMA RunEntryInd ==
  ASSUME IndInv, NEW s \in Sessions, RunEntry(s) \/ RunSavedEntry(s)
  PROVE  IndInv'
  <1>0. TypeOK /\ pc[s] = "entry" /\ cmd[s] \in Command /\ cmd[s].name \in Names
    BY DEF IndInv, TypeOK, RunEntry, RunSavedEntry, Enter, Command
  <1>1. PICK f \in Frame :
          /\ frames' = [frames EXCEPT ![s] = <<f>>]
          /\ FrameOK(s, f) /\ f.pc \in {"open", "exec"}
    <2>1. CASE RunEntry(s)
      <3>1. PICK d \in Content \ {Absent, Empty} :
              frames' = [frames EXCEPT ![s] = <<SentFrame(cmd[s].name, d)>>]
        BY <1>0, <2>1, ContentFacts DEF RunEntry, Command
      <3>. DEFINE f == SentFrame(cmd[s].name, d)
      <3>2. f = [pc |-> "exec", stored |-> FALSE, name |-> cmd[s].name,
                 info |-> Absent, data |-> d, left |-> MaxCalls]
        BY DEF SentFrame
      <3>a. Absent \in Content /\ MaxCalls \in 0..MaxCalls
        BY ContentFacts, RuntimeAssumption
      <3>3. f \in Frame
        BY <1>0, <3>2, <3>a DEF Frame
      <3>4. FrameOK(s, f)
        BY <3>2 DEF FrameOK
      <3>5. QED
        <4>1. f.pc = "exec" /\ frames' = [frames EXCEPT ![s] = <<f>>]
          BY <3>1, <3>2
        <4>. HIDE DEF f
        <4>2. QED
          BY <3>3, <3>4, <4>1
    <2>2. CASE RunSavedEntry(s)
      <3>. DEFINE f == OpenFrame(cmd[s].name)
      <3>1. f \in Frame /\ FrameOK(s, f) /\ f.pc = "open"
        BY <1>0, OpenFrameFacts
      <3>2. QED
        BY <2>2, <3>1 DEF RunSavedEntry
    <2>3. QED
      BY <2>1, <2>2
  <1>2. StackOK(s, <<f>>)
    BY <1>1, RuntimeAssumption DEF StackOK
  <1>3. ControlOK(s, <<f>>) /\ UNCHANGED <<storageVars, history>>
    BY <1>0 DEF ControlOK, RunEntry, RunSavedEntry, TypeOK
  <1>4. QED
    BY <1>1, <1>2, <1>3, FramesStep

(* A frame returns to its caller, or the command is answered.              *)
LEMMA PopInd ==
  ASSUME IndInv, NEW s \in Sessions, ReturnJunk(s) \/ Finish(s)
  PROVE  IndInv'
  <1>. DEFINE fs == SubSeq(frames[s], 1, Depth(s) - 1)
  <1>0. TypeOK /\ pc[s] = "run"
    BY DEF IndInv, ReturnJunk, Finish, At
  <1>1. /\ frames[s] \in Seq(Frame) /\ Depth(s) \in Nat \ {0}
        /\ Depth(s) <= MaxDepth + 1
    BY <1>0, TopFacts
  <1>2. /\ frames' = [frames EXCEPT ![s] = fs]
        /\ UNCHANGED <<storageVars, history>>
    BY DEF ReturnJunk, Finish, PopFrame, Depth
  <1>3. /\ fs \in Seq(Frame) /\ Len(fs) = Depth(s) - 1
        /\ \A i \in 1..Len(fs) : fs[i] = frames[s][i]
    BY <1>1 DEF Depth
  <1>4. \A i \in 1..Len(fs) : fs[i].pc = "exec" /\ FrameOK(s, fs[i])
    <2>1. \A i \in 1..Depth(s) : /\ i < Depth(s) => frames[s][i].pc = "exec"
                                  /\ FrameOK(s, frames[s][i])
      BY <1>0 DEF IndInv, TypeOK, FramesOK
    <2>. HIDE DEF fs
    <2>2. ASSUME NEW i \in 1..Len(fs)
          PROVE  i \in 1..Depth(s) /\ i < Depth(s) /\ fs[i] = frames[s][i]
      BY <1>1, <1>3
    <2>3. QED
      BY <2>1, <2>2
  <1>5. StackOK(s, fs)
    BY <1>1, <1>3, <1>4, RuntimeAssumption DEF StackOK
  <1>6. ControlOK(s, fs)
    <2>. HIDE DEF fs
    <2>1. fs = << >> <=> Len(fs) = 0
      BY <1>3, EmptySeq, Zenon
    <2>a. /\ pc \in [Sessions -> {"closed", "idle", "dead", "entry", "run"}
                                   \cup SaveSteps]
          /\ cmd \in [Sessions -> Command] /\ buf \in [Sessions -> Content]
          /\ resp \in [Sessions -> Response]
      BY <1>0 DEF TypeOK
    <2>2. CASE Depth(s) = 1
      <3>1. PICK o \in {"value", "error", "junk"} : Respond(s, "SUCCESS", o)
        BY <2>2 DEF ReturnJunk, Finish
      <3>2. Answer("SUCCESS", o) \in Response
        BY DEF Answer, Response
      <3>3. fs = << >>
        BY <1>3, <2>1, <2>2
      <3>4. pc' = [pc EXCEPT ![s] = "idle"]
        BY <3>1 DEF Respond, Leave
      <3>5. /\ cmd' \in [Sessions -> Command] /\ buf' \in [Sessions -> Content]
            /\ resp' \in [Sessions -> Response]
            /\ \A q \in Sessions : q # s => cmd'[q] = cmd[q] /\ buf'[q] = buf[q]
        BY <2>a, <3>1, <3>2, ContentFacts, NoCommandType DEF Respond, Leave
      <3>6. QED
        BY <1>0, <3>3, <3>4, <3>5 DEF ControlOK
    <2>3. CASE Depth(s) # 1
      <3>1. UNCHANGED <<pc, cmd, buf, resp>>
        BY <2>3 DEF ReturnJunk, Finish
      <3>2. fs # << >>
        BY <1>1, <1>3, <2>1, <2>3
      <3>3. pc' = [pc EXCEPT ![s] = "run"]
        BY <1>0, <2>a, <3>1
      <3>4. QED
        BY <1>0, <2>a, <3>1, <3>2, <3>3 DEF ControlOK
    <2>4. QED
      BY <2>2, <2>3
  <1>7. QED
    BY <1>2, <1>5, <1>6, FramesStep

(* A running script calls another one.                                     *)
LEMMA InternalCallInd ==
  ASSUME IndInv, NEW s \in Sessions, NEW n \in Names, InternalCall(s, n)
  PROVE  IndInv'
  <1>. DEFINE k == Depth(s)
              g == [Top(s) EXCEPT !.left = @ - 1]
              under == [frames[s] EXCEPT ![k] = g]
              fs == Append(under, OpenFrame(n))
  <1>0. TypeOK /\ pc[s] = "run" /\ Top(s).pc = "exec" /\ Top(s).left > 0
    BY DEF IndInv, InternalCall, At
  <1>1. /\ frames[s] \in Seq(Frame) /\ k \in Nat \ {0} /\ k \in 1..k
        /\ Top(s) \in Frame /\ Top(s) = frames[s][k]
    BY <1>0, TopFacts
  <1>2. k <= MaxDepth /\ frames[s] # << >>
    BY <1>0, <1>1 DEF IndInv, FramesOK, TypeOK
  <1>3. /\ g \in Frame /\ g.pc = "exec" /\ g.stored = Top(s).stored
        /\ g.name = Top(s).name /\ g.data = Top(s).data
    <2>1. /\ Top(s).left \in 0..MaxCalls /\ MaxCalls \in Nat
      BY <1>1, RuntimeAssumption DEF Frame
    <2>2. Top(s).left - 1 \in 0..MaxCalls
      BY <1>0, <2>1
    <2>3. QED
      BY <1>0, <1>1, <2>2 DEF Frame
  <1>4. /\ under \in Seq(Frame) /\ Len(under) = k /\ under[k] = g
        /\ \A i \in 1..k : i # k => under[i] = frames[s][i]
    BY <1>1, <1>3 DEF Depth
  <1>5. /\ fs \in Seq(Frame) /\ Len(fs) = k + 1 /\ fs[k + 1] = OpenFrame(n)
        /\ \A i \in 1..k : fs[i] = under[i]
    BY <1>1, <1>4, OpenFrameFacts
  <1>6. \A i \in 1..k : fs[i].pc = "exec" /\ FrameOK(s, fs[i])
    <2>1. \A i \in 1..k : /\ i < k => frames[s][i].pc = "exec"
                          /\ FrameOK(s, frames[s][i])
      BY <1>0 DEF IndInv, TypeOK, FramesOK
    <2>2. FrameOK(s, g)
      <3>1. FrameOK(s, Top(s))
        <4>1. FrameOK(s, frames[s][k])
          BY <1>1, <2>1
        <4>2. QED
          BY <4>1 DEF Top
      <3>2. QED
        BY <1>0, <1>3, <3>1 DEF FrameOK
    <2>3. QED
      BY <1>1, <1>3, <1>4, <1>5, <2>1, <2>2
  <1>7. StackOK(s, fs)
    <2>1. MaxDepth \in Nat
      BY RuntimeAssumption
    <2>2. FrameOK(s, fs[k + 1]) /\ fs[k + 1].pc = "open"
      BY <1>5, OpenFrameFacts
    <2>3. QED
      BY <1>1, <1>2, <1>5, <1>6, <2>1, <2>2 DEF StackOK
  <1>8. frames' = [frames EXCEPT ![s] = fs]
    BY DEF InternalCall, PushFrame, Depth
  <1>9. ControlOK(s, fs) /\ UNCHANGED <<storageVars, history>>
    <2>1. fs # << >>
      BY <1>1, <1>5
    <2>2. UNCHANGED <<storageVars, pc, cmd, buf, resp, history>>
      BY DEF InternalCall
    <2>3. pc' = [pc EXCEPT ![s] = "run"]
      BY <1>0, <2>2 DEF TypeOK
    <2>4. QED
      BY <1>0, <2>1, <2>2, <2>3 DEF ControlOK, TypeOK
  <1>10. QED
    BY <1>7, <1>8, <1>9, FramesStep

-----------------------------------------------------------------------------
LEMMA SaveStepInd ==
  ASSUME IndInv, NEW s \in Sessions, SaveStep(s)
  PROVE  IndInv'
  <1>1. CASE SaveCreateFails(s)
    BY <1>1, RespondInd DEF SaveCreateFails
  <1>2. QED
    BY <1>1, SaveEntryInd, SaveCreateInd, SaveWriteInd, SaveWriteFailsInd,
       SaveCloseInd, SaveDeleteInd, SaveDeleteFailsInd DEF SaveStep

LEMMA RunStepInd ==
  ASSUME IndInv, NEW s \in Sessions, RunStep(s)
  PROVE  IndInv'
  <1>1. CASE NoLuaState(s) \/ WildRead(s)
    BY <1>1, DieInd DEF NoLuaState, WildRead
  <1>2. QED
    BY <1>1, RunEntryInd, OpenScriptInd, QuietFrameInd, ReadScriptInd,
       CloseScriptInd, PopInd, InternalCallInd DEF RunStep

LEMMA TAStepInd ==
  ASSUME IndInv, NEW s \in Sessions, TAStep(s)
  PROVE  IndInv'
  <1>1. CASE RejectParams(s) \/ RunTa(s) \/ OutOfMemory(s)
    BY <1>1, RespondInd DEF RejectParams, RunTa, OutOfMemory, Enter
  <1>2. CASE HeaderUnderflow(s)
    BY <1>2, DieInd DEF HeaderUnderflow
  <1>3. QED
    BY <1>1, <1>2, SaveStepInd, RunStepInd DEF TAStep

LEMMA StutterInd ==
  ASSUME IndInv, UNCHANGED vars
  PROVE  IndInv'
  <1>. USE DEF IndInv, vars, storageVars, sessionVars, history
  <1>1. TypeOK'
    BY DEF TypeOK, StorageTypeOK, Depth
  <1>2. (HandleExclusion /\ WriterHolds /\ EmptyExplained)'
    BY DEF HandleExclusion, WriterHolds, HoldsObject, EmptyExplained
  <1>3. (HandlesCounted /\ SameVersionPerSession)'
    BY DEF HandlesCounted, Pending, Top, Depth, SameVersionPerSession
  <1>4. FramesOK'
    BY DEF FramesOK, FrameOK, Depth, Top
  <1>5. QED
    BY <1>1, <1>2, <1>3, <1>4

LEMMA NextInd == IndInv /\ [Next]_vars => IndInv'
  <1>1. SUFFICES ASSUME IndInv, [Next]_vars PROVE IndInv'
    OBVIOUS
  <1>2. ASSUME NEW s \in Sessions, ClientStep(s) PROVE IndInv'
    BY <1>1, <1>2, OpenSessionInd, CloseSessionInd, InvokeInd, RuntimeAssumption
    DEF ClientStep
  <1>3. ASSUME NEW s \in Sessions, Panic(s) PROVE IndInv'
    BY <1>1, <1>3, DieInd DEF Panic
  <1>4. ASSUME UNCHANGED vars PROVE IndInv'
    BY <1>1, <1>4, StutterInd
  <1>5. QED
    BY <1>1, <1>2, <1>3, <1>4, TAStepInd DEF Next

-----------------------------------------------------------------------------
(* The theorems.                                                           *)

(* The inductive invariant holds in every behaviour of the TA.             *)
THEOREM Invariance == Spec => []IndInv
  BY InitInd, NextInd, PTL DEF Spec

(* Every reachable state is well-formed, and the handler frames of a       *)
(* session are nested as the C calls are.                                  *)
THEOREM TypeCorrect == Spec => []TypeOK
  <1>1. IndInv => TypeOK
    BY DEF IndInv
  <1>2. QED
    BY <1>1, Invariance, PTL

(* A save excludes every other handle on its object, from                  *)
(* TEE_CreatePersistentObject to TEE_CloseObject or the deletion.          *)
THEOREM Exclusion == Spec => []HandleExclusion
  <1>1. IndInv => HandleExclusion
    BY DEF IndInv
  <1>2. QED
    BY <1>1, Invariance, PTL

(* A session never runs two versions of a saved script, however many       *)
(* sessions save under that name meanwhile.                                *)
THEOREM SameVersion == Spec => []SameVersionPerSession
  <1>1. IndInv => SameVersionPerSession
    BY DEF IndInv
  <1>2. QED
    BY <1>1, Invariance, PTL

(* The size run_saved_lua_script allocates by is the size it reads.        *)
THEOREM StableRead == Spec => []ReadIsStable
  <1>1. IndInv => ReadIsStable
    BY DEF IndInv, FramesOK, FrameOK, ReadIsStable
  <1>2. QED
    BY <1>1, Invariance, PTL

(* A saved script that runs owes its content to a read handle that is      *)
(* still open, so no save is under way on its name and the name still      *)
(* stands for that content.                                                *)
LEMMA RunningIsHeld ==
  ASSUME IndInv, NEW s \in Sessions, NEW i \in 1..Depth(s),
         frames[s][i].pc = "exec", frames[s][i].stored
  PROVE  LET n == frames[s][i].name IN
         /\ n \in Names /\ readers[s][n] > 0 /\ writer[n] = Nobody
         /\ frames[s][i].data = store[n]
  <1>. DEFINE n == frames[s][i].name
  <1>1. n \in Names
    <2>1. frames[s] \in Seq(Frame) /\ i \in 1..Len(frames[s])
      BY DEF IndInv, TypeOK, Depth
    <2>2. frames[s][i] \in Frame
      BY <2>1
    <2>3. QED
      BY <2>2 DEF Frame
  <1>2. frames[s][i].data = ran[s][n] /\ ran[s][n] # Absent
    BY DEF IndInv, FramesOK, FrameOK
  <1>3. readers[s][n] > 0 /\ store[n] = ran[s][n]
    BY <1>1, <1>2 DEF IndInv, HandlesCounted, SameVersionPerSession
  <1>4. writer[n] = Nobody
    <2>1. ASSUME NEW m \in Names, writer[m] # Nobody PROVE readers[s][m] = 0
      BY <2>1 DEF IndInv, HandleExclusion
    <2>2. readers[s][n] # 0
      BY <1>1, <1>3 DEF IndInv, TypeOK, StorageTypeOK
    <2>3. QED
      BY <1>1, <2>1, <2>2
  <1>5. QED
    BY <1>1, <1>2, <1>3, <1>4

(* The empty object between TEE_CreatePersistentObject and                 *)
(* TEE_WriteObjectData is never run as a script, unless it stayed behind:  *)
(* its session died there, or it was neither written nor deleted.          *)
THEOREM NoTornReads == Spec => []NoTornRead
  <1>1. ASSUME IndInv, NEW s \in Sessions, NEW i \in 1..Depth(s),
               frames[s][i].data = Empty
        PROVE  frames[s][i].name \in torn
    <2>1. FrameOK(s, frames[s][i]) /\ Absent # Empty
      BY <1>1, ContentFacts DEF IndInv, FramesOK
    <2>2. frames[s][i].pc = "exec" /\ frames[s][i].stored
      BY <1>1, <2>1 DEF FrameOK
    <2>3. LET n == frames[s][i].name
          IN  n \in Names /\ writer[n] = Nobody /\ store[n] = Empty
      BY <1>1, <2>2, RunningIsHeld
    <2>4. QED
      BY <1>1, <2>3 DEF IndInv, EmptyExplained
  <1>2. IndInv => NoTornRead
    BY <1>1 DEF NoTornRead
  <1>3. QED
    BY <1>2, Invariance, PTL

(* The abstract invariant of ScriptStore, through the refinement mapping:  *)
(* what runs under a name is what the name stands for, at every nesting    *)
(* depth and whatever is saved concurrently.                               *)
THEOREM CurrentVersion == Spec => []RunsCurrentVersion
  <1>1. ASSUME IndInv, NEW s \in Sessions
        PROVE  LET k == Executing(frames[s]) IN
               k \in Nat /\ k <= Depth(s)
               /\ \A i \in 1..k : i \in 1..Depth(s) /\ frames[s][i].pc = "exec"
    <2>1. frames[s] \in Seq(Frame) /\ Depth(s) = Len(frames[s])
      BY <1>1 DEF IndInv, TypeOK, Depth
    <2>2. Depth(s) \in Nat /\ (frames[s] # << >> => Depth(s) > 0)
      BY <2>1, EmptySeq
    <2>3. \A i \in 1..Depth(s) : i < Depth(s) => frames[s][i].pc = "exec"
      BY <1>1 DEF IndInv, TypeOK
    <2>4. QED
      BY <2>1, <2>2, <2>3 DEF Executing
  <1>2. IndInv => RunsCurrentVersion
    <2>. SUFFICES ASSUME IndInv, NEW s \in Sessions,
                         NEW i \in 1..Len(RunningScripts[s]),
                         RunningScripts[s][i].stored
                  PROVE  /\ RunningScripts[s][i].name \in OpenNames[s]
                         /\ RunningScripts[s][i].data =
                              SavedScripts[RunningScripts[s][i].name]
      BY DEF RunsCurrentVersion, Abstract!RunsCurrentVersion
    <2>1. /\ i \in 1..Depth(s) /\ frames[s][i].pc = "exec"
          /\ RunningScripts[s][i].name = frames[s][i].name
          /\ RunningScripts[s][i].data = frames[s][i].data
          /\ RunningScripts[s][i].stored = frames[s][i].stored
      BY <1>1 DEF RunningScripts
    <2>2. LET n == frames[s][i].name IN
          /\ n \in Names /\ readers[s][n] > 0 /\ writer[n] = Nobody
          /\ frames[s][i].data = store[n]
      BY <2>1, RunningIsHeld
    <2>3. QED
      BY <2>1, <2>2 DEF OpenNames, SavedScripts, Saving
  <1>3. QED
    BY <1>2, Invariance, PTL

-----------------------------------------------------------------------------
(* Authenticity.  The host was built without its plaintext variant: every  *)
(* script the rich OS sends comes with the flag that asks for decryption.  *)
PlaintextDisabled == \A c \in Commands : c.op \in {"save", "run"} => c.enc

(* An unkeyed package with the text is among the commands.                 *)
Unkeyed(text) ==
  \E c \in Commands : c.payload = [kind |-> "unkeyed", script |-> text]

(* A text that did not arrive in the clear, and came in a package that     *)
(* somebody sent if it is not known to be authentic.                       *)
Sealed(c) ==
  /\ c.kind \notin {"plain", "blank"}
  /\ c.kind = "unverified" => Unkeyed(c.script)

(* No other text is anywhere: neither in the buffer of a save, nor in an   *)
(* object, nor in a frame.                                                 *)
AuthInv ==
  /\ cmd \in [Sessions -> Commands]
  /\ \A s \in Sessions : Sealed(buf[s])
  /\ \A n \in Names : Sealed(store[n])
  /\ \A s \in Sessions : \A i \in 1..Depth(s) : Sealed(frames[s][i].data)

LEMMA SealedFacts ==
  /\ Sealed(Absent) /\ Sealed(Empty)
  /\ \A c \in Commands : \A d \in Received(c.payload, TRUE) : Sealed(d)
  <1>1. Sealed(Absent) /\ Sealed(Empty) /\ Sealed(Zeros) /\ Sealed(Garbled)
    BY DEF Sealed, Absent, Empty, Zeros, Garbled
  <1>2. ASSUME NEW c \in Commands, NEW d \in Received(c.payload, TRUE)
        PROVE  Sealed(d)
    <2>1. c.payload \in Payload
      BY RuntimeAssumption DEF Command
    <2>2. c.payload = [kind |-> c.payload.kind, script |-> c.payload.script]
      BY <2>1 DEF Payload
    <2>3. CASE d = Text("sealed", c.payload.script)
      BY <2>3 DEF Text, Sealed
    <2>4. CASE c.payload.kind = "unkeyed" /\ d = Text("unverified", c.payload.script)
      BY <2>2, <2>4 DEF Text, Sealed, Unkeyed
    <2>5. CASE d \in {Zeros, Garbled}
      BY <1>1, <2>5
    <2>6. QED
      BY <1>2, <2>3, <2>4, <2>5 DEF Received, VerifyAndDecrypt
  <1>3. QED
    BY <1>1, <1>2

LEMMA NoCommandSent == NoCommand \in Commands
  BY RuntimeAssumption DEF NoCommand

(* What a session receives in an entry is sealed.                          *)
LEMMA ReceivedSealed ==
  ASSUME PlaintextDisabled, AuthInv, NEW s \in Sessions,
         Enter(s, "save") \/ Enter(s, "run")
  PROVE  \A d \in Received(cmd[s].payload, cmd[s].enc) : Sealed(d)
  <1>1. cmd[s] \in Commands /\ cmd[s] \in Command
    BY RuntimeAssumption DEF AuthInv
  <1>2. cmd[s].enc = TRUE
    BY <1>1 DEF PlaintextDisabled, Enter
  <1>3. QED
    BY <1>1, <1>2, SealedFacts

(* Steps that leave the frames alone, or drop some.                        *)
LEMMA AuthBuffers ==
  ASSUME IndInv, AuthInv, NEW s \in Sessions,
         frames' \in {frames, [frames EXCEPT ![s] = << >>]},
         cmd' \in {cmd, [cmd EXCEPT ![s] = NoCommand]}
           \cup {[cmd EXCEPT ![s] = c] : c \in Commands},
         NEW d, Sealed(d), buf' \in {buf, [buf EXCEPT ![s] = d]},
         NEW c, Sealed(c), NEW n,
         store' \in {store, [store EXCEPT ![n] = c]}
  PROVE  AuthInv'
  <1>1. /\ buf \in [Sessions -> Content] /\ store \in [Names -> Content]
        /\ frames \in [Sessions -> Seq(Frame)]
    BY DEF IndInv, TypeOK, StorageTypeOK
  <1>2. cmd' \in [Sessions -> Commands]
    BY NoCommandSent DEF AuthInv
  <1>3. (\A q \in Sessions : Sealed(buf[q]))'
    BY <1>1 DEF AuthInv
  <1>4. (\A m \in Names : Sealed(store[m]))'
    BY <1>1 DEF AuthInv
  <1>5. (\A q \in Sessions : \A i \in 1..Depth(q) : Sealed(frames[q][i].data))'
    <2>1. ASSUME NEW q \in Sessions, NEW i \in 1..Len(frames'[q])
          PROVE  i \in 1..Depth(q) /\ frames'[q][i] = frames[q][i]
      BY <1>1 DEF Depth
    <2>2. QED
      BY <2>1 DEF AuthInv, Depth
  <1>6. QED
    BY <1>2, <1>3, <1>4, <1>5 DEF AuthInv

(* Steps that change the frames of one session and no object.              *)
LEMMA AuthFrames ==
  ASSUME IndInv, AuthInv, NEW s \in Sessions, NEW fs,
         frames' = [frames EXCEPT ![s] = fs],
         \A i \in 1..Len(fs) : Sealed(fs[i].data),
         cmd' \in {cmd, [cmd EXCEPT ![s] = NoCommand]},
         buf' \in {buf, [buf EXCEPT ![s] = Absent]},
         store' = store
  PROVE  AuthInv'
  <1>1. /\ buf \in [Sessions -> Content] /\ frames \in [Sessions -> Seq(Frame)]
    BY DEF IndInv, TypeOK, StorageTypeOK
  <1>2. cmd' \in [Sessions -> Commands]
    BY NoCommandSent DEF AuthInv
  <1>3. (\A q \in Sessions : Sealed(buf[q]))'
    BY <1>1, SealedFacts DEF AuthInv
  <1>4. (\A m \in Names : Sealed(store[m]))'
    BY DEF AuthInv
  <1>5. (\A q \in Sessions : \A i \in 1..Depth(q) : Sealed(frames[q][i].data))'
    BY <1>1 DEF AuthInv, Depth
  <1>6. QED
    BY <1>2, <1>3, <1>4, <1>5 DEF AuthInv

LEMMA AuthSetTop ==
  ASSUME IndInv, AuthInv, NEW s \in Sessions, pc[s] = "run", NEW f,
         SetTop(s, f), Sealed(f.data), UNCHANGED <<cmd, buf, store>>
  PROVE  AuthInv'
  <1>. DEFINE fs == [frames[s] EXCEPT ![Depth(s)] = f]
  <1>1. frames[s] \in Seq(Frame) /\ frames \in [Sessions -> Seq(Frame)]
    BY DEF IndInv, TypeOK
  <1>2. frames' = [frames EXCEPT ![s] = fs]
    BY <1>1 DEF SetTop, Depth
  <1>3. \A i \in 1..Len(fs) : Sealed(fs[i].data)
    BY <1>1 DEF AuthInv, Depth
  <1>. HIDE DEF fs
  <1>4. QED
    BY <1>2, <1>3, AuthFrames

LEMMA AuthClient ==
  ASSUME IndInv, AuthInv, NEW s \in Sessions,
         ClientStep(s) \/ Panic(s) \/ HeaderUnderflow(s) \/ NoLuaState(s)
           \/ WildRead(s) \/ RejectParams(s) \/ RunTa(s) \/ OutOfMemory(s)
           \/ SaveCreateFails(s)
  PROVE  AuthInv'
  <1>1. \/ UNCHANGED <<cmd, buf, store, frames>>
        \/ /\ cmd' \in {[cmd EXCEPT ![s] = NoCommand]}
                         \cup {[cmd EXCEPT ![s] = c] : c \in Commands}
           /\ buf' \in {buf, [buf EXCEPT ![s] = Absent]}
           /\ frames' \in {frames, [frames EXCEPT ![s] = << >>]}
           /\ UNCHANGED store
    BY DEF ClientStep, OpenSession, CloseSession, Invoke, Panic, HeaderUnderflow,
           NoLuaState, WildRead, RejectParams, RunTa, OutOfMemory, SaveCreateFails,
           Die, Respond, Leave, ReleaseHandles, storageVars
  <1>2. QED
    BY <1>1, AuthBuffers, SealedFacts

LEMMA AuthSave ==
  ASSUME PlaintextDisabled, IndInv, AuthInv, NEW s \in Sessions, SaveStep(s)
  PROVE  AuthInv'
  <1>1. CASE SaveEntry(s)
    <2>1. PICK d \in Received(cmd[s].payload, cmd[s].enc) :
            buf' = [buf EXCEPT ![s] = d]
      BY <1>1 DEF SaveEntry
    <2>2. Sealed(d)
      BY <1>1, ReceivedSealed DEF SaveEntry
    <2>3. UNCHANGED <<cmd, frames, store>>
      BY <1>1 DEF SaveEntry, storageVars
    <2>4. QED
      BY <2>1, <2>2, <2>3, AuthBuffers
  <1>2. CASE SaveCreate(s) \/ SaveWrite(s) \/ SaveDelete(s)
    <2>1. PICK c \in {Empty, Absent, buf[s]} :
            store' = [store EXCEPT ![cmd[s].name] = c]
      BY <1>2 DEF SaveCreate, SaveWrite, SaveDelete, CreateObject, WriteObject, DeleteObject
    <2>2. Sealed(c)
      BY <2>1, SealedFacts DEF AuthInv
    <2>3. /\ cmd' \in {cmd, [cmd EXCEPT ![s] = NoCommand]}
          /\ buf' \in {buf, [buf EXCEPT ![s] = Absent]} /\ UNCHANGED frames
      BY <1>2 DEF SaveCreate, SaveWrite, SaveDelete, Respond, Leave
    <2>4. cmd' \in {cmd, [cmd EXCEPT ![s] = NoCommand]}
                     \cup {[cmd EXCEPT ![s] = x] : x \in Commands}
      BY <2>3
    <2>5. PICK n : store' \in {store, [store EXCEPT ![n] = c]}
      BY <2>1
    <2>6. frames' \in {frames, [frames EXCEPT ![s] = << >>]}
      BY <2>3
    <2>7. Sealed(Absent)
      BY SealedFacts
    <2>8. QED
      BY <2>2, <2>3, <2>4, <2>5, <2>6, <2>7, AuthBuffers
  <1>3. CASE SaveWriteFails(s) \/ SaveClose(s) \/ SaveDeleteFails(s)
    <2>1. /\ cmd' \in {cmd, [cmd EXCEPT ![s] = NoCommand]}
          /\ buf' \in {buf, [buf EXCEPT ![s] = Absent]}
          /\ UNCHANGED <<frames, store>>
      BY <1>3 DEF SaveWriteFails, SaveClose, SaveDeleteFails, CloseWriter, Respond,
                  Leave, storageVars
    <2>2. QED
      BY <2>1, AuthBuffers, SealedFacts
  <1>4. QED
    BY <1>1, <1>2, <1>3, AuthClient DEF SaveStep

LEMMA AuthRun ==
  ASSUME PlaintextDisabled, IndInv, AuthInv, NEW s \in Sessions, RunStep(s)
  PROVE  AuthInv'
  <1>1. CASE RunEntry(s)
    <2>1. PICK d \in Received(cmd[s].payload, cmd[s].enc) :
            frames' = [frames EXCEPT ![s] = <<SentFrame(cmd[s].name, d)>>]
      BY <1>1 DEF RunEntry
    <2>2. Sealed(SentFrame(cmd[s].name, d).data)
      BY <1>1, ReceivedSealed DEF RunEntry, SentFrame
    <2>3. UNCHANGED <<cmd, buf, store>>
      BY <1>1 DEF RunEntry, storageVars
    <2>. DEFINE fs == <<SentFrame(cmd[s].name, d)>>
    <2>4. \A i \in 1..Len(fs) : Sealed(fs[i].data)
      BY <2>2
    <2>5. frames' = [frames EXCEPT ![s] = fs]
      BY <2>1
    <2>. HIDE DEF fs
    <2>6. QED
      BY <2>3, <2>4, <2>5, AuthFrames
  <1>2. CASE RunSavedEntry(s)
    <2>. DEFINE fs == <<OpenFrame(cmd[s].name)>>
    <2>1. Sealed(OpenFrame(cmd[s].name).data)
      BY SealedFacts DEF OpenFrame
    <2>2. \A i \in 1..Len(fs) : Sealed(fs[i].data)
      BY <2>1
    <2>3. frames' = [frames EXCEPT ![s] = fs] /\ UNCHANGED <<cmd, buf, store>>
      BY <1>2 DEF RunSavedEntry, storageVars
    <2>. HIDE DEF fs
    <2>4. QED
      BY <2>2, <2>3, AuthFrames
  <1>3. CASE OpenScript(s) \/ OpenFails(s) \/ GetObjectInfo(s) \/ ReadScript(s)
             \/ ReadFails(s) \/ CloseScript(s)
    <2>1. pc[s] = "run" /\ UNCHANGED <<cmd, buf, store>>
      BY <1>3
      DEF OpenScript, OpenFails, GetObjectInfo, ReadScript, ReadFails, CloseScript,
          At, OpenObject, CloseReader, storageVars
    <2>2. Top(s) \in Frame /\ Top(s).name \in Names /\ Sealed(Top(s).data)
      <3>1. /\ Top(s) \in Frame /\ Depth(s) \in 1..Depth(s)
            /\ Top(s) = frames[s][Depth(s)]
        BY <2>1, TopFacts DEF IndInv
      <3>2. QED
        BY <3>1 DEF AuthInv, Frame
    <2>3. PICK f : SetTop(s, f) /\ (f.data = Top(s).data \/ f.data = store[Top(s).name])
      <3>1. /\ \A p \in {"info", "close", "failed"} :
                 [Top(s) EXCEPT !.pc = p].data = Top(s).data
            /\ [Top(s) EXCEPT !.pc = "read", !.info = store[Top(s).name]].data
                 = Top(s).data
            /\ CallLua(Top(s), store[Top(s).name]).data = store[Top(s).name]
        BY <2>2 DEF Frame, CallLua
      <3>2. QED
        BY <1>3, <3>1
        DEF OpenScript, OpenFails, GetObjectInfo, ReadScript, ReadFails, CloseScript
    <2>4. Sealed(f.data)
      BY <2>2, <2>3 DEF AuthInv
    <2>5. QED
      BY <2>1, <2>3, <2>4, AuthSetTop
  <1>4. CASE ReturnJunk(s) \/ Finish(s)
    <2>. DEFINE fs == SubSeq(frames[s], 1, Depth(s) - 1)
    <2>1. /\ frames' = [frames EXCEPT ![s] = fs] /\ UNCHANGED store
          /\ cmd' \in {cmd, [cmd EXCEPT ![s] = NoCommand]}
          /\ buf' \in {buf, [buf EXCEPT ![s] = Absent]}
      BY <1>4 DEF ReturnJunk, Finish, PopFrame, Depth, Respond, Leave, storageVars
    <2>2. frames[s] \in Seq(Frame) /\ Depth(s) \in Nat \ {0} /\ Depth(s) = Len(frames[s])
      BY <1>4, TopFacts DEF IndInv, ReturnJunk, Finish, At, Depth
    <2>3. \A i \in 1..Len(fs) : i \in 1..Depth(s) /\ fs[i] = frames[s][i]
      BY <2>2
    <2>4. \A i \in 1..Len(fs) : Sealed(fs[i].data)
      BY <2>3 DEF AuthInv
    <2>. HIDE DEF fs
    <2>5. QED
      BY <2>1, <2>4, AuthFrames
  <1>5. ASSUME NEW n \in Names, InternalCall(s, n) PROVE AuthInv'
    <2>. DEFINE g == [Top(s) EXCEPT !.left = @ - 1]
                under == [frames[s] EXCEPT ![Depth(s)] = g]
                fs == Append(under, OpenFrame(n))
    <2>1. /\ frames' = [frames EXCEPT ![s] = fs] /\ UNCHANGED <<cmd, buf, store>>
      BY <1>5 DEF InternalCall, PushFrame, Depth, storageVars
    <2>2. /\ frames[s] \in Seq(Frame) /\ Depth(s) \in Nat \ {0}
          /\ Depth(s) = Len(frames[s]) /\ Depth(s) \in 1..Depth(s)
          /\ Top(s) \in Frame /\ Top(s) = frames[s][Depth(s)]
      BY <1>5, TopFacts DEF IndInv, InternalCall, At, Depth
    <2>3. g.data = Top(s).data /\ Sealed(Top(s).data) /\ Sealed(OpenFrame(n).data)
      BY <2>2, SealedFacts DEF AuthInv, Frame, OpenFrame
    <2>4. \A i \in 1..Depth(s) : Sealed(frames[s][i].data)
      BY DEF AuthInv
    <2>5. /\ Len(under) = Depth(s)
          /\ \A i \in 1..Depth(s) :
               under[i] = IF i = Depth(s) THEN g ELSE frames[s][i]
      <3>. HIDE DEF g
      <3>1. QED
        BY <2>2
    <2>6. /\ Len(fs) = Depth(s) + 1 /\ fs[Depth(s) + 1] = OpenFrame(n)
          /\ \A i \in 1..Depth(s) : fs[i] = under[i]
      <3>. HIDE DEF under
      <3>1. QED
        BY <2>2, <2>5
    <2>7. \A i \in 1..Len(fs) : Sealed(fs[i].data)
      <3>. HIDE DEF fs, under, g
      <3>1. QED
        BY <2>2, <2>3, <2>4, <2>5, <2>6
    <2>. HIDE DEF fs
    <2>8. QED
      BY <2>1, <2>7, AuthFrames
  <1>6. QED
    BY <1>1, <1>2, <1>3, <1>4, <1>5, AuthClient DEF RunStep

LEMMA AuthNext ==
  ASSUME PlaintextDisabled, IndInv, AuthInv, [Next]_vars
  PROVE  AuthInv'
  <1>1. ASSUME NEW s \in Sessions, TAStep(s) PROVE AuthInv'
    BY <1>1, AuthClient, AuthSave, AuthRun DEF TAStep
  <1>2. ASSUME UNCHANGED vars PROVE AuthInv'
    BY <1>2 DEF vars, storageVars, sessionVars, AuthInv, Depth
  <1>3. QED
    BY <1>1, <1>2, AuthClient DEF Next

(* With plaintext scripts disabled, whatever the rich OS sends and however *)
(* the TEE fails, the interpreter runs nothing but the text of authentic   *)
(* packages, the empty chunk, and the text of a package that was sent with *)
(* a mac that is zero or made with the key of all zeros: no bytes that     *)
(* arrived in the clear.                                                   *)
THEOREM AuthenticRuns == PlaintextDisabled => (Spec => []OnlyAuthenticRuns)
  <1>. SUFFICES ASSUME PlaintextDisabled PROVE Spec => []OnlyAuthenticRuns
    OBVIOUS
  <1>1. Init => AuthInv
    BY SealedFacts, NoCommandSent DEF Init, StorageInit, AuthInv, Depth
  <1>2. IndInv /\ AuthInv /\ [Next]_vars => AuthInv'
    BY AuthNext
  <1>3. IndInv /\ AuthInv => OnlyAuthenticRuns
    BY DEF AuthInv, OnlyAuthenticRuns, Sealed, Unkeyed, Loadable, HoldsScript
  <1>4. QED
    BY <1>1, <1>2, <1>3, Invariance, PTL DEF Spec

-----------------------------------------------------------------------------
(* The refinement: the trusted application implements the abstract script  *)
(* store.  A save takes effect when its data is written or, when that      *)
(* failed, when the object is deleted; a run of a saved script starts when *)
(* its content has been read; everything between is invisible from         *)
(* outside.                                                                *)

(* A session that is closed or dead has no handle left.                    *)
GoneHoldsNothing ==
  \A s \in Sessions, n \in Names :
    pc[s] \in {"closed", "dead"} => readers[s][n] = 0

RefInv == IndInv /\ GoneHoldsNothing

StoreStep == [Abstract!StoreNext]_(Abstract!storeVars)

(* What the abstract store sees of one session's stack of frames.          *)
RunningIn(fs) ==
  [i \in 1..Executing(fs) |->
     [name |-> fs[i].name, data |-> fs[i].data, stored |-> fs[i].stored]]

-----------------------------------------------------------------------------
(* Facts about the mapping.                                                *)

LEMMA RefInvFacts ==
  ASSUME RefInv
  PROVE  /\ TypeOK /\ IndInv
         /\ store \in [Names -> Content]
         /\ writer \in [Names -> Sessions \cup {Nobody}]
         /\ readers \in [Sessions -> [Names -> 0..MaxOpen]]
         /\ frames \in [Sessions -> Seq(Frame)]
         /\ before \in [Names -> Content]
         /\ pc \in [Sessions -> {"closed", "idle", "dead", "entry", "run"}
                                  \cup SaveSteps]
  BY DEF RefInv, IndInv, TypeOK, StorageTypeOK

LEMMA SameData ==
  /\ Abstract!Empty = Empty /\ Abstract!Absent = Absent
  /\ Abstract!Content = Content
  BY DEF Abstract!Empty, Empty, Abstract!Absent, Absent, Abstract!Content, Content

(* A save that has not written yet is under way exactly where a session    *)
(* inside save_lua_script holds the object.                                *)
LEMMA SavingFacts ==
  ASSUME RefInv, NEW n \in Names, writer[n] # Nobody
  PROVE  /\ writer[n] \in Sessions /\ HoldsObject(writer[n])
         /\ cmd[writer[n]].name = n
         /\ \A s \in Sessions : readers[s][n] = 0
         /\ Saving(n) => store[n] = Empty
  <1>1. writer[n] \in Sessions
    BY RefInvFacts
  <1>2. /\ HoldsObject(writer[n]) /\ cmd[writer[n]].name = n
        /\ \A s \in Sessions : readers[s][n] = 0
    BY RefInvFacts DEF IndInv, HandleExclusion, HoldsObject
  <1>3. Saving(n) => store[n] = Empty
    BY <1>1, <1>2, RefInvFacts DEF IndInv, WriterHolds, Saving
  <1>4. QED
    BY <1>1, <1>2, <1>3

(* Steps of a session that holds no object do not change what is saved,    *)
(* unless they change an object.                                           *)
LEMMA ScriptsKept ==
  ASSUME RefInv, NEW s \in Sessions, ~HoldsObject(s),
         UNCHANGED <<store, writer, before>>,
         \A q \in Sessions : q # s => pc'[q] = pc[q]
  PROVE  UNCHANGED SavedScripts
  <1>1. ASSUME NEW n \in Names PROVE Saving(n)' <=> Saving(n)
    <2>1. CASE writer[n] = Nobody
      BY <2>1 DEF Saving
    <2>2. CASE writer[n] # Nobody
      <3>1. writer[n] \in Sessions /\ writer[n] # s
        BY <2>2, SavingFacts
      <3>2. QED
        BY <3>1 DEF Saving
    <2>3. QED
      BY <2>1, <2>2
  <1>2. QED
    BY <1>1 DEF SavedScripts

(* A session that is neither opened nor ended stays active.                *)
LEMMA ActiveKept ==
  ASSUME NEW s \in Sessions,
         pc[s] \notin {"closed", "dead"}, pc'[s] \notin {"closed", "dead"},
         \A q \in Sessions : q # s => pc'[q] = pc[q]
  PROVE  s \in ActiveSessions /\ UNCHANGED ActiveSessions
  BY DEF ActiveSessions

LEMMA RunningDef ==
  RunningScripts = [s \in Sessions |-> RunningIn(frames[s])]
  BY DEF RunningScripts, RunningIn

(* What runs in a well-formed stack, by its length and its last frame.     *)
LEMMA RunningFacts ==
  ASSUME NEW fs \in Seq(Frame)
  PROVE  /\ Executing(fs) \in Nat
         /\ fs = << >> => Executing(fs) = 0
         /\ fs # << >> /\ fs[Len(fs)].pc = "exec" => Executing(fs) = Len(fs)
         /\ fs # << >> /\ fs[Len(fs)].pc # "exec" => Executing(fs) = Len(fs) - 1
         /\ Len(RunningIn(fs)) = Executing(fs)
         /\ RunningIn(fs) \in
              Seq([name : Names, data : Content, stored : BOOLEAN])
         /\ \A i \in 1..Executing(fs) :
              RunningIn(fs)[i] = [name |-> fs[i].name, data |-> fs[i].data,
                                  stored |-> fs[i].stored]
  <1>1. Len(fs) \in Nat /\ (fs # << >> => Len(fs) > 0)
    BY EmptySeq
  <1>2. Executing(fs) \in 0..Len(fs)
    BY <1>1 DEF Executing
  <1>3. /\ fs = << >> => Executing(fs) = 0
        /\ fs # << >> /\ fs[Len(fs)].pc = "exec" => Executing(fs) = Len(fs)
        /\ fs # << >> /\ fs[Len(fs)].pc # "exec" => Executing(fs) = Len(fs) - 1
    BY DEF Executing
  <1>4. ASSUME NEW i \in 1..Executing(fs)
        PROVE  [name |-> fs[i].name, data |-> fs[i].data, stored |-> fs[i].stored]
                 \in [name : Names, data : Content, stored : BOOLEAN]
    <2>1. fs[i] \in Frame
      BY <1>1, <1>2
    <2>2. QED
      BY <2>1 DEF Frame
  <1>5. PICK k \in Nat : k = Executing(fs)
    BY <1>1, <1>2
  <1>6. /\ RunningIn(fs) \in
             [1..k -> [name : Names, data : Content, stored : BOOLEAN]]
        /\ \A i \in 1..k :
             RunningIn(fs)[i] = [name |-> fs[i].name, data |-> fs[i].data,
                                 stored |-> fs[i].stored]
    BY <1>4, <1>5 DEF RunningIn
  <1>7. /\ RunningIn(fs) \in
             Seq([name : Names, data : Content, stored : BOOLEAN])
        /\ Len(RunningIn(fs)) = k
    <2>. DEFINE R == [name : Names, data : Content, stored : BOOLEAN]
    <2>1. RunningIn(fs) \in [1..k -> R]
      BY <1>6
    <2>. HIDE DEF R
    <2>2. RunningIn(fs) \in Seq(R)
      BY <2>1, SeqDef
    <2>3. /\ DOMAIN RunningIn(fs) = 1..k
          /\ DOMAIN RunningIn(fs) = 1..Len(RunningIn(fs))
          /\ Len(RunningIn(fs)) \in Nat
      BY <2>1, <2>2, LenProperties
    <2>4. Len(RunningIn(fs)) = k
      BY <2>3
    <2>5. QED
      BY <2>2, <2>4 DEF R
  <1>8. QED
    BY <1>3, <1>5, <1>6, <1>7

LEMMA RunningAt ==
  ASSUME NEW fs \in Seq(Frame), NEW k \in Nat, Executing(fs) = k, NEW i \in 1..k
  PROVE  RunningIn(fs)[i] = [name |-> fs[i].name, data |-> fs[i].data,
                             stored |-> fs[i].stored]
  BY DEF RunningIn

LEMMA NothingRunning == RunningIn(<< >>) = << >>
  <1>1. << >> \in Seq(Frame)
    BY EmptySeq
  <1>2. /\ Len(RunningIn(<< >>)) = 0
        /\ RunningIn(<< >>) \in Seq([name : Names, data : Content, stored : BOOLEAN])
    BY <1>1, RunningFacts
  <1>3. QED
    BY <1>2, EmptySeq

LEMMA OneFrame ==
  ASSUME NEW f \in Frame
  PROVE  /\ f.pc # "exec" => RunningIn(<<f>>) = << >>
         /\ f.pc = "exec" => RunningIn(<<f>>) =
              <<[name |-> f.name, data |-> f.data, stored |-> f.stored]>>
  <1>. DEFINE fs == <<f>>
  <1>1. fs \in Seq(Frame)
    OBVIOUS
  <1>2. Len(fs) = 1 /\ fs[1] = f /\ fs # << >>
    OBVIOUS
  <1>. HIDE DEF fs
  <1>. DEFINE R == [name : Names, data : Content, stored : BOOLEAN]
              r == [name |-> f.name, data |-> f.data, stored |-> f.stored]
  <1>3. PICK rs \in Seq(R) : /\ rs = RunningIn(fs) /\ Len(rs) = Executing(fs)
                             /\ Executing(fs) = 1 => rs[1] = r
    <2>1. /\ RunningIn(fs) \in Seq(R) /\ Len(RunningIn(fs)) = Executing(fs)
          /\ Executing(fs) \in Nat
      BY <1>1, RunningFacts
    <2>2. ASSUME Executing(fs) = 1 PROVE RunningIn(fs)[1] = r
      <3>1. 1 \in 1..Executing(fs)
        BY <2>2
      <3>2. QED
        BY <1>1, <1>2, <3>1, RunningFacts
    <2>. HIDE DEF R, r
    <2>3. QED
      BY <2>1, <2>2
  <1>4. r \in R
    BY DEF Frame
  <1>. HIDE DEF R, r
  <1>5. CASE f.pc # "exec"
    <2>1. Len(rs) = 0
      BY <1>1, <1>2, <1>3, <1>5, RunningFacts
    <2>2. QED
      BY <1>3, <1>5, <2>1, EmptySeq DEF fs
  <1>6. CASE f.pc = "exec"
    <2>1. Len(rs) = 1 /\ rs[1] = r
      BY <1>1, <1>2, <1>3, <1>6, RunningFacts
    <2>2. rs = <<r>>
      BY <1>4, <2>1
    <2>3. QED
      BY <1>3, <1>6, <2>2 DEF r, fs
  <1>7. QED
    BY <1>5, <1>6

(* Two stacks look the same to the abstract store when the scripts they    *)
(* run are the same.                                                       *)
LEMMA SameRunning ==
  ASSUME NEW fs \in Seq(Frame), NEW gs \in Seq(Frame),
         Executing(fs) = Executing(gs),
         \A i \in 1..Executing(fs) :
           /\ fs[i].name = gs[i].name /\ fs[i].data = gs[i].data
           /\ fs[i].stored = gs[i].stored
  PROVE  RunningIn(fs) = RunningIn(gs)
  BY DEF RunningIn

LEMMA RunningKept ==
  ASSUME RefInv, NEW s \in Sessions, NEW fs,
         frames' = [frames EXCEPT ![s] = fs], RunningIn(fs) = RunningIn(frames[s])
  PROVE  UNCHANGED RunningScripts
  <1>1. \A q \in Sessions : RunningIn(frames'[q]) = RunningIn(frames[q])
    BY RefInvFacts
  <1>2. RunningScripts' = [q \in Sessions |-> RunningIn(frames'[q])]
    BY DEF RunningScripts, RunningIn
  <1>3. QED
    BY <1>1, <1>2, RunningDef

LEMMA RunningChanged ==
  ASSUME RefInv, NEW s \in Sessions, NEW fs,
         frames' = [frames EXCEPT ![s] = fs]
  PROVE  /\ RunningScripts[s] = RunningIn(frames[s])
         /\ RunningScripts' = [RunningScripts EXCEPT ![s] = RunningIn(fs)]
  <1>1. RunningScripts' = [q \in Sessions |-> RunningIn(frames'[q])]
    BY DEF RunningScripts, RunningIn
  <1>2. \A q \in Sessions :
          frames'[q] = IF q = s THEN fs ELSE frames[q]
    BY RefInvFacts
  <1>3. QED
    BY <1>1, <1>2, RunningDef

(* A step that the abstract store does not see.                            *)
LEMMA Stutter ==
  ASSUME UNCHANGED <<SavedScripts, ActiveSessions, OpenNames, RunningScripts>>
  PROVE  StoreStep
  BY DEF StoreStep, Abstract!storeVars

-----------------------------------------------------------------------------
(* Sessions that begin and end.                                            *)

LEMMA OpenSessionRef ==
  ASSUME RefInv, NEW s \in Sessions, OpenSession(s)
  PROVE  StoreStep
  <1>1. /\ pc[s] = "closed" /\ pc' = [pc EXCEPT ![s] = "idle"]
        /\ UNCHANGED <<store, writer, readers, frames, before>>
    BY DEF OpenSession, storageVars, history
  <1>2. UNCHANGED SavedScripts
    BY <1>1, ScriptsKept, RefInvFacts DEF HoldsObject
  <1>3. UNCHANGED <<OpenNames, RunningScripts>>
    BY <1>1 DEF OpenNames, RunningScripts
  <1>4. s \notin ActiveSessions /\ ActiveSessions' = ActiveSessions \cup {s}
    BY <1>1, RefInvFacts DEF ActiveSessions
  <1>5. Abstract!Begin(s)
    BY <1>2, <1>3, <1>4 DEF Abstract!Begin
  <1>6. QED
    BY <1>5 DEF StoreStep, Abstract!StoreNext

(* The handles and the frames of a session that ends are gone.             *)
LEMMA SessionGone ==
  ASSUME RefInv, NEW s \in Sessions, ReleaseHandles(s),
         frames' = [frames EXCEPT ![s] = << >>]
  PROVE  /\ OpenNames' = [OpenNames EXCEPT ![s] = {}]
         /\ RunningScripts' = [RunningScripts EXCEPT ![s] = << >>]
  <1>1. readers' = [readers EXCEPT ![s] = [n \in Names |-> 0]]
    BY DEF ReleaseHandles
  <1>2. OpenNames' = [OpenNames EXCEPT ![s] = {}]
    <2>1. /\ \A n \in Names : ~(readers'[s][n] > 0)
          /\ \A q \in Sessions : q # s => readers'[q] = readers[q]
      BY <1>1, RefInvFacts
    <2>2. OpenNames' = [q \in Sessions |-> {n \in Names : readers'[q][n] > 0}]
      BY DEF OpenNames
    <2>3. QED
      BY <2>1, <2>2 DEF OpenNames
  <1>3. QED
    BY <1>2, NothingRunning, RunningChanged

LEMMA CloseSessionRef ==
  ASSUME RefInv, NEW s \in Sessions, CloseSession(s)
  PROVE  StoreStep
  <1>1. /\ pc[s] \in {"idle", "dead"} /\ pc' = [pc EXCEPT ![s] = "closed"]
        /\ ReleaseHandles(s) /\ UNCHANGED <<frames, before>>
    BY DEF CloseSession
  <1>2. frames[s] = << >> /\ ~HoldsObject(s)
    BY <1>1, RefInvFacts DEF TypeOK, HoldsObject
  <1>3. UNCHANGED <<store, writer, before>>
    <2>1. \A n \in Names : writer[n] # s
      BY <1>2, SavingFacts, StorageAssumption
    <2>2. QED
      BY <1>1, <2>1, RefInvFacts DEF ReleaseHandles
  <1>4. UNCHANGED SavedScripts
    BY <1>1, <1>2, <1>3, ScriptsKept, RefInvFacts
  <1>5. frames' = [frames EXCEPT ![s] = << >>]
    BY <1>1, <1>2, RefInvFacts
  <1>6. /\ OpenNames' = [OpenNames EXCEPT ![s] = {}]
        /\ RunningScripts' = [RunningScripts EXCEPT ![s] = << >>]
    BY <1>1, <1>5, SessionGone
  <1>7. CASE pc[s] = "idle"
    <2>1. s \in ActiveSessions /\ ActiveSessions' = ActiveSessions \ {s}
      BY <1>1, <1>7, RefInvFacts DEF ActiveSessions
    <2>2. SavedScripts = [n \in Names |-> SavedScripts[n]]
      BY DEF SavedScripts
    <2>3. Abstract!End(s, {})
      BY <1>4, <1>6, <2>1, <2>2 DEF Abstract!End
    <2>4. QED
      BY <2>3 DEF StoreStep, Abstract!StoreNext
  <1>8. CASE pc[s] = "dead"
    <2>1. UNCHANGED ActiveSessions
      BY <1>1, <1>8, RefInvFacts DEF ActiveSessions
    <2>2. UNCHANGED OpenNames
      <3>1. \A n \in Names : readers[s][n] = 0
        BY <1>8 DEF RefInv, GoneHoldsNothing
      <3>2. UNCHANGED readers
        BY <1>1, <3>1, RefInvFacts DEF ReleaseHandles
      <3>3. QED
        BY <3>2 DEF OpenNames
    <2>3. UNCHANGED RunningScripts
      BY <1>1 DEF RunningScripts
    <2>4. QED
      BY <1>4, <2>1, <2>2, <2>3, Stutter
  <1>9. QED
    BY <1>1, <1>7, <1>8

(* A session that dies in a save, before the data was written, leaves the  *)
(* empty object behind: the abstract session ends with that script lost.   *)
LEMMA DieRef ==
  ASSUME RefInv, NEW s \in Sessions, pc[s] \notin {"closed", "dead"}, Die(s)
  PROVE  StoreStep
  <1>. DEFINE lost == {n \in Names : writer[n] = s /\ store[n] = Empty}
  <1>1. /\ pc' = [pc EXCEPT ![s] = "dead"]
        /\ frames' = [frames EXCEPT ![s] = << >>]
        /\ before' = [n \in Names |-> IF writer[n] = s THEN Absent ELSE before[n]]
        /\ ReleaseHandles(s)
    BY DEF Die, Leave
  <1>2. /\ OpenNames' = [OpenNames EXCEPT ![s] = {}]
        /\ RunningScripts' = [RunningScripts EXCEPT ![s] = << >>]
    BY <1>1, SessionGone
  <1>3. s \in ActiveSessions /\ ActiveSessions' = ActiveSessions \ {s}
    BY <1>1, RefInvFacts DEF ActiveSessions
  <1>4. \A n \in lost : ~Abstract!Pinned(n)
    <2>1. ASSUME NEW n \in lost, NEW q \in Sessions
          PROVE  readers[q][n] = 0
      BY SavingFacts, StorageAssumption
    <2>2. QED
      BY <2>1 DEF Abstract!Pinned, OpenNames
  <1>5. ASSUME NEW n \in Names
        PROVE  SavedScripts'[n] = IF n \in lost THEN Empty ELSE SavedScripts[n]
    <2>1. /\ writer'[n] = IF writer[n] = s THEN Nobody ELSE writer[n]
          /\ store'[n] = store[n]
      BY <1>1 DEF ReleaseHandles
    <2>2. CASE writer[n] = s
      <3>1. Saving(n) => store[n] = Empty
        BY <2>2, SavingFacts, StorageAssumption
      <3>2. ~Saving(n)'
        BY <2>1, <2>2 DEF Saving
      <3>3. QED
        BY <2>1, <2>2, <3>1, <3>2 DEF SavedScripts
    <2>3. CASE writer[n] # s
      <3>1. before'[n] = before[n] /\ writer'[n] = writer[n]
        BY <1>1, <2>1, <2>3
      <3>2. Saving(n)' <=> Saving(n)
        <4>1. writer[n] # Nobody => writer[n] \in Sessions
          BY RefInvFacts
        <4>2. QED
          BY <1>1, <2>3, <3>1, <4>1, RefInvFacts DEF Saving
      <3>3. QED
        BY <2>1, <2>3, <3>1, <3>2 DEF SavedScripts
    <2>4. QED
      BY <2>2, <2>3
  <1>6. SavedScripts' = [n \in Names |-> IF n \in lost THEN Empty ELSE SavedScripts[n]]
    BY <1>5 DEF SavedScripts
  <1>7. Abstract!End(s, lost)
    <2>. HIDE DEF lost
    <2>1. QED
      BY <1>2, <1>3, <1>4, <1>6, SameData DEF Abstract!End
  <1>8. lost \in SUBSET Names
    OBVIOUS
  <1>9. QED
    <2>. HIDE DEF lost
    <2>1. QED
      BY <1>7, <1>8 DEF StoreStep, Abstract!StoreNext

-----------------------------------------------------------------------------
(* Commands that are received, and answered without touching an object.    *)

LEMMA QuietRef ==
  ASSUME RefInv, NEW s \in Sessions, ~HoldsObject(s),
         pc[s] \notin {"closed", "dead"}, pc'[s] \notin {"closed", "dead"},
         \A q \in Sessions : q # s => pc'[q] = pc[q],
         UNCHANGED <<store, writer, readers, frames, before>>
  PROVE  StoreStep
  <1>1. UNCHANGED SavedScripts
    BY ScriptsKept
  <1>2. UNCHANGED ActiveSessions
    BY ActiveKept
  <1>3. UNCHANGED <<OpenNames, RunningScripts>>
    BY DEF OpenNames, RunningScripts
  <1>4. QED
    BY <1>1, <1>2, <1>3, Stutter

LEMMA CommandRef ==
  ASSUME RefInv, NEW s \in Sessions,
         \/ \E c \in Commands : Invoke(s, c)
         \/ RejectParams(s) \/ RunTa(s) \/ OutOfMemory(s)
         \/ SaveEntry(s) \/ SaveCreateFails(s)
  PROVE  StoreStep
  <1>1. pc[s] \in {"idle", "entry", "save_create"}
    BY DEF Invoke, RejectParams, RunTa, OutOfMemory, SaveEntry, SaveCreateFails, Enter
  <1>2. \E where \in {"idle", "entry", "save_create"} :
          pc' = [pc EXCEPT ![s] = where]
    BY DEF Invoke, RejectParams, RunTa, OutOfMemory, SaveEntry, SaveCreateFails, Respond, Leave
  <1>3. UNCHANGED <<store, writer, readers, frames, before>>
    BY DEF Invoke, RejectParams, RunTa, OutOfMemory, SaveEntry, SaveCreateFails, storageVars, history
  <1>4. QED
    BY <1>1, <1>2, <1>3, QuietRef, RefInvFacts DEF HoldsObject

-----------------------------------------------------------------------------
(* save_lua_script while it holds the object.                              *)

(* What such a step changes, seen from outside: at most the content of the *)
(* object it holds.                                                        *)
LEMMA SaveRef ==
  ASSUME RefInv, NEW s \in Sessions,
         pc[s] \notin {"closed", "dead"}, pc'[s] \notin {"closed", "dead"},
         \A q \in Sessions : q # s => pc'[q] = pc[q],
         NEW n \in Names, \A q \in Sessions : readers[q][n] = 0,
         UNCHANGED <<readers, frames>>,
         \A m \in Names : m # n => SavedScripts'[m] = SavedScripts[m],
         SavedScripts'[n] = SavedScripts[n] \/ SavedScripts'[n] \in Content
  PROVE  StoreStep
  <1>1. UNCHANGED ActiveSessions
    BY ActiveKept
  <1>2. UNCHANGED <<OpenNames, RunningScripts>>
    BY DEF OpenNames, RunningScripts
  <1>3. SavedScripts' = [SavedScripts EXCEPT ![n] = SavedScripts'[n]]
    BY DEF SavedScripts
  <1>4. CASE SavedScripts'[n] = SavedScripts[n]
    <2>1. UNCHANGED SavedScripts
      BY <1>3, <1>4 DEF SavedScripts
    <2>2. QED
      BY <1>1, <1>2, <2>1, Stutter
  <1>5. CASE SavedScripts'[n] \in Content
    <2>1. ~Abstract!Pinned(n)
      BY DEF Abstract!Pinned, OpenNames
    <2>2. PICK c \in Content : SavedScripts' = [SavedScripts EXCEPT ![n] = c]
      BY <1>3, <1>5
    <2>3. Abstract!Save(n, c)
      BY <1>1, <1>2, <2>1, <2>2 DEF Abstract!Save
    <2>4. CASE c \in {Absent, Empty}
      <3>1. Abstract!Lose(n)
        BY <2>3, <2>4, SameData DEF Abstract!Lose
      <3>2. QED
        BY <3>1 DEF StoreStep, Abstract!StoreNext
    <2>5. CASE c \in Content \ {Absent, Empty}
      BY <2>3, <2>5, SameData DEF StoreStep, Abstract!StoreNext
    <2>6. QED
      BY <2>4, <2>5
  <1>6. QED
    BY <1>4, <1>5

(* The abstract content of every other name is out of the step's reach.    *)
LEMMA OthersSaved ==
  ASSUME RefInv, NEW s \in Sessions, NEW n \in Names,
         \A q \in Sessions : q # s => pc'[q] = pc[q],
         writer[n] \in {s, Nobody},
         HoldsObject(s) => cmd[s].name = n,
         \A m \in Names : m # n =>
           store'[m] = store[m] /\ writer'[m] = writer[m] /\ before'[m] = before[m]
  PROVE  \A m \in Names : m # n => SavedScripts'[m] = SavedScripts[m]
  <1>1. SUFFICES ASSUME NEW m \in Names, m # n
                 PROVE  SavedScripts'[m] = SavedScripts[m]
    OBVIOUS
  <1>2. writer[m] # Nobody => writer[m] \in Sessions /\ writer[m] # s
    BY <1>1, SavingFacts, StorageAssumption
  <1>3. Saving(m)' <=> Saving(m)
    BY <1>1, <1>2 DEF Saving
  <1>4. QED
    BY <1>1, <1>3 DEF SavedScripts

LEMMA SaveCreateRef ==
  ASSUME RefInv, NEW s \in Sessions, SaveCreate(s)
  PROVE  StoreStep
  <1>. DEFINE n == cmd[s].name
  <1>1. /\ pc[s] = "save_create" /\ pc' = [pc EXCEPT ![s] = "save_write"]
        /\ CreateObject(s, n)
        /\ before' = [before EXCEPT ![n] = store[n]]
        /\ frames' = frames
    BY DEF SaveCreate
  <1>2. /\ writer[n] = Nobody /\ \A q \in Sessions : readers[q][n] = 0
        /\ store' = [store EXCEPT ![n] = Empty]
        /\ writer' = [writer EXCEPT ![n] = s] /\ UNCHANGED readers
    BY <1>1 DEF CreateObject, CanCreate
  <1>3. n \in Names
    BY DEF RefInv, IndInv, TypeOK, Command
  <1>4. \A q \in Sessions : q # s => pc'[q] = pc[q]
    BY <1>1, RefInvFacts
  <1>5. \A m \in Names : m # n => SavedScripts'[m] = SavedScripts[m]
    <2>. HIDE DEF n
    <2>1. QED
      BY <1>1, <1>2, <1>3, <1>4, OthersSaved, RefInvFacts DEF HoldsObject
  <1>6. SavedScripts'[n] = SavedScripts[n]
    <2>1. SavedScripts[n] = store[n]
      BY <1>2, <1>3 DEF SavedScripts, Saving
    <2>2. /\ writer'[n] = s /\ pc'[s] = "save_write" /\ before'[n] = store[n]
          /\ s # Nobody
      BY <1>1, <1>2, <1>3, RefInvFacts, StorageAssumption
    <2>3. QED
      BY <1>3, <2>1, <2>2 DEF SavedScripts, Saving
  <1>7. pc[s] \notin {"closed", "dead"} /\ pc'[s] \notin {"closed", "dead"}
    BY <1>1, RefInvFacts
  <1>8. QED
    <2>. HIDE DEF n
    <2>1. QED
      BY <1>1, <1>2, <1>3, <1>4, <1>5, <1>6, <1>7, SaveRef

(* The object held is written, closed or deleted: until it is written or   *)
(* deleted the name stands for what the save replaces, then for what the   *)
(* object holds.                                                           *)
LEMMA HeldRef ==
  ASSUME RefInv, NEW s \in Sessions,
         \/ SaveWrite(s) \/ SaveWriteFails(s) \/ SaveClose(s) \/ SaveDelete(s)
         \/ SaveDeleteFails(s)
  PROVE  StoreStep
  <1>. DEFINE n == cmd[s].name
  <1>1. HoldsObject(s)
    BY DEF SaveWrite, SaveWriteFails, SaveClose, SaveDelete, SaveDeleteFails, HoldsObject
  <1>2. /\ n \in Names /\ writer[n] = s /\ s # Nobody
        /\ \A q \in Sessions : readers[q][n] = 0
    BY <1>1, WriterAlone, StorageAssumption DEF RefInv
  <1>3. buf[s] \in Content /\ Absent \in Content /\ store[n] \in Content
    BY <1>2, ContentFacts DEF RefInv, IndInv, TypeOK, StorageTypeOK
  <1>4. /\ pc' \in {[pc EXCEPT ![s] = "save_close"], [pc EXCEPT ![s] = "save_delete"],
                    [pc EXCEPT ![s] = "idle"]}
        /\ UNCHANGED <<readers, frames>>
    BY DEF SaveWrite, SaveWriteFails, SaveClose, SaveDelete, SaveDeleteFails,
           WriteObject, CloseWriter, DeleteObject, Respond, Leave, storageVars
  <1>5. \A q \in Sessions : q # s => pc'[q] = pc[q]
    BY <1>4, RefInvFacts
  <1>6. pc[s] \notin {"closed", "dead"} /\ pc'[s] \notin {"closed", "dead"}
    BY <1>1, <1>4, RefInvFacts DEF HoldsObject
  <1>7. \A m \in Names : m # n =>
          store'[m] = store[m] /\ writer'[m] = writer[m] /\ before'[m] = before[m]
    BY RefInvFacts
    DEF SaveWrite, SaveWriteFails, SaveClose, SaveDelete, SaveDeleteFails,
        WriteObject, CloseWriter, DeleteObject, storageVars, history
  <1>8. \A m \in Names : m # n => SavedScripts'[m] = SavedScripts[m]
    <2>1. HoldsObject(s) => cmd[s].name = n
      OBVIOUS
    <2>. HIDE DEF n
    <2>2. QED
      BY <1>2, <1>5, <1>7, <2>1, OthersSaved
  <1>9. \/ SavedScripts'[n] = SavedScripts[n]
        \/ SavedScripts'[n] \in Content
    <2>1. CASE SaveWrite(s)
      <3>1. /\ store'[n] = buf[s] /\ writer'[n] = s /\ pc'[s] = "save_close"
        BY <1>2, <2>1, RefInvFacts DEF SaveWrite, WriteObject
      <3>2. SavedScripts'[n] = buf[s]
        BY <1>2, <3>1 DEF SavedScripts, Saving
      <3>3. QED
        BY <1>3, <3>2
    <2>2. CASE SaveWriteFails(s)
      <3>1. /\ store'[n] = store[n] /\ writer'[n] = s /\ before'[n] = before[n]
            /\ pc[s] = "save_write" /\ pc'[s] = "save_delete"
        BY <1>2, <2>2, RefInvFacts DEF SaveWriteFails, storageVars
      <3>2. QED
        BY <1>2, <3>1 DEF SavedScripts, Saving
    <2>3. CASE SaveClose(s)
      <3>1. /\ store'[n] = store[n] /\ writer'[n] = Nobody /\ pc[s] = "save_close"
        BY <1>2, <2>3, RefInvFacts DEF SaveClose, CloseWriter
      <3>2. QED
        BY <1>2, <3>1 DEF SavedScripts, Saving
    <2>4. CASE SaveDelete(s)
      <3>1. /\ store'[n] = Absent /\ writer'[n] = Nobody
        BY <1>2, <2>4, RefInvFacts DEF SaveDelete, DeleteObject
      <3>2. SavedScripts'[n] = Absent
        BY <1>2, <3>1 DEF SavedScripts, Saving
      <3>3. QED
        BY <1>3, <3>2
    <2>5. CASE SaveDeleteFails(s)
      <3>1. /\ store'[n] = store[n] /\ writer'[n] = Nobody
        BY <1>2, <2>5, RefInvFacts DEF SaveDeleteFails, CloseWriter
      <3>2. SavedScripts'[n] = store[n]
        BY <1>2, <3>1 DEF SavedScripts, Saving
      <3>3. QED
        BY <1>3, <3>2
    <2>6. QED
      BY <2>1, <2>2, <2>3, <2>4, <2>5
  <1>10. QED
    <2>. HIDE DEF n
    <2>1. QED
      BY <1>2, <1>4, <1>5, <1>6, <1>8, <1>9, SaveRef

-----------------------------------------------------------------------------
(* run_lua_script and run_saved_lua_script.                                *)

LEMMA RunKeeps ==
  ASSUME RefInv, NEW s \in Sessions, pc[s] \in {"entry", "run"},
         pc' \in {pc, [pc EXCEPT ![s] = "run"], [pc EXCEPT ![s] = "idle"]},
         UNCHANGED <<store, writer, before>>
  PROVE  s \in ActiveSessions /\ UNCHANGED <<SavedScripts, ActiveSessions>>
  <1>1. /\ \A q \in Sessions : q # s => pc'[q] = pc[q]
        /\ pc[s] \notin {"closed", "dead"} /\ pc'[s] \notin {"closed", "dead"}
        /\ ~HoldsObject(s)
    BY RefInvFacts DEF HoldsObject
  <1>2. QED
    BY <1>1, ScriptsKept, ActiveKept

LEMMA RunEntryRef ==
  ASSUME RefInv, NEW s \in Sessions, RunEntry(s)
  PROVE  StoreStep
  <1>1. pc[s] = "entry" /\ frames[s] = << >> /\ cmd[s] \in Command
    BY RefInvFacts DEF RunEntry, Enter, TypeOK
  <1>2. cmd[s].name \in Names
    BY <1>1 DEF Command
  <1>3. PICK d \in Content : frames' = [frames EXCEPT ![s] = <<SentFrame(cmd[s].name, d)>>]
    BY <1>1, ContentFacts DEF RunEntry, Command
  <1>. DEFINE n == cmd[s].name
              f == SentFrame(n, d)
              sent == [name |-> n, data |-> d, stored |-> FALSE]
  <1>4. /\ s \in ActiveSessions /\ UNCHANGED <<SavedScripts, ActiveSessions>>
        /\ UNCHANGED OpenNames
    BY <1>1, RunKeeps DEF RunEntry, storageVars, history, OpenNames
  <1>5. /\ f \in Frame /\ f.pc = "exec"
        /\ f.name = n /\ f.data = d /\ f.stored = FALSE
    <2>1. Absent \in Content /\ MaxCalls \in 0..MaxCalls
      BY ContentFacts, RuntimeAssumption
    <2>2. f = [pc |-> "exec", stored |-> FALSE, name |-> n, info |-> Absent,
               data |-> d, left |-> MaxCalls]
      BY DEF SentFrame
    <2>3. QED
      BY <1>2, <2>1, <2>2 DEF Frame
  <1>6. RunningIn(<<f>>) = <<sent>> /\ RunningIn(<< >>) = << >>
    <2>. HIDE DEF f
    <2>1. QED
      BY <1>5, OneFrame, NothingRunning
  <1>7. RunningScripts[s] = << >> /\ RunningScripts' = [RunningScripts EXCEPT ![s] = <<sent>>]
    <2>. HIDE DEF f, sent
    <2>1. frames' = [frames EXCEPT ![s] = <<f>>]
      BY <1>3 DEF f
    <2>2. QED
      BY <1>1, <1>6, <2>1, RunningChanged, ZenonT(40)
  <1>8. Abstract!StartSent(s, n, d)
    BY <1>4, <1>7 DEF Abstract!StartSent
  <1>9. QED
    BY <1>2, <1>8, SameData DEF StoreStep, Abstract!StoreNext

LEMMA RunSavedEntryRef ==
  ASSUME RefInv, NEW s \in Sessions, RunSavedEntry(s)
  PROVE  StoreStep
  <1>1. pc[s] = "entry" /\ frames[s] = << >> /\ cmd[s] \in Command
    BY RefInvFacts DEF RunSavedEntry, Enter, TypeOK
  <1>. DEFINE f == OpenFrame(cmd[s].name)
  <1>2. f \in Frame /\ f.pc = "open"
    BY <1>1, RefInvFacts, OpenFrameFacts DEF Command
  <1>3. UNCHANGED <<SavedScripts, ActiveSessions, OpenNames>>
    BY <1>1, RunKeeps DEF RunSavedEntry, storageVars, history, OpenNames
  <1>4. RunningIn(<<f>>) = RunningIn(<< >>)
    <2>. HIDE DEF f
    <2>1. QED
      BY <1>2, OneFrame, NothingRunning
  <1>5. UNCHANGED RunningScripts
    <2>1. frames' = [frames EXCEPT ![s] = <<f>>]
      BY DEF RunSavedEntry
    <2>. HIDE DEF f
    <2>2. QED
      BY <1>1, <1>4, <2>1, RunningKept
  <1>6. QED
    BY <1>3, <1>5, Stutter

(* The innermost frame, not inside call_lua, takes a step and still is     *)
(* not: nothing starts or stops.                                           *)
LEMMA TopRunning ==
  ASSUME RefInv, NEW s \in Sessions, pc[s] = "run", NEW f \in Frame,
         SetTop(s, f), Top(s).pc # "exec", f.pc # "exec"
  PROVE  UNCHANGED RunningScripts
  <1>. DEFINE k == Depth(s)
              fs == [frames[s] EXCEPT ![k] = f]
  <1>1. frames[s] \in Seq(Frame) /\ k \in Nat \ {0} /\ k = Len(frames[s])
    BY RefInvFacts, TopFacts DEF Depth
  <1>2. /\ fs \in Seq(Frame) /\ Len(fs) = k /\ fs[k] = f
        /\ \A i \in 1..k : i # k => fs[i] = frames[s][i]
    BY <1>1
  <1>3. frames' = [frames EXCEPT ![s] = fs]
    BY RefInvFacts DEF SetTop, Depth
  <1>4. fs # << >> /\ frames[s] # << >>
    BY <1>1, <1>2
  <1>5. frames[s][k].pc # "exec"
    BY DEF Top
  <1>. HIDE DEF fs, k
  <1>6. Executing(fs) = k - 1 /\ Executing(frames[s]) = k - 1
    BY <1>1, <1>2, <1>4, <1>5, RunningFacts
  <1>7. RunningIn(fs) = RunningIn(frames[s])
    BY <1>1, <1>2, <1>6, SameRunning
  <1>8. QED
    BY <1>3, <1>7, RunningKept

LEMMA QuietFrameRef ==
  ASSUME RefInv, NEW s \in Sessions,
         OpenFails(s) \/ GetObjectInfo(s) \/ ReadFails(s)
  PROVE  StoreStep
  <1>1. /\ pc[s] = "run" /\ Top(s).pc \in {"open", "info", "read"}
        /\ UNCHANGED <<storageVars, pc, history>>
    BY DEF OpenFails, GetObjectInfo, ReadFails, At
  <1>2. /\ Top(s) \in Frame /\ Top(s).name \in Names
        /\ store[Top(s).name] \in Content
    <2>1. Top(s) \in Frame
      BY <1>1, RefInvFacts, TopFacts
    <2>2. QED
      BY <2>1, RefInvFacts DEF Frame
  <1>3. PICK f \in Frame : SetTop(s, f) /\ f.pc # "exec"
    <2>1. /\ [Top(s) EXCEPT !.pc = "failed"] \in Frame
          /\ [Top(s) EXCEPT !.pc = "close"] \in Frame
          /\ [Top(s) EXCEPT !.pc = "read", !.info = store[Top(s).name]] \in Frame
          /\ [Top(s) EXCEPT !.pc = "failed"].pc = "failed"
          /\ [Top(s) EXCEPT !.pc = "close"].pc = "close"
          /\ [Top(s) EXCEPT !.pc = "read", !.info = store[Top(s).name]].pc = "read"
      BY <1>2 DEF Frame
    <2>2. QED
      BY <2>1 DEF OpenFails, GetObjectInfo, ReadFails
  <1>4. UNCHANGED RunningScripts
    BY <1>1, <1>3, TopRunning
  <1>5. UNCHANGED <<SavedScripts, ActiveSessions, OpenNames>>
    BY <1>1, RunKeeps DEF storageVars, history, OpenNames
  <1>6. QED
    BY <1>4, <1>5, Stutter

LEMMA OpenScriptRef ==
  ASSUME RefInv, NEW s \in Sessions, OpenScript(s)
  PROVE  StoreStep
  <1>. DEFINE n == Top(s).name
              f == [Top(s) EXCEPT !.pc = "info"]
  <1>1. /\ pc[s] = "run" /\ Top(s).pc = "open" /\ SetTop(s, f)
        /\ store[n] # Absent /\ writer[n] = Nobody
        /\ readers' = [readers EXCEPT ![s][n] = @ + 1]
        /\ UNCHANGED <<store, writer, pc, history>>
    BY DEF OpenScript, At, OpenObject, CanOpen
  <1>2. f \in Frame /\ f.pc = "info" /\ n \in Names
    BY <1>1, RefInvFacts, TopFacts DEF Frame
  <1>3. UNCHANGED RunningScripts
    BY <1>1, <1>2, TopRunning
  <1>4. s \in ActiveSessions /\ UNCHANGED <<SavedScripts, ActiveSessions>>
    BY <1>1, RunKeeps DEF history
  <1>5. SavedScripts[n] # Abstract!Absent
    BY <1>1, <1>2, SameData DEF SavedScripts, Saving
  <1>6. OpenNames' = [OpenNames EXCEPT ![s] = @ \cup {n}]
    <2>1. readers[s][n] \in Nat
      BY <1>2, RefInvFacts
    <2>2. /\ readers'[s][n] = readers[s][n] + 1
          /\ \A q \in Sessions, m \in Names :
               q # s \/ m # n => readers'[q][m] = readers[q][m]
      BY <1>1, <1>2, RefInvFacts
    <2>3. \A q \in Sessions :
            {m \in Names : readers'[q][m] > 0} =
              IF q = s THEN {m \in Names : readers[q][m] > 0} \cup {n}
                       ELSE {m \in Names : readers[q][m] > 0}
      BY <1>2, <2>1, <2>2
    <2>4. QED
      BY <2>3 DEF OpenNames
  <1>7. Abstract!Pin(s, n)
    BY <1>3, <1>4, <1>5, <1>6 DEF Abstract!Pin
  <1>8. QED
    BY <1>2, <1>7 DEF StoreStep, Abstract!StoreNext

(* A handle that is closed was not the one a running script depends on.    *)
LEMMA CloseScriptRef ==
  ASSUME RefInv, NEW s \in Sessions, CloseScript(s)
  PROVE  StoreStep
  <1>. DEFINE n == Top(s).name
              f == [Top(s) EXCEPT !.pc = "failed"]
  <1>1. /\ pc[s] = "run" /\ Top(s).pc = "close" /\ SetTop(s, f)
        /\ readers' = [readers EXCEPT ![s][n] = @ - 1]
        /\ UNCHANGED <<store, writer, pc, history>>
    BY DEF CloseScript, At, CloseReader
  <1>2. f \in Frame /\ f.pc = "failed" /\ n \in Names
    BY <1>1, RefInvFacts, TopFacts DEF Frame
  <1>3. UNCHANGED RunningScripts
    BY <1>1, <1>2, TopRunning
  <1>4. UNCHANGED <<SavedScripts, ActiveSessions>>
    BY <1>1, RunKeeps DEF history
  <1>5. /\ readers[s][n] \in Nat /\ readers[s][n] > 0
        /\ ran[s][n] # Absent => readers[s][n] > 1
    BY <1>1, RefInvFacts, TopKnown
  <1>6. /\ readers'[s][n] = readers[s][n] - 1
        /\ \A q \in Sessions, m \in Names :
             q # s \/ m # n => readers'[q][m] = readers[q][m]
    BY <1>1, <1>2, RefInvFacts
  <1>7. CASE readers[s][n] > 1
    <2>1. \A q \in Sessions, m \in Names :
            readers'[q][m] > 0 <=> readers[q][m] > 0
      BY <1>5, <1>6, <1>7
    <2>2. UNCHANGED OpenNames
      BY <2>1 DEF OpenNames
    <2>3. QED
      BY <1>3, <1>4, <2>2, Stutter
  <1>8. CASE ~(readers[s][n] > 1)
    <2>1. OpenNames' = [OpenNames EXCEPT ![s] = @ \ {n}]
      <3>1. \A q \in Sessions :
              {m \in Names : readers'[q][m] > 0} =
                IF q = s THEN {m \in Names : readers[q][m] > 0} \ {n}
                         ELSE {m \in Names : readers[q][m] > 0}
        BY <1>2, <1>5, <1>6, <1>8
      <3>2. QED
        BY <3>1 DEF OpenNames
    <2>2. \A i \in 1..Len(RunningScripts[s]) :
            RunningScripts[s][i].stored => RunningScripts[s][i].name # n
      <3>1. frames[s] \in Seq(Frame) /\ Depth(s) \in Nat \ {0}
        BY <1>1, RefInvFacts, TopFacts
      <3>2. Executing(frames[s]) = Depth(s) - 1
        BY <1>1, <3>1, RunningFacts DEF Top, Depth, Executing
      <3>3. ASSUME NEW i \in 1..(Depth(s) - 1), frames[s][i].stored
            PROVE  frames[s][i].name # n
        <4>1. i \in 1..Depth(s) /\ frames[s][i].pc = "exec"
          BY <3>1, RefInvFacts DEF TypeOK
        <4>2. ran[s][frames[s][i].name] # Absent
          BY <3>3, <4>1, RefInvFacts, ZenonT(40) DEF IndInv, FramesOK, FrameOK
        <4>3. QED
          BY <1>5, <1>8, <4>2
      <3>4. /\ Len(RunningIn(frames[s])) = Depth(s) - 1
            /\ \A i \in 1..(Depth(s) - 1) :
                 /\ RunningIn(frames[s])[i].name = frames[s][i].name
                 /\ RunningIn(frames[s])[i].stored = frames[s][i].stored
        <4>1. Depth(s) - 1 \in Nat
          BY <3>1
        <4>2. Len(RunningIn(frames[s])) = Depth(s) - 1
          BY <3>1, <3>2, RunningFacts
        <4>3. ASSUME NEW i \in 1..(Depth(s) - 1)
              PROVE  /\ RunningIn(frames[s])[i].name = frames[s][i].name
                     /\ RunningIn(frames[s])[i].stored = frames[s][i].stored
          <5>1. RunningIn(frames[s])[i] =
                  [name |-> frames[s][i].name, data |-> frames[s][i].data,
                   stored |-> frames[s][i].stored]
            BY <3>1, <3>2, <4>1, RunningAt
          <5>2. QED
            BY <5>1
        <4>4. QED
          BY <4>2, <4>3
      <3>5. RunningScripts[s] = RunningIn(frames[s])
        BY RunningDef
      <3>6. QED
        BY <3>3, <3>4, <3>5
    <2>3. Abstract!Unpin(s, n)
      BY <1>3, <1>4, <2>1, <2>2 DEF Abstract!Unpin
    <2>4. QED
      BY <1>2, <2>3 DEF StoreStep, Abstract!StoreNext
  <1>9. QED
    BY <1>7, <1>8

(* The instant a saved script starts is the read of its object.            *)
LEMMA ReadScriptRef ==
  ASSUME RefInv, NEW s \in Sessions, ReadScript(s)
  PROVE  StoreStep
  <1>. DEFINE n == Top(s).name
              f == CallLua(Top(s), store[n])
              k == Depth(s)
              fs == [frames[s] EXCEPT ![k] = f]
              r == [name |-> n, data |-> store[n], stored |-> TRUE]
  <1>1. /\ pc[s] = "run" /\ Top(s).pc = "read" /\ SetTop(s, f)
        /\ UNCHANGED <<storageVars, pc, before>>
    BY DEF ReadScript, At
  <1>2. /\ Top(s) \in Frame /\ n \in Names /\ Top(s).stored
        /\ readers[s][n] > 0 /\ writer[n] = Nobody
    BY <1>1, RefInvFacts, TopKnown
  <1>3. /\ f \in Frame /\ f.pc = "exec" /\ f.name = n /\ f.data = store[n]
        /\ f.stored = TRUE
    <2>1. Absent \in Content /\ MaxCalls \in 0..MaxCalls /\ store[n] \in Content
      BY <1>2, ContentFacts, RuntimeAssumption, RefInvFacts
    <2>2. QED
      BY <1>2, <2>1 DEF CallLua, Frame
  <1>4. frames[s] \in Seq(Frame) /\ k \in Nat \ {0} /\ k = Len(frames[s])
    BY <1>1, RefInvFacts, TopFacts DEF Depth
  <1>5. /\ fs \in Seq(Frame) /\ Len(fs) = k /\ fs[k] = f
        /\ \A i \in 1..k : i # k => fs[i] = frames[s][i]
    <2>. HIDE DEF f, k
    <2>1. QED
      BY <1>3, <1>4
  <1>6. frames' = [frames EXCEPT ![s] = fs]
    BY <1>1, RefInvFacts DEF SetTop, Depth
  <1>7. frames[s][k].pc # "exec"
    BY <1>1 DEF Top
  <1>8. RunningIn(fs) = Append(RunningIn(frames[s]), r)
    <2>. DEFINE R == [name : Names, data : Content, stored : BOOLEAN]
    <2>. HIDE DEF f, fs, k
    <2>1. fs # << >> /\ frames[s] # << >>
      BY <1>4, <1>5
    <2>2. Executing(fs) = k /\ Executing(frames[s]) = k - 1
      BY <1>3, <1>4, <1>5, <1>7, <2>1, RunningFacts
    <2>3. /\ RunningIn(fs) \in Seq(R) /\ Len(RunningIn(fs)) = k
          /\ RunningIn(frames[s]) \in Seq(R) /\ Len(RunningIn(frames[s])) = k - 1
      BY <1>4, <1>5, <2>2, RunningFacts
    <2>4. ASSUME NEW i \in 1..(k - 1)
          PROVE  RunningIn(fs)[i] = RunningIn(frames[s])[i]
      <3>1. i \in 1..k /\ i # k /\ k \in Nat /\ k - 1 \in Nat
        BY <1>4
      <3>2. RunningIn(fs)[i] = [name |-> fs[i].name, data |-> fs[i].data,
                                stored |-> fs[i].stored]
        BY <1>5, <2>2, <3>1, RunningAt
      <3>3. RunningIn(frames[s])[i] =
              [name |-> frames[s][i].name, data |-> frames[s][i].data,
               stored |-> frames[s][i].stored]
        BY <1>4, <2>2, <3>1, RunningAt
      <3>4. QED
        BY <1>5, <3>1, <3>2, <3>3
    <2>5. RunningIn(fs)[k] = r
      <3>1. k \in 1..k
        BY <1>4
      <3>2. QED
        BY <1>3, <1>5, <2>2, <3>1, RunningFacts
    <2>6. r \in R
      BY <1>2, RefInvFacts
    <2>7. PICK as \in Seq(R) : as = RunningIn(fs)
      BY <2>3
    <2>8. PICK bs \in Seq(R) : bs = RunningIn(frames[s])
      BY <2>3
    <2>. HIDE DEF R, r
    <2>9. /\ Append(bs, r) \in Seq(R) /\ Len(Append(bs, r)) = k
          /\ \A i \in 1..k : as[i] = Append(bs, r)[i]
      BY <1>4, <2>3, <2>4, <2>5, <2>6, <2>7, <2>8
    <2>10. QED
      BY <2>3, <2>7, <2>8, <2>9, SeqEqual
  <1>9. /\ UNCHANGED <<SavedScripts, ActiveSessions, OpenNames>>
        /\ SavedScripts[n] = store[n] /\ n \in OpenNames[s]
    <2>1. UNCHANGED <<SavedScripts, ActiveSessions>>
      BY <1>1, RunKeeps DEF storageVars
    <2>2. QED
      BY <1>1, <1>2, <2>1 DEF storageVars, OpenNames, SavedScripts, Saving
  <1>10. RunningScripts' = [RunningScripts EXCEPT ![s] = Append(@, r)]
    <2>. HIDE DEF fs, r
    <2>1. /\ RunningScripts[s] = RunningIn(frames[s])
          /\ RunningScripts' = [RunningScripts EXCEPT ![s] = RunningIn(fs)]
      BY <1>6, RunningChanged
    <2>2. QED
      BY <1>8, <2>1
  <1>11. Abstract!Start(s, n)
    BY <1>9, <1>10 DEF Abstract!Start
  <1>12. QED
    BY <1>2, <1>11 DEF StoreStep, Abstract!StoreNext

(* The stack a frame is popped from runs what it ran without that frame.   *)
LEMMA PopRef ==
  ASSUME RefInv, NEW s \in Sessions, ReturnJunk(s) \/ Finish(s)
  PROVE  StoreStep
  <1>. DEFINE k == Depth(s)
              fs == SubSeq(frames[s], 1, k - 1)
              R == [name : Names, data : Content, stored : BOOLEAN]
  <1>1. pc[s] = "run" /\ Top(s).pc \in {"failed", "exec"}
    BY DEF ReturnJunk, Finish, At
  <1>2. frames[s] \in Seq(Frame) /\ k \in Nat \ {0} /\ k = Len(frames[s])
    BY <1>1, RefInvFacts, TopFacts DEF Depth
  <1>3. /\ frames' = [frames EXCEPT ![s] = fs]
        /\ UNCHANGED <<storageVars, before>>
        /\ pc' \in {pc, [pc EXCEPT ![s] = "idle"]}
    BY DEF ReturnJunk, Finish, PopFrame, Depth, Respond, Leave, history
  <1>4. /\ fs \in Seq(Frame) /\ Len(fs) = k - 1
        /\ \A i \in 1..(k - 1) : fs[i] = frames[s][i]
    BY <1>2
  <1>5. \A i \in 1..(k - 1) : frames[s][i].pc = "exec"
    <2>1. \A i \in 1..k : i < k => frames[s][i].pc = "exec"
      BY RefInvFacts DEF TypeOK
    <2>. HIDE DEF k
    <2>2. QED
      BY <1>2, <2>1
  <1>6. UNCHANGED <<SavedScripts, ActiveSessions, OpenNames>>
    BY <1>1, <1>3, RunKeeps DEF storageVars, OpenNames
  <1>7. frames[s][k].pc = Top(s).pc
    BY DEF Top
  <1>. HIDE DEF k, fs
  <1>8. Executing(fs) = k - 1
    <2>1. fs = << >> <=> k - 1 = 0
      BY <1>2, <1>4, EmptySeq
    <2>2. CASE k - 1 = 0
      BY <1>4, <2>1, <2>2, RunningFacts
    <2>3. CASE k - 1 # 0
      <3>0. k \in Nat /\ k > 0
        BY <1>2
      <3>1. k - 1 \in 1..(k - 1)
        BY <2>3, <3>0
      <3>2. fs[Len(fs)].pc = "exec"
        BY <1>4, <1>5, <3>1
      <3>3. QED
        BY <1>4, <2>1, <2>3, <3>2, RunningFacts
    <2>4. QED
      BY <2>2, <2>3
  <1>9. frames[s] # << >>
    BY <1>2
  <1>10. CASE Top(s).pc = "failed"
    <2>1. Executing(frames[s]) = k - 1
      BY <1>2, <1>7, <1>9, <1>10, RunningFacts
    <2>2. RunningIn(fs) = RunningIn(frames[s])
      BY <1>2, <1>4, <1>8, <2>1, SameRunning
    <2>3. UNCHANGED RunningScripts
      BY <1>3, <2>2, RunningKept
    <2>4. QED
      BY <1>6, <2>3, Stutter
  <1>11. CASE Top(s).pc = "exec"
    <2>1. Executing(frames[s]) = k
      BY <1>2, <1>7, <1>9, <1>11, RunningFacts
    <2>2. PICK as \in Seq(R) : as = RunningIn(frames[s]) /\ Len(as) = k
      BY <1>2, <2>1, RunningFacts
    <2>3. PICK bs \in Seq(R) : bs = RunningIn(fs) /\ Len(bs) = k - 1
      BY <1>4, <1>8, RunningFacts
    <2>4. ASSUME NEW i \in 1..(k - 1)
          PROVE  bs[i] = as[i]
      <3>1. i \in 1..k /\ k \in Nat /\ k - 1 \in Nat
        BY <1>2
      <3>2. RunningIn(fs)[i] = [name |-> fs[i].name, data |-> fs[i].data,
                                stored |-> fs[i].stored]
        BY <1>4, <1>8, <3>1, RunningAt
      <3>3. RunningIn(frames[s])[i] =
              [name |-> frames[s][i].name, data |-> frames[s][i].data,
               stored |-> frames[s][i].stored]
        BY <1>2, <2>1, <3>1, RunningAt
      <3>4. QED
        BY <1>4, <2>2, <2>3, <3>2, <3>3
    <2>. HIDE DEF R
    <2>5. bs = SubSeq(as, 1, Len(as) - 1)
      <3>1. /\ SubSeq(as, 1, k - 1) \in Seq(R) /\ Len(SubSeq(as, 1, k - 1)) = k - 1
            /\ \A i \in 1..(k - 1) : SubSeq(as, 1, k - 1)[i] = as[i]
        BY <1>2, <2>2
      <3>2. QED
        BY <2>2, <2>3, <2>4, <3>1, SeqEqual
    <2>6. RunningScripts[s] = as /\ RunningScripts' = [RunningScripts EXCEPT ![s] = bs]
      BY <1>3, <2>2, <2>3, RunningChanged
    <2>7. as # << >>
      BY <1>2, <2>2, EmptySeq
    <2>8. Abstract!Stop(s)
      BY <1>6, <2>5, <2>6, <2>7 DEF Abstract!Stop
    <2>9. QED
      BY <2>8 DEF StoreStep, Abstract!StoreNext
  <1>12. QED
    BY <1>1, <1>10, <1>11

(* A script that calls another goes on running, and the other has not      *)
(* started.                                                                *)
LEMMA InternalCallRef ==
  ASSUME RefInv, NEW s \in Sessions, NEW n \in Names, InternalCall(s, n)
  PROVE  StoreStep
  <1>. DEFINE k == Depth(s)
              g == [Top(s) EXCEPT !.left = @ - 1]
              under == [frames[s] EXCEPT ![k] = g]
              fs == Append(under, OpenFrame(n))
  <1>1. /\ pc[s] = "run" /\ Top(s).pc = "exec" /\ Top(s).left > 0
        /\ frames' = [frames EXCEPT ![s] = fs]
        /\ UNCHANGED <<storageVars, pc, before>>
    BY DEF InternalCall, At, PushFrame, Depth, history
  <1>2. /\ frames[s] \in Seq(Frame) /\ k \in Nat \ {0} /\ k = Len(frames[s])
        /\ Top(s) \in Frame /\ Top(s) = frames[s][k]
    BY <1>1, RefInvFacts, TopFacts DEF Depth
  <1>3. /\ g \in Frame /\ g.name = Top(s).name /\ g.data = Top(s).data
        /\ g.stored = Top(s).stored
    <2>1. Top(s).left \in 0..MaxCalls /\ MaxCalls \in Nat
      BY <1>2, RuntimeAssumption DEF Frame
    <2>2. Top(s).left - 1 \in 0..MaxCalls
      BY <1>1, <2>1
    <2>3. QED
      BY <1>2, <2>2 DEF Frame
  <1>4. OpenFrame(n) \in Frame /\ OpenFrame(n).pc = "open"
    BY OpenFrameFacts
  <1>. HIDE DEF k, g
  <1>5. /\ under \in Seq(Frame) /\ Len(under) = k /\ under[k] = g
        /\ \A i \in 1..k : i # k => under[i] = frames[s][i]
    BY <1>2, <1>3
  <1>. HIDE DEF under
  <1>6. /\ fs \in Seq(Frame) /\ Len(fs) = k + 1 /\ fs[k + 1] = OpenFrame(n)
        /\ \A i \in 1..k : fs[i] = under[i]
    BY <1>2, <1>4, <1>5
  <1>. HIDE DEF fs
  <1>7. Executing(fs) = k /\ Executing(frames[s]) = k
    <2>1. fs # << >> /\ frames[s] # << >>
      BY <1>2, <1>6
    <2>2. QED
      BY <1>1, <1>2, <1>4, <1>6, <2>1, RunningFacts
  <1>8. \A i \in 1..k : /\ fs[i].name = frames[s][i].name
                        /\ fs[i].data = frames[s][i].data
                        /\ fs[i].stored = frames[s][i].stored
    BY <1>2, <1>3, <1>5, <1>6
  <1>9. UNCHANGED RunningScripts
    <2>1. RunningIn(fs) = RunningIn(frames[s])
      BY <1>2, <1>6, <1>7, <1>8, SameRunning
    <2>2. QED
      BY <1>1, <2>1, RunningKept
  <1>10. UNCHANGED <<SavedScripts, ActiveSessions, OpenNames>>
    BY <1>1, RunKeeps DEF storageVars, OpenNames
  <1>11. QED
    BY <1>9, <1>10, Stutter

-----------------------------------------------------------------------------
(* Every step.                                                             *)

LEMMA NextRef ==
  ASSUME RefInv, Next
  PROVE  StoreStep
  <1>1. ASSUME NEW s \in Sessions, ClientStep(s) PROVE StoreStep
    BY <1>1, OpenSessionRef, CloseSessionRef, CommandRef DEF ClientStep
  <1>2. ASSUME NEW s \in Sessions, Panic(s) PROVE StoreStep
    BY <1>2, DieRef DEF Panic
  <1>3. ASSUME NEW s \in Sessions, TAStep(s) PROVE StoreStep
    <2>1. CASE HeaderUnderflow(s)
      BY <2>1, DieRef DEF HeaderUnderflow, Enter
    <2>2. CASE SaveStep(s)
      BY <2>2, CommandRef, SaveCreateRef, HeldRef DEF SaveStep
    <2>3. CASE RunStep(s)
      <3>1. CASE NoLuaState(s) \/ WildRead(s)
        BY <3>1, DieRef DEF NoLuaState, WildRead, At
      <3>2. QED
        BY <2>3, <3>1, RunEntryRef, RunSavedEntryRef, OpenScriptRef, QuietFrameRef,
           ReadScriptRef, CloseScriptRef, PopRef, InternalCallRef DEF RunStep
    <2>4. QED
      BY <1>3, <2>1, <2>2, <2>3, CommandRef DEF TAStep
  <1>4. QED
    BY <1>1, <1>2, <1>3 DEF Next

(* Only a session that ends becomes closed or dead, and the TEE takes its  *)
(* handles back.                                                           *)
LEMMA GoneInd ==
  ASSUME IndInv, GoneHoldsNothing, [Next]_vars
  PROVE  GoneHoldsNothing'
  <1>1. RefInv
    BY DEF RefInv
  <1>2. ASSUME NEW s \in Sessions, ReleaseHandles(s),
               \A q \in Sessions : q # s => pc'[q] = pc[q]
        PROVE  GoneHoldsNothing'
    BY <1>1, <1>2, RefInvFacts DEF ReleaseHandles, GoneHoldsNothing
  <1>3. ASSUME NEW s \in Sessions, Die(s) PROVE GoneHoldsNothing'
    BY <1>1, <1>2, <1>3, RefInvFacts DEF Die, Leave
  <1>4. ASSUME NEW s \in Sessions, pc'[s] \notin {"closed", "dead"},
               \A q \in Sessions : q # s => pc'[q] = pc[q] /\ readers'[q] = readers[q]
        PROVE  GoneHoldsNothing'
    BY <1>4 DEF GoneHoldsNothing
  <1>5. ASSUME NEW s \in Sessions, ClientStep(s) PROVE GoneHoldsNothing'
    <2>1. CASE CloseSession(s)
      BY <1>1, <1>2, <2>1, RefInvFacts DEF CloseSession
    <2>2. CASE OpenSession(s) \/ \E c \in Commands : Invoke(s, c)
      <3>1. /\ pc' \in {[pc EXCEPT ![s] = "idle"], [pc EXCEPT ![s] = "entry"]}
            /\ UNCHANGED readers
        BY <2>2 DEF OpenSession, Invoke, storageVars
      <3>2. QED
        BY <1>1, <1>4, <3>1, RefInvFacts
    <2>3. QED
      BY <1>5, <2>1, <2>2 DEF ClientStep
  <1>6. ASSUME NEW s \in Sessions, SaveStep(s) PROVE GoneHoldsNothing'
    <2>1. /\ pc' \in {[pc EXCEPT ![s] = where] : where \in SaveSteps \cup {"idle"}}
          /\ UNCHANGED readers
      BY <1>6 DEF SaveStep, SaveEntry, SaveCreate, SaveCreateFails, SaveWrite,
                  SaveWriteFails, SaveClose, SaveDelete, SaveDeleteFails, CreateObject,
                  WriteObject, CloseWriter, DeleteObject, Respond, Leave, storageVars, SaveSteps
    <2>2. QED
      BY <1>1, <1>4, <2>1, RefInvFacts DEF SaveSteps
  <1>7. ASSUME NEW s \in Sessions, RunStep(s) PROVE GoneHoldsNothing'
    <2>1. CASE NoLuaState(s) \/ WildRead(s)
      BY <1>3, <2>1 DEF NoLuaState, WildRead
    <2>2. CASE OpenScript(s) \/ CloseScript(s)
      <3>1. /\ pc[s] = "run" /\ UNCHANGED pc
            /\ \A q \in Sessions : q # s => readers'[q] = readers[q]
        BY <1>1, <2>2, RefInvFacts
        DEF OpenScript, CloseScript, At, OpenObject, CloseReader
      <3>2. QED
        BY <1>4, <3>1
    <2>3. CASE RunEntry(s) \/ RunSavedEntry(s) \/ OpenFails(s) \/ GetObjectInfo(s)
               \/ ReadScript(s) \/ ReadFails(s) \/ ReturnJunk(s) \/ Finish(s)
               \/ \E n \in Names : InternalCall(s, n)
      <3>1. /\ pc[s] \in {"entry", "run"} /\ UNCHANGED readers
            /\ pc' \in {pc, [pc EXCEPT ![s] = "run"], [pc EXCEPT ![s] = "idle"]}
        BY <2>3
        DEF RunEntry, RunSavedEntry, OpenFails, GetObjectInfo, ReadScript, ReadFails,
            ReturnJunk, Finish, InternalCall, Enter, At, Respond, Leave, storageVars
      <3>2. QED
        BY <1>1, <1>4, <3>1, RefInvFacts
    <2>4. QED
      BY <1>7, <2>1, <2>2, <2>3 DEF RunStep
  <1>8. ASSUME NEW s \in Sessions, TAStep(s) PROVE GoneHoldsNothing'
    <2>1. CASE HeaderUnderflow(s)
      BY <1>3, <2>1 DEF HeaderUnderflow
    <2>2. CASE RejectParams(s) \/ RunTa(s) \/ OutOfMemory(s)
      <3>1. pc' = [pc EXCEPT ![s] = "idle"] /\ UNCHANGED readers
        BY <2>2 DEF RejectParams, RunTa, OutOfMemory, Respond, Leave, storageVars
      <3>2. QED
        BY <1>1, <1>4, <3>1, RefInvFacts
    <2>3. QED
      BY <1>6, <1>7, <1>8, <2>1, <2>2 DEF TAStep
  <1>9. ASSUME UNCHANGED vars PROVE GoneHoldsNothing'
    BY <1>9 DEF vars, storageVars, sessionVars, GoneHoldsNothing
  <1>10. QED
    BY <1>3, <1>5, <1>8, <1>9 DEF Next, Panic

LEMMA RefInvariance == Spec => []RefInv
  <1>1. Init => GoneHoldsNothing
    BY DEF Init, StorageInit, GoneHoldsNothing
  <1>2. IndInv /\ GoneHoldsNothing /\ [Next]_vars => GoneHoldsNothing'
    BY GoneInd
  <1>3. RefInv <=> IndInv /\ GoneHoldsNothing
    BY DEF RefInv
  <1>4. QED
    BY <1>1, <1>2, <1>3, Invariance, PTL DEF Spec

LEMMA InitRef == Init => Abstract!StoreInit
  <1>1. SUFFICES ASSUME Init PROVE Abstract!StoreInit
    OBVIOUS
  <1>2. SavedScripts = [n \in Names |-> Abstract!Absent]
    BY <1>1, SameData DEF Init, StorageInit, SavedScripts, Saving
  <1>3. ActiveSessions = {}
    BY <1>1 DEF Init, ActiveSessions
  <1>4. OpenNames = [s \in Sessions |-> {}]
    BY <1>1 DEF Init, StorageInit, OpenNames
  <1>5. RunningScripts = [s \in Sessions |-> << >>]
    BY <1>1, NothingRunning, RunningDef DEF Init
  <1>6. QED
    BY <1>2, <1>3, <1>4, <1>5 DEF Abstract!StoreInit

(* Seen from outside, saves and runs of saved scripts are the atomic steps *)
(* of ScriptStore, for any number of sessions, names, scripts and nested   *)
(* calls, with storage that fails at every call, the deletion of a half-   *)
(* made object included, and sessions that die at any moment.              *)
THEOREM Refinement == Spec => ImplementsScriptStore
  <1>1. RefInv /\ [Next]_vars => StoreStep
    <2>1. ASSUME UNCHANGED vars PROVE StoreStep
      <3>1. UNCHANGED <<SavedScripts, ActiveSessions, OpenNames, RunningScripts>>
        BY <2>1 DEF vars, storageVars, sessionVars, history, SavedScripts, Saving,
                    ActiveSessions, OpenNames, RunningScripts
      <3>2. QED
        BY <3>1, Stutter
    <2>2. QED
      BY <2>1, NextRef
  <1>2. QED
    BY <1>1, InitRef, RefInvariance, PTL
    DEF Spec, StoreStep, ImplementsScriptStore, Abstract!StoreSpec
=============================================================================
