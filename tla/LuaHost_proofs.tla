--------------------------- MODULE LuaHost_proofs ---------------------------
(***************************************************************************)
(* Proofs about LuaHost: any number of processes of any applications,      *)
(* started and ended in any order with any options, every call that can    *)
(* fail failing, each instance of the TA dying at any moment.              *)
(***************************************************************************)
EXTENDS LuaHost, LuaRuntimeTA_proofs

-----------------------------------------------------------------------------
(* The inductive invariant.                                                *)

SaveCommand(s, f, p) ==
  [op |-> "save", name |-> f.name, payload |-> p, enc |-> opts[s].encrypted]

Places == {"none", "opendir", "saving", "save_wait", "main", "call_wait", "exited"}

(* What the save loop sends for a file: its text, or nothing.              *)
SentFor(s, f) == {f.payload} \cup {p \in {NoText(f)} : f \in refused[s]}

(* Where the TA can be, for each place where the process can be.           *)
Stations(s) ==
  /\ todo[s] \subseteq Apps[s]
  /\ hpc[s] = "none" <=> pc[s] = "closed"
  /\ pc[s] = "dead" => resp[s].res = "TARGET_DEAD"
  /\ hpc[s] \in {"opendir", "saving", "main", "exited"} => pc[s] \in {"idle", "dead"}
  /\ hpc[s] = "save_wait" =>
       /\ pc[s] \in {"entry", "idle", "dead"} \cup SaveSteps
       /\ current[s] \in todo[s] /\ Wanted(s, current[s])
       /\ pc[s] \notin {"idle", "dead"} =>
            \E p \in SentFor(s, current[s]) :
              /\ cmd[s] = SaveCommand(s, current[s], p)
              /\ pc[s] # "entry" => buf[s] \in Received(p, opts[s].encrypted)
  /\ hpc[s] = "call_wait" =>
       /\ pc[s] \in {"entry", "run", "idle", "dead"}
       /\ pc[s] = "entry" =>
            /\ cmd[s].op \in {"run", "run_saved"}
            /\ cmd[s].op = "run" =>
                 \E f \in OwnFiles(s, cmd[s].name) :
                   /\ cmd[s].payload \in {f.payload, NoText(f)}
                   /\ cmd[s].enc = opts[s].encrypted

(* A script that was sent is the text of the file it is called by.         *)
OwnFrame(s, f) ==
  ~f.stored /\ HoldsScript(f.data) =>
    \E g \in Apps[s] :
      g.name = f.name /\ g.payload.script = f.data.script /\ Wanted(s, g)

SentOwn(s) == \A i \in 1..Depth(s) : OwnFrame(s, frames[s][i])

(* The TA has done with the save of the current file what it will do.      *)
Settled(s) ==
  \/ pc[s] \in {"save_close", "save_delete"}
  \/ pc[s] = "idle" /\ resp[s].res = "SUCCESS"

(* The file f has been dealt with in this life of the process.             *)
SavedBy(s, f) ==
  \/ hpc[s] \in {"main", "call_wait"}
  \/ hpc[s] \in {"saving", "save_wait"} /\ f \notin todo[s]
  \/ hpc[s] = "save_wait" /\ f = current[s] /\ Settled(s)

(* A script under a name of the process's own is the text of a file of     *)
(* that name, of one for its mode unless those were refused.               *)
MineAt(s, n) ==
  HoldsScript(store[n]) =>
    \E g \in Apps[s] :
      /\ g.name = n /\ g.payload.script = store[n].script
      /\ \/ Wanted(s, g)
         \/ \A h \in Apps[s] :
              h.name = n /\ Wanted(s, h) /\ SavedBy(s, h) => h \in refused[s]

Mine(s) == \A n \in Names : OwnName(s, n) => MineAt(s, n)

(* What is under the name of a file that was saved.                        *)
Kept(s, f) ==
  store[f.name] \in IF f.name \in torn THEN {Absent, Empty}
                    ELSE Received(f.payload, opts[s].encrypted)

Stored(s) ==
  \A f \in Apps[s] \ refused[s] :
    Wanted(s, f) /\ Uncontested(s, f) /\ SavedBy(s, f) => Kept(s, f)

ProcessInv(s) == Stations(s) /\ SentOwn(s) /\ Mine(s) /\ Stored(s)

Processes ==
  /\ hpc \in [Sessions -> Places] /\ opts \in [Sessions -> OptionSet]
  /\ todo \in [Sessions -> SUBSET File] /\ current \in [Sessions -> File \cup {NoFile}]
  /\ refused \in [Sessions -> SUBSET File]

HostInv == IndInv /\ Processes /\ \A s \in Sessions : ProcessInv(s)

-----------------------------------------------------------------------------
(* Facts about files, commands and contents.                               *)

LEMMA FileFacts ==
  ASSUME NEW s \in Sessions
  PROVE  /\ \A f \in Apps[s] : /\ f \in File /\ f # NoFile /\ f.name \in Names
                               /\ f.payload \in Payload /\ NoText(f) \in Payload
                               /\ NoText(f).kind = "none" /\ f.payload.script \in Scripts
         /\ MainCalls[s] \subseteq Names
  BY HostAssumption DEF File, NoText, Payload

(* What a handler receives, if it is text at all, is the text of the file. *)
LEMMA ReceivedText ==
  ASSUME NEW p \in Payload, NEW e \in BOOLEAN, NEW d \in Received(p, e)
  PROVE  /\ d \in Content /\ d \notin {Absent, Empty}
         /\ HoldsScript(d) => d.script = p.script /\ p.kind # "none"
  <1>1. d \in Content /\ d \notin {Absent, Empty}
    BY ContentFacts
  <1>2. QED
    BY <1>1 DEF Received, VerifyAndDecrypt, Text, Zeros, Garbled, Blank, HoldsScript

LEMMA NoScriptThere == ~HoldsScript(Absent) /\ ~HoldsScript(Empty)
  BY DEF HoldsScript, Absent, Empty

LEMMA HostTypes ==
  ASSUME HostInv
  PROVE  /\ IndInv /\ TypeOK
         /\ store \in [Names -> Content] /\ writer \in [Names -> Sessions \cup {Nobody}]
         /\ readers \in [Sessions -> [Names -> 0..MaxOpen]]
         /\ pc \in [Sessions -> {"closed", "idle", "dead", "entry", "run"} \cup SaveSteps]
         /\ cmd \in [Sessions -> Command] /\ buf \in [Sessions -> Content]
         /\ frames \in [Sessions -> Seq(Frame)] /\ resp \in [Sessions -> Response]
         /\ hpc \in [Sessions -> Places] /\ opts \in [Sessions -> OptionSet]
         /\ todo \in [Sessions -> SUBSET File] /\ current \in [Sessions -> File \cup {NoFile}]
         /\ refused \in [Sessions -> SUBSET File]
         /\ \A s \in Sessions : opts[s].encrypted \in BOOLEAN
  BY DEF HostInv, IndInv, TypeOK, StorageTypeOK, Processes, OptionSet

-----------------------------------------------------------------------------
(* Steps of one process.                                                   *)

(* A step that changes nothing of the other processes and their instances, *)
(* and nothing under names that none of its own files has.                 *)
OnlyOf(s) ==
  /\ \A q \in Sessions : q # s =>
       /\ pc'[q] = pc[q] /\ cmd'[q] = cmd[q] /\ buf'[q] = buf[q] /\ frames'[q] = frames[q]
       /\ resp'[q] = resp[q] /\ hpc'[q] = hpc[q] /\ opts'[q] = opts[q]
       /\ todo'[q] = todo[q] /\ current'[q] = current[q] /\ refused'[q] = refused[q]
  /\ \A n \in Names : (\A f \in Apps[s] : f.name # n) =>
       store'[n] = store[n] /\ (n \in torn' <=> n \in torn)

(* For a name of its own, MineAt is kept if there is no other script and   *)
(* no file was dealt with that is not refused.                             *)
LEMMA MineKept ==
  ASSUME NEW s \in Sessions, NEW n \in Names, MineAt(s, n),
         store'[n] = store[n],
         \A g \in Apps[s] : g.name = n /\ Wanted(s, g) => Wanted(s, g)',
         \A h \in Apps[s] :
           h.name = n /\ Wanted(s, h)' /\ SavedBy(s, h)' =>
             h \in refused'[s] \/ (Wanted(s, h) /\ SavedBy(s, h) /\ h \notin refused[s])
  PROVE  MineAt(s, n)'
  <1>. SUFFICES ASSUME HoldsScript(store[n])
                PROVE  \E g \in Apps[s] :
                         /\ g.name = n /\ g.payload.script = store[n].script
                         /\ \/ Wanted(s, g)'
                            \/ \A h \in Apps[s] :
                                 h.name = n /\ Wanted(s, h)' /\ SavedBy(s, h)' => h \in refused'[s]
    BY DEF MineAt
  <1>1. PICK g \in Apps[s] :
          /\ g.name = n /\ g.payload.script = store[n].script
          /\ \/ Wanted(s, g)
             \/ \A h \in Apps[s] :
                  h.name = n /\ Wanted(s, h) /\ SavedBy(s, h) => h \in refused[s]
    BY DEF MineAt
  <1>2. QED
    BY <1>1

LEMMA OthersKept ==
  ASSUME HostInv, NEW s \in Sessions, OnlyOf(s), ProcessInv(s)'
  PROVE  \A q \in Sessions : ProcessInv(q)'
  <1>. SUFFICES ASSUME NEW q \in Sessions, q # s PROVE ProcessInv(q)'
    OBVIOUS
  <1>1. /\ pc'[q] = pc[q] /\ cmd'[q] = cmd[q] /\ buf'[q] = buf[q] /\ frames'[q] = frames[q]
        /\ resp'[q] = resp[q] /\ hpc'[q] = hpc[q] /\ opts'[q] = opts[q]
        /\ todo'[q] = todo[q] /\ current'[q] = current[q] /\ refused'[q] = refused[q]
    BY DEF OnlyOf
  <1>2. ASSUME NEW n \in Names, OwnName(q, n)
        PROVE  store'[n] = store[n] /\ (n \in torn' <=> n \in torn)
    <2>1. \A f \in Apps[s] : f.name # n
      BY <1>2 DEF OwnName
    <2>2. QED
      BY <2>1 DEF OnlyOf
  <1>3. Stations(q) /\ SentOwn(q) /\ Mine(q) /\ Stored(q)
    BY DEF HostInv, ProcessInv
  <1>4. Stations(q)'
    BY <1>1, <1>3, ZenonT(40) DEF Stations, SaveCommand, SentFor, OwnFiles, Wanted
  <1>5. SentOwn(q)'
    BY <1>1, <1>3 DEF SentOwn, OwnFrame, Wanted, Depth
  <1>6. \A f : /\ Wanted(q, f)' <=> Wanted(q, f)
               /\ SavedBy(q, f)' <=> SavedBy(q, f)
               /\ Uncontested(q, f)' <=> Uncontested(q, f)
    BY <1>1 DEF Wanted, SavedBy, Settled, Uncontested, OwnName
  <1>7. Mine(q)'
    <2>. SUFFICES ASSUME NEW n \in Names, OwnName(q, n) PROVE MineAt(q, n)'
      BY DEF Mine, OwnName
    <2>1. MineAt(q, n) /\ store'[n] = store[n]
      BY <1>2, <1>3 DEF Mine
    <2>2. QED
      BY <1>1, <1>6, <2>1, MineKept
  <1>8. Stored(q)'
    <2>. SUFFICES ASSUME NEW f \in Apps[q] \ refused[q],
                         Wanted(q, f), Uncontested(q, f), SavedBy(q, f)
                  PROVE  Kept(q, f)'
      BY <1>1, <1>6 DEF Stored
    <2>1. f.name \in Names /\ OwnName(q, f.name) /\ Kept(q, f)
      BY <1>3, FileFacts DEF Stored, Uncontested
    <2>2. QED
      BY <1>1, <1>2, <2>1 DEF Kept
  <1>9. QED
    BY <1>4, <1>5, <1>7, <1>8 DEF ProcessInv

(* A step that leaves the store alone keeps what is in it, if every file   *)
(* it deals with is refused, and a refused file is not forgotten.          *)
LEMMA StoreKept ==
  ASSUME HostInv, NEW s \in Sessions, UNCHANGED <<store, torn>>, opts'[s] = opts[s],
         \A f \in Apps[s] : Wanted(s, f) /\ SavedBy(s, f)' =>
           f \in refused'[s] \/ (SavedBy(s, f) /\ f \notin refused[s])
  PROVE  Mine(s)' /\ Stored(s)'
  <1>1. \A f : Wanted(s, f)' <=> Wanted(s, f)
    BY DEF Wanted
  <1>2. Mine(s) /\ Stored(s)
    BY DEF HostInv, ProcessInv
  <1>3. Mine(s)'
    <2>. SUFFICES ASSUME NEW n \in Names, OwnName(s, n) PROVE MineAt(s, n)'
      BY DEF Mine, OwnName
    <2>1. MineAt(s, n)
      BY <1>2 DEF Mine
    <2>2. QED
      BY <1>1, <2>1, MineKept
  <1>4. Stored(s)'
    <2>. SUFFICES ASSUME NEW f \in Apps[s] \ refused'[s],
                         Wanted(s, f), Uncontested(s, f), SavedBy(s, f)'
                  PROVE  Kept(s, f)'
      BY <1>1 DEF Stored, Uncontested, OwnName
    <2>1. Kept(s, f)
      BY <1>2 DEF Stored
    <2>2. QED
      BY <2>1 DEF Kept
  <1>5. QED
    BY <1>3, <1>4

(* A process that is not inside a life of its own has dealt with nothing.  *)
LEMMA StoreKeptOutside ==
  ASSUME HostInv, NEW s \in Sessions, UNCHANGED <<store, torn>>,
         hpc'[s] \in {"none", "opendir", "exited"}
  PROVE  Mine(s)' /\ Stored(s)'
  <1>1. \A f : ~SavedBy(s, f)'
    BY DEF SavedBy
  <1>2. Mine(s)'
    <2>. SUFFICES ASSUME NEW n \in Names, OwnName(s, n), HoldsScript(store[n])
                  PROVE  \E g \in Apps[s] : g.name = n /\ g.payload.script = store[n].script
      BY <1>1 DEF Mine, MineAt, OwnName
    <2>1. QED
      BY DEF HostInv, ProcessInv, Mine, MineAt
  <1>3. QED
    BY <1>1, <1>2 DEF Stored

(* No step of a process itself moves its instance or an object, but for    *)
(* the commands it sends.                                                  *)
LEMMA ProcessStep ==
  ASSUME HostInv, NEW s \in Sessions,
         UNCHANGED <<store, torn, cmd, buf, frames, resp>>,
         pc'[s] = pc[s], hpc'[s] \in {"opendir", "saving", "main"}, hpc[s] # "none",
         pc[s] \in {"idle", "dead"}, todo'[s] \subseteq Apps[s],
         opts'[s] = opts[s],
         \A f \in Apps[s] : Wanted(s, f) /\ SavedBy(s, f)' =>
           f \in refused'[s] \/ (SavedBy(s, f) /\ f \notin refused[s])
  PROVE  ProcessInv(s)'
  <1>1. Stations(s) /\ SentOwn(s)
    BY DEF HostInv, ProcessInv
  <1>2. Stations(s)'
    BY <1>1 DEF Stations
  <1>3. SentOwn(s)'
    BY <1>1 DEF SentOwn, OwnFrame, Wanted, Depth
  <1>4. Mine(s)' /\ Stored(s)'
    BY StoreKept
  <1>5. QED
    BY <1>2, <1>3, <1>4 DEF ProcessInv

LEMMA NoFrames ==
  ASSUME HostInv, NEW s \in Sessions, pc[s] # "run"
  PROVE  frames[s] = << >> /\ Depth(s) = 0
  <1>1. frames[s] = << >>
    BY HostTypes DEF TypeOK
  <1>2. QED
    BY <1>1 DEF Depth

LEMMA LocalSteps ==
  ASSUME HostInv, NEW s \in Sessions,
         OpenDir(s) \/ SaveReturns(s) \/ RunMain(s)
           \/ (\E f \in Apps[s] : SkipFile(s, f) \/ SaveNotSent(s, f))
  PROVE  ProcessInv(s)' /\ OnlyOf(s)
  <1>1. Stations(s)
    BY DEF HostInv, ProcessInv
  <1>2. UNCHANGED vars /\ opts' = opts
    BY DEF OpenDir, SaveReturns, RunMain, SkipFile, SaveNotSent
  <1>3. UNCHANGED <<store, torn, pc, cmd, buf, frames, resp>>
    BY <1>2 DEF vars, sessionVars, storageVars, history
  <1>4. /\ hpc[s] \in {"opendir", "saving", "save_wait"} /\ pc[s] \in {"idle", "dead"}
        /\ hpc'[s] \in {"opendir", "saving", "main"}
        /\ \A q \in Sessions : q # s =>
             /\ hpc'[q] = hpc[q] /\ todo'[q] = todo[q] /\ current'[q] = current[q]
             /\ refused'[q] = refused[q]
    BY <1>1, HostTypes
    DEF Stations, OpenDir, SaveReturns, RunMain, SkipFile, SaveNotSent, Goto, Answered
  <1>5. OnlyOf(s)
    BY <1>2, <1>3, <1>4 DEF OnlyOf
  <1>6. todo'[s] \subseteq Apps[s]
    BY <1>1, HostTypes DEF Stations, OpenDir, SaveReturns, RunMain, SkipFile, SaveNotSent
  <1>7. ASSUME NEW f \in Apps[s], Wanted(s, f), SavedBy(s, f)', f \notin refused'[s]
        PROVE  SavedBy(s, f) /\ f \notin refused[s]
    <2>1. CASE OpenDir(s)
      BY <1>7, <2>1, HostTypes DEF OpenDir, SavedBy, Goto
    <2>2. CASE SaveReturns(s)
      <3>1. /\ hpc[s] = "save_wait" /\ hpc'[s] = "saving"
            /\ todo'[s] = todo[s] \ {current[s]}
            /\ refused'[s] = IF resp[s].res = "SUCCESS" THEN refused[s]
                             ELSE refused[s] \cup {current[s]}
        BY <2>2, HostTypes DEF SaveReturns, Goto
      <3>2. f \notin refused[s] /\ (f = current[s] => resp[s].res = "SUCCESS")
        BY <1>7, <3>1
      <3>3. f \notin todo[s] \/ f = current[s]
        BY <1>7, <3>1 DEF SavedBy
      <3>4. pc[s] = "dead" => resp[s].res # "SUCCESS"
        BY <1>1 DEF Stations
      <3>5. QED
        BY <1>4, <3>1, <3>2, <3>3, <3>4 DEF SavedBy, Settled
    <2>3. CASE RunMain(s)
      BY <1>7, <2>3, HostTypes DEF RunMain, SavedBy, Goto
    <2>4. CASE \E g \in Apps[s] : SkipFile(s, g)
      BY <1>7, <2>4, HostTypes DEF SkipFile, SavedBy, Wanted
    <2>5. CASE \E g \in Apps[s] : SaveNotSent(s, g)
      BY <1>7, <2>5, HostTypes DEF SaveNotSent, SavedBy
    <2>6. QED
      BY <2>1, <2>2, <2>3, <2>4, <2>5
  <1>8. ProcessInv(s)'
    BY <1>2, <1>3, <1>4, <1>6, <1>7, ProcessStep
  <1>9. QED
    BY <1>5, <1>8

LEMMA ExitStep ==
  ASSUME HostInv, NEW s \in Sessions, Exit(s), UNCHANGED vars,
         hpc[s] \in {"opendir", "saving", "main", "call_wait"}, pc[s] \in {"idle", "dead"}
  PROVE  ProcessInv(s)' /\ OnlyOf(s)
  <1>1. UNCHANGED <<store, torn, pc, cmd, buf, frames, resp>>
    BY DEF vars, sessionVars, storageVars, history
  <1>2. Stations(s) /\ Depth(s) = 0
    BY NoFrames DEF HostInv, ProcessInv
  <1>3. hpc'[s] = "exited" /\ todo'[s] = {}
    BY HostTypes DEF Exit
  <1>4. Stations(s)'
    BY <1>1, <1>2, <1>3 DEF Stations
  <1>5. SentOwn(s)'
    BY <1>1, <1>2 DEF SentOwn, Depth
  <1>6. Mine(s)' /\ Stored(s)'
    BY <1>1, <1>3, StoreKeptOutside
  <1>7. OnlyOf(s)
    BY <1>1, HostTypes DEF OnlyOf, Exit
  <1>8. QED
    BY <1>4, <1>5, <1>6, <1>7 DEF ProcessInv

LEMMA LeaveSteps ==
  ASSUME HostInv, NEW s \in Sessions,
         OpenDirFails(s) \/ SaveCrashes(s) \/ CallReturns(s) \/ EndMain(s)
  PROVE  ProcessInv(s)' /\ OnlyOf(s)
  <1>1. /\ UNCHANGED vars /\ hpc[s] \in {"opendir", "saving", "main", "call_wait"}
        /\ pc[s] \in {"idle", "dead"}
    BY DEF HostInv, ProcessInv, Stations, OpenDirFails, SaveCrashes, CallReturns, EndMain,
           Answered
  <1>2. CASE Exit(s)
    BY <1>1, <1>2, ExitStep
  <1>3. CASE CallReturns(s) /\ ~Exit(s)
    <2>1. /\ hpc[s] = "call_wait" /\ hpc' = [hpc EXCEPT ![s] = "main"]
          /\ UNCHANGED <<opts, todo, current, refused>>
      BY <1>3 DEF CallReturns, Goto
    <2>2. UNCHANGED <<store, torn, pc, cmd, buf, frames, resp>>
      BY <1>1 DEF vars, sessionVars, storageVars, history
    <2>3. OnlyOf(s)
      BY <2>1, <2>2, HostTypes DEF OnlyOf
    <2>4. hpc'[s] = "main" /\ todo'[s] \subseteq Apps[s]
      BY <2>1, HostTypes DEF HostInv, ProcessInv, Stations
    <2>5. \A f \in Apps[s] : SavedBy(s, f)
      BY <2>1 DEF SavedBy
    <2>6. QED
      BY <1>1, <2>1, <2>2, <2>3, <2>4, <2>5, ProcessStep
  <1>4. QED
    BY <1>2, <1>3 DEF OpenDirFails, SaveCrashes, CallReturns, EndMain

LEMMA StartStep ==
  ASSUME HostInv, NEW s \in Sessions, NEW o \in Options[s], Start(s, o)
  PROVE  ProcessInv(s)' /\ OnlyOf(s)
  <1>1. /\ hpc[s] = "none" /\ pc[s] = "closed" /\ pc' = [pc EXCEPT ![s] = "idle"]
        /\ hpc' = [hpc EXCEPT ![s] = "opendir"] /\ opts' = [opts EXCEPT ![s] = o]
        /\ UNCHANGED <<store, torn, cmd, buf, frames, resp, todo, current, refused>>
    BY DEF Start, OpenSession, Goto, storageVars, history
  <1>2. hpc'[s] = "opendir" /\ pc'[s] = "idle"
    BY <1>1, HostTypes
  <1>3. Stations(s) /\ Depth(s) = 0
    BY <1>1, NoFrames DEF HostInv, ProcessInv
  <1>4. Stations(s)'
    BY <1>1, <1>2, <1>3 DEF Stations
  <1>5. SentOwn(s)'
    BY <1>1, <1>3 DEF SentOwn, Depth
  <1>6. Mine(s)' /\ Stored(s)'
    BY <1>1, <1>2, StoreKeptOutside
  <1>7. OnlyOf(s)
    BY <1>1, HostTypes DEF OnlyOf
  <1>8. QED
    BY <1>4, <1>5, <1>6, <1>7 DEF ProcessInv

LEMMA EndSessionStep ==
  ASSUME HostInv, NEW s \in Sessions, EndSession(s)
  PROVE  ProcessInv(s)' /\ OnlyOf(s)
  <1>1. /\ hpc[s] = "exited" /\ pc' = [pc EXCEPT ![s] = "closed"]
        /\ hpc' = [hpc EXCEPT ![s] = "none"] /\ pc[s] \in {"idle", "dead"}
        /\ resp' = [resp EXCEPT ![s] = Answer("NONE", "none")]
        /\ UNCHANGED <<store, torn, cmd, buf, frames, opts, todo, current, refused>>
    BY DEF EndSession, CloseSession, ReleaseHandles, Goto
  <1>2. hpc'[s] = "none" /\ pc'[s] = "closed"
    BY <1>1, HostTypes
  <1>3. Stations(s) /\ Depth(s) = 0
    BY <1>1, NoFrames DEF HostInv, ProcessInv
  <1>4. Stations(s)'
    BY <1>1, <1>2, <1>3 DEF Stations
  <1>5. SentOwn(s)'
    BY <1>1, <1>3 DEF SentOwn, Depth
  <1>6. Mine(s)' /\ Stored(s)'
    BY <1>1, <1>2, StoreKeptOutside
  <1>7. OnlyOf(s)
    BY <1>1, HostTypes DEF OnlyOf
  <1>8. QED
    BY <1>4, <1>5, <1>6, <1>7 DEF ProcessInv

(* The effect of sending a command.                                        *)
LEMMA Sent ==
  ASSUME HostInv, NEW s \in Sessions, NEW c, Send(s, c), pc[s] \in {"idle", "dead"}
  PROVE  /\ UNCHANGED <<store, torn, buf, frames>>
         /\ \A q \in Sessions : q # s =>
              pc'[q] = pc[q] /\ cmd'[q] = cmd[q] /\ resp'[q] = resp[q]
         /\ \/ pc[s] = "dead" /\ UNCHANGED <<pc, cmd, resp>>
            \/ /\ pc[s] = "idle" /\ pc'[s] = "entry" /\ cmd'[s] = c
  BY HostTypes DEF Send, Invoke, vars, storageVars, sessionVars, history

LEMMA SendSaveStep ==
  ASSUME HostInv, NEW s \in Sessions, NEW f \in Apps[s],
         SaveScript(s, f) \/ SaveNothing(s, f)
  PROVE  ProcessInv(s)' /\ OnlyOf(s)
  <1>1. PICK p \in {f.payload, NoText(f)} :
          /\ SendSave(s, f, p)
          /\ \/ p = f.payload /\ refused' = refused
             \/ refused' = [refused EXCEPT ![s] = @ \cup {f}]
    BY DEF SaveScript, SaveNothing
  <1>2. /\ hpc[s] = "saving" /\ f \in todo[s] /\ Wanted(s, f)
        /\ Send(s, SaveCommand(s, f, p)) /\ current' = [current EXCEPT ![s] = f]
        /\ hpc' = [hpc EXCEPT ![s] = "save_wait"] /\ UNCHANGED <<opts, todo>>
    BY <1>1 DEF SendSave, SaveCommand, Goto
  <1>3. /\ hpc'[s] = "save_wait" /\ current'[s] = f
        /\ refused[s] \subseteq refused'[s] /\ refused'[s] \subseteq refused[s] \cup {f}
        /\ p = f.payload \/ (p = NoText(f) /\ f \in refused'[s])
        /\ \A q \in Sessions : q # s => refused'[q] = refused[q]
    BY <1>1, <1>2, HostTypes
  <1>4. Stations(s) /\ pc[s] \in {"idle", "dead"} /\ Depth(s) = 0
    BY <1>2, NoFrames DEF HostInv, ProcessInv, Stations
  <1>5. /\ UNCHANGED <<store, torn, buf, frames>>
        /\ \A q \in Sessions : q # s =>
             pc'[q] = pc[q] /\ cmd'[q] = cmd[q] /\ resp'[q] = resp[q]
        /\ \/ pc[s] = "dead" /\ UNCHANGED <<pc, cmd, resp>>
           \/ pc[s] = "idle" /\ pc'[s] = "entry" /\ cmd'[s] = SaveCommand(s, f, p)
    BY <1>2, <1>4, Sent
  <1>6. Stations(s)'
    <2>1. p \in SentFor(s, f)'
      BY <1>3 DEF SentFor
    <2>2. SaveCommand(s, f, p)' = SaveCommand(s, f, p) /\ Wanted(s, f)'
      BY <1>2 DEF SaveCommand, Wanted
    <2>3. QED
      BY <1>2, <1>3, <1>4, <1>5, <2>1, <2>2 DEF Stations
  <1>7. SentOwn(s)'
    BY <1>4, <1>5 DEF SentOwn, Depth
  <1>8. Mine(s)' /\ Stored(s)'
    <2>1. ASSUME NEW g \in Apps[s], SavedBy(s, g)', g \notin refused'[s]
          PROVE  SavedBy(s, g) /\ g \notin refused[s]
      <3>1. ~Settled(s)'
        BY <1>4, <1>5 DEF Settled, Stations
      <3>2. QED
        BY <1>2, <1>3, <2>1, <3>1 DEF SavedBy
    <2>2. QED
      BY <1>2, <1>5, <2>1, StoreKept
  <1>9. OnlyOf(s)
    BY <1>2, <1>3, <1>5, HostTypes DEF OnlyOf
  <1>10. QED
    BY <1>6, <1>7, <1>8, <1>9 DEF ProcessInv

(* The commands of TA_call.                                                *)
CallCommand(s, c) ==
  /\ c.op \in {"run", "run_saved"}
  /\ c.op = "run" =>
       \E f \in OwnFiles(s, c.name) :
         c.payload \in {f.payload, NoText(f)} /\ c.enc = opts[s].encrypted

LEMMA CallCommands ==
  ASSUME NEW s \in Sessions, NEW n \in MainCalls[s],
         CallSaved(s, n) \/ CallPass(s, n) \/ CallWrongPath(s, n)
  PROVE  \E c : Call(s, c) /\ CallCommand(s, c)
  <1>1. CASE CallSaved(s, n) \/ CallWrongPath(s, n)
    <2>1. CallCommand(s, RunSaved(n))
      BY DEF CallCommand, RunSaved
    <2>2. QED
      BY <1>1, <2>1 DEF CallSaved, CallWrongPath
  <1>2. CASE CallPass(s, n)
    <2>1. PICK f \in OwnFiles(s, n) : \E x \in {f.payload, NoText(f)} :
            Call(s, [op |-> "run", name |-> n, payload |-> x, enc |-> opts[s].encrypted])
      BY <1>2 DEF CallPass
    <2>. PICK p \in {f.payload, NoText(f)} :
           Call(s, [op |-> "run", name |-> n, payload |-> p, enc |-> opts[s].encrypted])
      BY <2>1
    <2>2. CallCommand(s, [op |-> "run", name |-> n, payload |-> p,
                          enc |-> opts[s].encrypted])
      BY <2>1 DEF CallCommand
    <2>3. QED
      BY <2>1, <2>2
  <1>3. QED
    BY <1>1, <1>2

LEMMA CallStep ==
  ASSUME HostInv, NEW s \in Sessions, NEW c, Call(s, c), CallCommand(s, c)
  PROVE  ProcessInv(s)' /\ OnlyOf(s)
  <1>1. /\ hpc[s] = "main" /\ Send(s, c)
        /\ hpc' = [hpc EXCEPT ![s] = "call_wait"] /\ UNCHANGED <<opts, todo, current, refused>>
    BY DEF Call, Goto
  <1>2. hpc'[s] = "call_wait"
    BY <1>1, HostTypes
  <1>3. Stations(s) /\ pc[s] \in {"idle", "dead"} /\ Depth(s) = 0
    BY <1>1, NoFrames DEF HostInv, ProcessInv, Stations
  <1>4. /\ UNCHANGED <<store, torn, buf, frames>>
        /\ \A q \in Sessions : q # s =>
             pc'[q] = pc[q] /\ cmd'[q] = cmd[q] /\ resp'[q] = resp[q]
        /\ \/ pc[s] = "dead" /\ UNCHANGED <<pc, cmd, resp>>
           \/ pc[s] = "idle" /\ pc'[s] = "entry" /\ cmd'[s] = c
    BY <1>1, <1>3, Sent
  <1>5. Stations(s)'
    BY <1>1, <1>2, <1>3, <1>4 DEF Stations, CallCommand, OwnFiles, Wanted
  <1>6. SentOwn(s)'
    BY <1>3, <1>4 DEF SentOwn, Depth
  <1>7. Mine(s)' /\ Stored(s)'
    <2>1. \A g : SavedBy(s, g)
      BY <1>1 DEF SavedBy
    <2>2. QED
      BY <1>1, <1>4, <2>1, StoreKept
  <1>8. OnlyOf(s)
    BY <1>1, <1>4, HostTypes DEF OnlyOf
  <1>9. QED
    BY <1>5, <1>6, <1>7, <1>8 DEF ProcessInv

-----------------------------------------------------------------------------
(* Steps of the instance of a process.                                     *)

(* A save is under way for the file the loop in main is at.                *)
LEMMA InSave ==
  ASSUME HostInv, NEW s \in Sessions, Enter(s, "save") \/ pc[s] \in SaveSteps
  PROVE  /\ hpc[s] = "save_wait" /\ current[s] \in todo[s] /\ current[s] \in Apps[s]
         /\ Wanted(s, current[s]) /\ current[s].name \in Names
         /\ \E p \in SentFor(s, current[s]) :
              /\ cmd[s] = SaveCommand(s, current[s], p)
              /\ pc[s] # "entry" => buf[s] \in Received(p, opts[s].encrypted)
         /\ cmd[s].name = current[s].name /\ cmd[s].op = "save"
  <1>1. Stations(s) /\ pc[s] \in {"entry"} \cup SaveSteps
    BY DEF HostInv, ProcessInv, Enter
  <1>2. hpc[s] \in {"save_wait", "call_wait"}
    BY <1>1, HostTypes DEF Stations, SaveSteps, Places
  <1>3. hpc[s] = "save_wait"
    BY <1>1, <1>2 DEF Stations, SaveSteps, Enter
  <1>4. /\ current[s] \in todo[s] /\ current[s] \in Apps[s] /\ Wanted(s, current[s])
        /\ \E p \in SentFor(s, current[s]) :
             /\ cmd[s] = SaveCommand(s, current[s], p)
             /\ pc[s] # "entry" => buf[s] \in Received(p, opts[s].encrypted)
    BY <1>1, <1>3 DEF Stations, SaveSteps
  <1>5. QED
    BY <1>3, <1>4, FileFacts DEF SaveCommand

(* What is in the buffer of a save is the text of its file, if it is text, *)
(* and came of the whole file, unless the file is refused already.         *)
LEMMA BufferHolds ==
  ASSUME HostInv, NEW s \in Sessions, pc[s] \in SaveSteps
  PROVE  /\ HoldsScript(buf[s]) => buf[s].script = current[s].payload.script
         /\ current[s] \notin refused[s] =>
              buf[s] \in Received(current[s].payload, opts[s].encrypted)
  <1>1. PICK p \in SentFor(s, current[s]) : buf[s] \in Received(p, opts[s].encrypted)
    BY InSave DEF SaveSteps
  <1>2. p \in Payload /\ (p = current[s].payload \/ (p.kind = "none" /\ current[s] \in refused[s]))
    BY <1>1, InSave, FileFacts DEF SentFor
  <1>3. HoldsScript(buf[s]) => buf[s].script = p.script /\ p.kind # "none"
    BY <1>1, <1>2, HostTypes, ReceivedText
  <1>4. p = current[s].payload \/ ~HoldsScript(buf[s])
    BY <1>2, <1>3
  <1>5. QED
    BY <1>1, <1>2, <1>3, <1>4

LEMMA InstanceDies ==
  ASSUME HostInv, NEW s \in Sessions, pc[s] # "closed", Die(s), UNCHANGED processVars
  PROVE  ProcessInv(s)' /\ OnlyOf(s)
  <1>1. /\ pc' = [pc EXCEPT ![s] = "dead"] /\ cmd' = [cmd EXCEPT ![s] = NoCommand]
        /\ buf' = [buf EXCEPT ![s] = Absent] /\ frames' = [frames EXCEPT ![s] = << >>]
        /\ resp' = [resp EXCEPT ![s] = Answer("TARGET_DEAD", "none")]
        /\ torn' = torn \cup {n \in Names : writer[n] = s /\ store[n] = Empty}
        /\ UNCHANGED <<store, hpc, opts, todo, current, refused>>
    BY DEF Die, Leave, ReleaseHandles, processVars
  <1>2. /\ pc'[s] = "dead" /\ frames'[s] = << >> /\ resp'[s].res = "TARGET_DEAD"
    BY <1>1, HostTypes DEF Answer
  <1>3. Stations(s) /\ Mine(s) /\ Stored(s)
    BY DEF HostInv, ProcessInv
  <1>4. Stations(s)'
    BY <1>1, <1>2, <1>3, HostTypes DEF Stations, Wanted, Places
  <1>5. SentOwn(s)'
    BY <1>2 DEF SentOwn, Depth
  <1>6. \A f : /\ Wanted(s, f)' <=> Wanted(s, f)
               /\ SavedBy(s, f)' => SavedBy(s, f)
               /\ SavedBy(s, f)' /\ hpc[s] = "save_wait" => f \notin todo[s]
    BY <1>1, <1>2 DEF Wanted, SavedBy, Settled
  <1>7. ASSUME NEW n \in Names, writer[n] = s
        PROVE  hpc[s] = "save_wait" /\ current[s] \in todo[s] /\ current[s].name = n
               /\ Wanted(s, current[s]) /\ current[s] \in Apps[s]
    <2>1. n \in Names /\ writer[n] # Nobody
      BY <1>7, StorageAssumption
    <2>2. pc[s] \in SaveSteps /\ cmd[s].name = n
      BY <1>7, <2>1, HostTypes DEF IndInv, HandleExclusion, SaveSteps
    <2>3. QED
      BY <2>2, InSave
  <1>8. Mine(s)'
    <2>. SUFFICES ASSUME NEW n \in Names, OwnName(s, n) PROVE MineAt(s, n)'
      BY DEF Mine, OwnName
    <2>1. MineAt(s, n)
      BY <1>3 DEF Mine
    <2>2. QED
      BY <1>1, <1>6, <2>1, MineKept
  <1>9. Stored(s)'
    <2>. SUFFICES ASSUME NEW f \in Apps[s] \ refused[s],
                         Wanted(s, f), Uncontested(s, f), SavedBy(s, f)'
                  PROVE  Kept(s, f)'
      BY <1>1, <1>6 DEF Stored, Uncontested, OwnName
    <2>1. Kept(s, f) /\ f.name \in Names
      BY <1>3, <1>6, FileFacts DEF Stored
    <2>2. writer[f.name] # s
      BY <1>6, <1>7, <2>1 DEF Uncontested
    <2>3. f.name \in torn' <=> f.name \in torn
      BY <1>1, <2>2
    <2>4. QED
      BY <1>1, <2>1, <2>3 DEF Kept
  <1>10. OnlyOf(s)
    <2>1. \A n \in Names : (\A f \in Apps[s] : f.name # n) => (n \in torn' <=> n \in torn)
      BY <1>1, <1>7
    <2>2. QED
      BY <1>1, <2>1, HostTypes DEF OnlyOf
  <1>11. QED
    BY <1>4, <1>5, <1>8, <1>9, <1>10 DEF ProcessInv

(* A step of a save that changes at most its own object.                   *)
LEMMA SaveKeeps ==
  ASSUME HostInv, NEW s \in Sessions, Enter(s, "save") \/ pc[s] \in SaveSteps,
         UNCHANGED <<frames, processVars>>,
         \A n \in Names : n # cmd[s].name =>
           store'[n] = store[n] /\ (n \in torn' <=> n \in torn),
         \A q \in Sessions : q # s =>
           pc'[q] = pc[q] /\ cmd'[q] = cmd[q] /\ buf'[q] = buf[q] /\ resp'[q] = resp[q],
         Stations(s)',
         \/ store'[cmd[s].name] = store[cmd[s].name] /\ ~Settled(s)'
         \/ HoldsScript(store'[cmd[s].name]) =>
              store'[cmd[s].name].script = current[s].payload.script,
         Settled(s)' /\ current[s] \notin refused[s] =>
           store'[cmd[s].name] \in
             IF cmd[s].name \in torn' THEN {Absent, Empty}
             ELSE Received(current[s].payload, opts[s].encrypted)
  PROVE  ProcessInv(s)' /\ OnlyOf(s)
  <1>. DEFINE f == current[s]
  <1>1. /\ hpc[s] = "save_wait" /\ f \in todo[s] /\ f \in Apps[s] /\ Wanted(s, f)
        /\ cmd[s].name = f.name /\ f.name \in Names
    BY InSave
  <1>2. SentOwn(s) /\ Mine(s) /\ Stored(s)
    BY DEF HostInv, ProcessInv
  <1>3. UNCHANGED <<hpc, opts, todo, current, refused>>
    BY DEF processVars
  <1>4. \A g : /\ Wanted(s, g)' <=> Wanted(s, g)
               /\ g # f /\ SavedBy(s, g)' => SavedBy(s, g)
               /\ ~Settled(s)' /\ SavedBy(s, g)' => SavedBy(s, g)
               /\ SavedBy(s, f)' => Settled(s)'
    BY <1>1, <1>3 DEF Wanted, SavedBy
  <1>5. SentOwn(s)'
    BY <1>2, <1>3 DEF SentOwn, OwnFrame, Wanted, Depth
  <1>6. Mine(s)'
    <2>. SUFFICES ASSUME NEW n \in Names, OwnName(s, n) PROVE MineAt(s, n)'
      BY DEF Mine, OwnName
    <2>1. MineAt(s, n)
      BY <1>2 DEF Mine
    <2>2. CASE n # f.name
      <3>1. \A h \in Apps[s] : h.name = n /\ SavedBy(s, h)' => SavedBy(s, h)
        BY <1>4, <2>2
      <3>2. store'[n] = store[n]
        BY <1>1, <2>2
      <3>3. QED
        BY <1>3, <1>4, <2>1, <3>1, <3>2, MineKept
    <2>3. CASE n = f.name /\ store'[n] = store[n] /\ ~Settled(s)'
      BY <1>3, <1>4, <2>1, <2>3, MineKept
    <2>4. CASE n = f.name /\ (HoldsScript(store'[n]) => store'[n].script = f.payload.script)
      BY <1>1, <1>4, <2>4 DEF MineAt
    <2>5. QED
      BY <1>1, <2>2, <2>3, <2>4
  <1>7. Stored(s)'
    <2>. SUFFICES ASSUME NEW g \in Apps[s] \ refused[s],
                         Wanted(s, g), Uncontested(s, g), SavedBy(s, g)'
                  PROVE  Kept(s, g)'
      BY <1>3, <1>4 DEF Stored, Uncontested, OwnName
    <2>1. CASE g = f
      BY <1>1, <1>3, <1>4, <2>1 DEF Kept
    <2>2. CASE g # f
      <3>1. g.name # f.name
        BY <1>1, <2>2 DEF Uncontested
      <3>2. /\ store'[g.name] = store[g.name] /\ (g.name \in torn' <=> g.name \in torn)
            /\ Kept(s, g)
        BY <1>1, <1>2, <1>4, <2>2, <3>1, FileFacts DEF Stored
      <3>3. QED
        BY <1>3, <3>2 DEF Kept
    <2>3. QED
      BY <2>1, <2>2
  <1>8. OnlyOf(s)
    BY <1>1, <1>3 DEF OnlyOf
  <1>9. QED
    BY <1>5, <1>6, <1>7, <1>8 DEF ProcessInv

(* The handler of a save returns.                                          *)
LEMMA SaveLeaves ==
  ASSUME HostInv, NEW s \in Sessions, Enter(s, "save") \/ pc[s] \in SaveSteps,
         UNCHANGED processVars, NEW r, Respond(s, r, "none"),
         r \in {"SUCCESS", "OUT_OF_MEMORY", "STORAGE_ERROR"}
  PROVE  /\ Stations(s)' /\ pc'[s] = "idle" /\ resp'[s].res = r
         /\ Settled(s)' <=> r = "SUCCESS"
         /\ \A q \in Sessions : q # s =>
              pc'[q] = pc[q] /\ cmd'[q] = cmd[q] /\ buf'[q] = buf[q] /\ resp'[q] = resp[q]
  <1>1. /\ pc' = [pc EXCEPT ![s] = "idle"] /\ resp' = [resp EXCEPT ![s] = Answer(r, "none")]
        /\ cmd' = [cmd EXCEPT ![s] = NoCommand] /\ buf' = [buf EXCEPT ![s] = Absent]
        /\ UNCHANGED <<hpc, opts, todo, current, refused>>
    BY DEF Respond, Leave, processVars
  <1>2. pc'[s] = "idle" /\ resp'[s].res = r
    BY <1>1, HostTypes DEF Answer
  <1>3. Stations(s) /\ hpc[s] = "save_wait"
    BY InSave DEF HostInv, ProcessInv
  <1>4. Stations(s)'
    BY <1>1, <1>2, <1>3, InSave DEF Stations, Wanted
  <1>5. QED
    BY <1>1, <1>2, <1>4, HostTypes DEF Settled

(* A save goes on to its next step, its command and its buffer unchanged.  *)
LEMMA SaveGoesOn ==
  ASSUME HostInv, NEW s \in Sessions, pc[s] \in SaveSteps, NEW where \in SaveSteps,
         pc' = [pc EXCEPT ![s] = where], UNCHANGED <<cmd, buf, resp, processVars>>
  PROVE  Stations(s)' /\ pc'[s] = where /\ (Settled(s)' <=> where \in {"save_close", "save_delete"})
  <1>1. UNCHANGED <<hpc, opts, todo, current, refused>>
    BY DEF processVars
  <1>2. pc'[s] = where /\ where \notin {"idle", "dead", "closed", "entry"}
    BY HostTypes DEF SaveSteps
  <1>3. Stations(s) /\ hpc[s] = "save_wait" /\ pc[s] \notin {"idle", "dead", "closed", "entry"}
    BY InSave DEF HostInv, ProcessInv, SaveSteps
  <1>4. Stations(s)'
    BY <1>1, <1>2, <1>3 DEF Stations, SaveCommand, SentFor, Wanted
  <1>5. QED
    BY <1>2, <1>4 DEF Settled, SaveSteps

LEMMA SaveProcess ==
  ASSUME HostInv, NEW s \in Sessions, SaveStep(s), UNCHANGED processVars
  PROVE  ProcessInv(s)' /\ OnlyOf(s)
  <1>. DEFINE f == current[s]
              e == opts[s].encrypted
              n == cmd[s].name
  <1>1. Enter(s, "save") \/ pc[s] \in SaveSteps
    BY DEF SaveStep, SaveEntry, SaveCreate, SaveCreateFails, SaveWrite, SaveWriteFails,
           SaveClose, SaveDelete, SaveDeleteFails, SaveSteps
  <1>2. /\ hpc[s] = "save_wait" /\ f \in todo[s] /\ f \in Apps[s] /\ Wanted(s, f)
        /\ n = f.name /\ n \in Names
    BY <1>1, InSave
  <1>3. /\ Stations(s) /\ UNCHANGED <<hpc, opts, todo, current, refused>> /\ e \in BOOLEAN
    BY HostTypes DEF HostInv, ProcessInv, processVars
  <1>4. CASE SaveEntry(s)
    <2>1. PICK p \in SentFor(s, f) : cmd[s] = SaveCommand(s, f, p)
      BY <1>1, InSave
    <2>. cmd[s].payload = p /\ cmd[s].enc = e
      BY <2>1 DEF SaveCommand
    <2>2. PICK d \in Received(p, e) : buf' = [buf EXCEPT ![s] = d]
      BY <1>4 DEF SaveEntry
    <2>3. /\ pc' = [pc EXCEPT ![s] = "save_create"] /\ Enter(s, "save")
          /\ UNCHANGED <<store, torn, cmd, frames, resp>>
      BY <1>4 DEF SaveEntry, storageVars, history
    <2>4. pc'[s] = "save_create" /\ buf'[s] = d
      BY <2>2, <2>3, HostTypes
    <2>5. Stations(s)'
      <3>1. SentFor(s, f)' = SentFor(s, f) /\ SaveCommand(s, f, p)' = SaveCommand(s, f, p)
            /\ Wanted(s, f)'
        BY <1>2, <1>3 DEF SentFor, SaveCommand, Wanted
      <3>2. \E x \in SentFor(s, current[s])' :
              /\ cmd'[s] = SaveCommand(s, current[s], x)'
              /\ buf'[s] \in Received(x, opts'[s].encrypted)
        BY <1>3, <2>1, <2>2, <2>3, <2>4, <3>1 DEF SaveCommand
      <3>3. QED
        BY <1>2, <1>3, <2>3, <2>4, <3>1, <3>2 DEF Stations, SaveSteps
    <2>6. ~Settled(s)'
      BY <2>4 DEF Settled
    <2>7. QED
      BY <1>1, <2>2, <2>3, <2>5, <2>6, HostTypes, SaveKeeps
  <1>5. CASE SaveCreate(s)
    <2>1. /\ store' = [store EXCEPT ![n] = Empty] /\ pc[s] = "save_create"
          /\ pc' = [pc EXCEPT ![s] = "save_write"] /\ torn' = torn \ {n}
          /\ UNCHANGED <<cmd, buf, frames, resp>>
      BY <1>5 DEF SaveCreate, CreateObject
    <2>2. Stations(s)' /\ ~Settled(s)'
      BY <2>1, SaveGoesOn DEF SaveSteps
    <2>3. /\ store'[n] = Empty /\ ~HoldsScript(Empty)
          /\ \A m \in Names : m # n => store'[m] = store[m]
      BY <1>2, <2>1, HostTypes, NoScriptThere
    <2>4. \A q \in Sessions : q # s => pc'[q] = pc[q]
      BY <2>1, HostTypes
    <2>. HIDE DEF n
    <2>5. QED
      BY <1>1, <2>1, <2>2, <2>3, <2>4, SaveKeeps DEF n
  <1>6. CASE SaveWrite(s)
    <2>1. /\ store' = [store EXCEPT ![n] = buf[s]] /\ pc[s] = "save_write"
          /\ pc' = [pc EXCEPT ![s] = "save_close"] /\ UNCHANGED <<cmd, buf, frames, resp, torn>>
      BY <1>6 DEF SaveWrite, WriteObject, history
    <2>2. Stations(s)'
      BY <2>1, SaveGoesOn DEF SaveSteps
    <2>3. /\ store'[n] = buf[s] /\ n \notin torn
          /\ \A m \in Names : m # n => store'[m] = store[m]
      BY <1>2, <2>1, HostTypes DEF IndInv, WriterHolds
    <2>4. /\ HoldsScript(buf[s]) => buf[s].script = f.payload.script
          /\ f \notin refused[s] => buf[s] \in Received(f.payload, e)
      BY <2>1, BufferHolds DEF SaveSteps
    <2>5. \A q \in Sessions : q # s => pc'[q] = pc[q]
      BY <2>1, HostTypes
    <2>6. QED
      BY <1>1, <2>1, <2>2, <2>3, <2>4, <2>5, SaveKeeps
  <1>7. CASE SaveWriteFails(s)
    <2>1. /\ pc[s] = "save_write" /\ pc' = [pc EXCEPT ![s] = "save_delete"]
          /\ torn' = torn \cup {n} /\ UNCHANGED <<store, cmd, buf, frames, resp>>
      BY <1>7 DEF SaveWriteFails, storageVars
    <2>2. Stations(s)'
      BY <2>1, SaveGoesOn DEF SaveSteps
    <2>3. store[n] = Empty /\ ~HoldsScript(Empty)
      BY <2>1, HostTypes, NoScriptThere DEF IndInv, WriterHolds
    <2>4. \A q \in Sessions : q # s => pc'[q] = pc[q]
      BY <2>1, HostTypes
    <2>5. QED
      BY <1>1, <2>1, <2>2, <2>3, <2>4, SaveKeeps
  <1>8. CASE SaveClose(s)
    <2>1. /\ pc[s] = "save_close" /\ Respond(s, "SUCCESS", "none")
          /\ UNCHANGED <<store, torn, frames>>
      BY <1>8 DEF SaveClose, CloseWriter
    <2>2. /\ Stations(s)'
          /\ \A q \in Sessions : q # s =>
               pc'[q] = pc[q] /\ cmd'[q] = cmd[q] /\ buf'[q] = buf[q] /\ resp'[q] = resp[q]
      BY <1>1, <2>1, SaveLeaves
    <2>3. store[n] = buf[s] /\ n \notin torn
      BY <2>1, HostTypes DEF IndInv, WriterHolds
    <2>4. /\ HoldsScript(buf[s]) => buf[s].script = f.payload.script
          /\ f \notin refused[s] => buf[s] \in Received(f.payload, e)
      BY <2>1, BufferHolds DEF SaveSteps
    <2>5. QED
      BY <1>1, <2>1, <2>2, <2>3, <2>4, SaveKeeps
  <1>9. CASE SaveDelete(s) \/ SaveDeleteFails(s)
    <2>1. /\ pc[s] = "save_delete" /\ Respond(s, "SUCCESS", "none")
          /\ store' \in {store, [store EXCEPT ![n] = Absent]}
          /\ UNCHANGED <<torn, frames>>
      BY <1>9 DEF SaveDelete, SaveDeleteFails, CloseWriter, DeleteObject
    <2>2. /\ Stations(s)'
          /\ \A q \in Sessions : q # s =>
               pc'[q] = pc[q] /\ cmd'[q] = cmd[q] /\ buf'[q] = buf[q] /\ resp'[q] = resp[q]
      BY <1>1, <2>1, SaveLeaves
    <2>3. store[n] = Empty /\ n \in torn
      BY <2>1, HostTypes DEF IndInv, WriterHolds
    <2>4. /\ store'[n] \in {Absent, Empty} /\ ~HoldsScript(store'[n])
          /\ \A m \in Names : m # n => store'[m] = store[m]
      BY <1>2, <2>1, <2>3, HostTypes, NoScriptThere
    <2>5. QED
      BY <1>1, <2>1, <2>2, <2>3, <2>4, SaveKeeps
  <1>10. CASE SaveCreateFails(s)
    <2>1. Respond(s, "STORAGE_ERROR", "none") /\ UNCHANGED <<store, torn, frames>>
      BY <1>10 DEF SaveCreateFails, storageVars, history
    <2>2. /\ Stations(s)' /\ ~Settled(s)'
          /\ \A q \in Sessions : q # s =>
               pc'[q] = pc[q] /\ cmd'[q] = cmd[q] /\ buf'[q] = buf[q] /\ resp'[q] = resp[q]
      BY <1>1, <2>1, SaveLeaves
    <2>3. QED
      BY <1>1, <2>1, <2>2, SaveKeeps
  <1>11. QED
    BY <1>4, <1>5, <1>6, <1>7, <1>8, <1>9, <1>10 DEF SaveStep

(* A step inside a run command, whose frames stay the application's own.   *)
LEMMA RunKeepsOwn ==
  ASSUME HostInv, NEW s \in Sessions, hpc[s] = "call_wait", pc[s] # "dead",
         UNCHANGED <<store, torn, processVars>>, pc'[s] \in {"run", "idle"},
         \A q \in Sessions : q # s =>
           /\ pc'[q] = pc[q] /\ cmd'[q] = cmd[q] /\ buf'[q] = buf[q]
           /\ frames'[q] = frames[q] /\ resp'[q] = resp[q],
         \A i \in 1..Len(frames'[s]) : OwnFrame(s, frames'[s][i])
  PROVE  ProcessInv(s)' /\ OnlyOf(s)
  <1>1. Stations(s) /\ UNCHANGED <<hpc, opts, todo, current, refused>>
    BY DEF HostInv, ProcessInv, processVars
  <1>2. Stations(s)'
    BY <1>1 DEF Stations
  <1>3. SentOwn(s)'
    BY <1>1 DEF SentOwn, OwnFrame, Wanted, Depth
  <1>4. Mine(s)' /\ Stored(s)'
    <2>1. \A f : SavedBy(s, f)
      BY DEF SavedBy
    <2>2. QED
      BY <1>1, <2>1, StoreKept
  <1>5. OnlyOf(s)
    BY <1>1 DEF OnlyOf
  <1>6. QED
    BY <1>2, <1>3, <1>4, <1>5 DEF ProcessInv

LEMMA InRun ==
  ASSUME HostInv, NEW s \in Sessions, Enter(s, "run") \/ Enter(s, "run_saved") \/ pc[s] = "run"
  PROVE  hpc[s] = "call_wait" /\ SentOwn(s)
  <1>1. Stations(s) /\ pc[s] \in {"entry", "run"}
    BY DEF HostInv, ProcessInv, Enter
  <1>2. hpc[s] \in {"save_wait", "call_wait"}
    BY <1>1, HostTypes DEF Stations, Places
  <1>3. hpc[s] # "save_wait"
    <2>. SUFFICES ASSUME hpc[s] = "save_wait" PROVE FALSE
      OBVIOUS
    <2>1. pc[s] = "entry"
      BY <1>1 DEF Stations, SaveSteps
    <2>2. PICK p : cmd[s] = SaveCommand(s, current[s], p)
      BY <1>1, <2>1 DEF Stations
    <2>3. cmd[s].op = "save"
      BY <2>2 DEF SaveCommand
    <2>4. QED
      BY <2>1, <2>3 DEF Enter
  <1>4. QED
    BY <1>2, <1>3 DEF HostInv, ProcessInv

(* A step that changes only the innermost frame.                           *)
LEMMA TopKeepsOwn ==
  ASSUME HostInv, NEW s \in Sessions, pc[s] = "run", NEW f, SetTop(s, f), OwnFrame(s, f),
         UNCHANGED <<store, torn, pc, cmd, buf, resp, processVars>>
  PROVE  ProcessInv(s)' /\ OnlyOf(s)
  <1>. DEFINE fs == [frames[s] EXCEPT ![Depth(s)] = f]
  <1>1. frames' = [frames EXCEPT ![s] = fs]
    BY HostTypes DEF SetTop, Depth
  <1>2. frames'[s] = fs /\ \A q \in Sessions : q # s => frames'[q] = frames[q]
    BY <1>1, HostTypes
  <1>3. hpc[s] = "call_wait" /\ SentOwn(s)
    BY InRun
  <1>4. \A i \in 1..Len(fs) : OwnFrame(s, fs[i])
    BY <1>3, HostTypes DEF SentOwn, Depth
  <1>. HIDE DEF fs
  <1>5. QED
    BY <1>2, <1>3, <1>4, RunKeepsOwn

LEMMA EntryKeepsOwn ==
  ASSUME HostInv, NEW s \in Sessions, RunEntry(s) \/ RunSavedEntry(s),
         UNCHANGED processVars
  PROVE  ProcessInv(s)' /\ OnlyOf(s)
  <1>1. hpc[s] = "call_wait" /\ Stations(s) /\ pc[s] = "entry"
    BY InRun DEF HostInv, ProcessInv, RunEntry, RunSavedEntry, Enter
  <1>2. /\ pc' = [pc EXCEPT ![s] = "run"] /\ UNCHANGED <<store, torn, cmd, buf, resp>>
    BY DEF RunEntry, RunSavedEntry, storageVars, history
  <1>3. PICK f : frames' = [frames EXCEPT ![s] = <<f>>] /\ OwnFrame(s, f)
    <2>1. CASE RunEntry(s)
      <3>1. PICK d \in Received(cmd[s].payload, cmd[s].enc) :
              frames' = [frames EXCEPT ![s] = <<SentFrame(cmd[s].name, d)>>]
        BY <2>1 DEF RunEntry
      <3>2. PICK f \in OwnFiles(s, cmd[s].name) :
              cmd[s].payload \in {f.payload, NoText(f)} /\ cmd[s].enc = opts[s].encrypted
        BY <1>1, <2>1 DEF RunEntry, Enter, Stations
      <3>3. /\ f \in Apps[s] /\ f.name = cmd[s].name /\ Wanted(s, f)
            /\ cmd[s].payload \in Payload /\ cmd[s].enc \in BOOLEAN
            /\ cmd[s].payload = f.payload \/ cmd[s].payload.kind = "none"
        BY <3>2, FileFacts, HostTypes DEF OwnFiles
      <3>4. HoldsScript(d) => d.script = f.payload.script
        BY <3>1, <3>3, ReceivedText
      <3>5. OwnFrame(s, SentFrame(cmd[s].name, d))
        BY <3>3, <3>4 DEF OwnFrame, SentFrame
      <3>6. QED
        BY <3>1, <3>5
    <2>2. CASE RunSavedEntry(s)
      <3>1. OwnFrame(s, OpenFrame(cmd[s].name))
        BY DEF OwnFrame, OpenFrame
      <3>2. QED
        BY <2>2, <3>1 DEF RunSavedEntry
    <2>3. QED
      BY <2>1, <2>2
  <1>4. /\ frames'[s] = <<f>> /\ pc'[s] = "run"
        /\ \A i \in 1..Len(<<f>>) : OwnFrame(s, <<f>>[i])
    BY <1>2, <1>3, HostTypes
  <1>5. QED
    BY <1>1, <1>2, <1>3, <1>4, HostTypes, RunKeepsOwn

LEMMA FramesKeepOwn ==
  ASSUME HostInv, NEW s \in Sessions, UNCHANGED processVars,
         OpenScript(s) \/ OpenFails(s) \/ GetObjectInfo(s) \/ ReadScript(s)
           \/ ReadFails(s) \/ CloseScript(s)
  PROVE  ProcessInv(s)' /\ OnlyOf(s)
  <1>1. pc[s] = "run" /\ UNCHANGED <<store, torn, pc, cmd, buf, resp>>
    BY DEF OpenScript, OpenFails, GetObjectInfo, ReadScript, ReadFails, CloseScript,
           At, OpenObject, CloseReader, storageVars, history
  <1>. DEFINE n == Top(s).name
  <1>2. Top(s) \in Frame /\ FrameOK(s, Top(s))
    BY <1>1, TopFacts, HostTypes DEF IndInv, FramesOK
  <1>3. Top(s).pc # "exec"
    BY DEF OpenScript, OpenFails, GetObjectInfo, ReadScript, ReadFails, CloseScript, At
  <1>4. Top(s).stored
    BY <1>2, <1>3 DEF FrameOK, Frame
  <1>5. PICK f : SetTop(s, f) /\ f.stored
    <2>1. /\ \A p \in {"info", "close", "failed"} : [Top(s) EXCEPT !.pc = p].stored
          /\ [Top(s) EXCEPT !.pc = "read", !.info = store[n]].stored
          /\ CallLua(Top(s), store[n]).stored
      BY <1>2, <1>4 DEF Frame, CallLua
    <2>2. QED
      BY <2>1
      DEF OpenScript, OpenFails, GetObjectInfo, ReadScript, ReadFails, CloseScript
  <1>6. OwnFrame(s, f)
    BY <1>5 DEF OwnFrame
  <1>7. QED
    BY <1>1, <1>5, <1>6, TopKeepsOwn

LEMMA PopKeepsOwn ==
  ASSUME HostInv, NEW s \in Sessions, UNCHANGED processVars, ReturnJunk(s) \/ Finish(s)
  PROVE  ProcessInv(s)' /\ OnlyOf(s)
  <1>. DEFINE fs == SubSeq(frames[s], 1, Depth(s) - 1)
  <1>1. /\ pc[s] = "run" /\ frames' = [frames EXCEPT ![s] = fs]
        /\ UNCHANGED <<store, torn>>
        /\ \/ UNCHANGED <<pc, cmd, buf, resp>>
           \/ /\ pc' = [pc EXCEPT ![s] = "idle"] /\ cmd' = [cmd EXCEPT ![s] = NoCommand]
              /\ buf' = [buf EXCEPT ![s] = Absent]
              /\ \E a : resp' = [resp EXCEPT ![s] = a]
    BY DEF ReturnJunk, Finish, At, PopFrame, Depth, Respond, Leave, storageVars, history
  <1>2. SentOwn(s) /\ hpc[s] = "call_wait"
    BY <1>1, InRun
  <1>3. frames[s] \in Seq(Frame) /\ Depth(s) \in Nat \ {0} /\ Depth(s) = Len(frames[s])
    BY <1>1, TopFacts, HostTypes DEF Depth
  <1>4. \A i \in 1..Len(fs) : i \in 1..Depth(s) /\ fs[i] = frames[s][i]
    BY <1>3
  <1>5. \A i \in 1..Len(fs) : OwnFrame(s, fs[i])
    BY <1>2, <1>4 DEF SentOwn
  <1>. HIDE DEF fs
  <1>6. frames'[s] = fs /\ pc'[s] \in {"run", "idle"}
    BY <1>1, HostTypes
  <1>7. \A q \in Sessions : q # s =>
          /\ pc'[q] = pc[q] /\ cmd'[q] = cmd[q] /\ buf'[q] = buf[q]
          /\ frames'[q] = frames[q] /\ resp'[q] = resp[q]
    BY <1>1, HostTypes
  <1>8. QED
    BY <1>1, <1>2, <1>5, <1>6, <1>7, RunKeepsOwn

LEMMA CallKeepsOwn ==
  ASSUME HostInv, NEW s \in Sessions, UNCHANGED processVars,
         NEW n \in Names, InternalCall(s, n)
  PROVE  ProcessInv(s)' /\ OnlyOf(s)
  <1>. DEFINE g == [Top(s) EXCEPT !.left = @ - 1]
              under == [frames[s] EXCEPT ![Depth(s)] = g]
              fs == Append(under, OpenFrame(n))
  <1>1. /\ pc[s] = "run" /\ frames' = [frames EXCEPT ![s] = fs]
        /\ UNCHANGED <<store, torn, pc, cmd, buf, resp>>
    BY DEF InternalCall, At, PushFrame, Depth, storageVars, history
  <1>2. SentOwn(s) /\ hpc[s] = "call_wait"
    BY <1>1, InRun
  <1>3. /\ frames[s] \in Seq(Frame) /\ Depth(s) \in Nat \ {0} /\ Depth(s) = Len(frames[s])
        /\ Depth(s) \in 1..Depth(s) /\ Top(s) \in Frame /\ Top(s) = frames[s][Depth(s)]
    BY <1>1, TopFacts, HostTypes DEF Depth
  <1>4. OwnFrame(s, g) /\ OwnFrame(s, OpenFrame(n))
    <2>1. g.name = Top(s).name /\ g.data = Top(s).data /\ g.stored = Top(s).stored
      BY <1>3 DEF Frame
    <2>2. OwnFrame(s, Top(s))
      BY <1>2, <1>3 DEF SentOwn
    <2>3. QED
      BY <2>1, <2>2 DEF OwnFrame, OpenFrame
  <1>5. \A i \in 1..Depth(s) : OwnFrame(s, frames[s][i])
    BY <1>2 DEF SentOwn
  <1>. HIDE DEF g
  <1>6. /\ Len(under) = Depth(s)
        /\ \A i \in 1..Depth(s) : under[i] = IF i = Depth(s) THEN g ELSE frames[s][i]
    BY <1>3
  <1>. HIDE DEF under
  <1>7. /\ Len(fs) = Depth(s) + 1 /\ fs[Depth(s) + 1] = OpenFrame(n)
        /\ \A i \in 1..Depth(s) : fs[i] = under[i]
    BY <1>3, <1>6
  <1>. HIDE DEF fs
  <1>8. \A i \in 1..Len(fs) : OwnFrame(s, fs[i])
    BY <1>3, <1>4, <1>5, <1>6, <1>7
  <1>9. frames'[s] = fs /\ pc'[s] = "run"
    BY <1>1, HostTypes
  <1>10. QED
    BY <1>1, <1>2, <1>8, <1>9, HostTypes, RunKeepsOwn

-----------------------------------------------------------------------------
(* Every step.                                                             *)

LEMMA MemoryStep ==
  ASSUME HostInv, NEW s \in Sessions, OutOfMemory(s), UNCHANGED processVars
  PROVE  ProcessInv(s)' /\ OnlyOf(s)
  <1>1. /\ Respond(s, "OUT_OF_MEMORY", "none") /\ UNCHANGED <<store, torn, frames>>
        /\ Enter(s, "save") \/ Enter(s, "run_saved")
    BY DEF OutOfMemory, storageVars, history
  <1>2. CASE Enter(s, "save")
    BY <1>1, <1>2, SaveLeaves, SaveKeeps
  <1>3. CASE Enter(s, "run_saved")
    <2>1. SentOwn(s) /\ hpc[s] = "call_wait" /\ pc[s] = "entry"
      BY <1>3, InRun DEF Enter
    <2>2. /\ pc'[s] = "idle"
          /\ \A q \in Sessions : q # s =>
               pc'[q] = pc[q] /\ cmd'[q] = cmd[q] /\ buf'[q] = buf[q] /\ resp'[q] = resp[q]
      BY <1>1, HostTypes DEF Respond, Leave
    <2>3. \A i \in 1..Len(frames'[s]) : OwnFrame(s, frames'[s][i])
      BY <1>1, <2>1 DEF SentOwn, Depth
    <2>4. QED
      BY <1>1, <2>1, <2>2, <2>3, RunKeepsOwn
  <1>4. QED
    BY <1>1, <1>2, <1>3

LEMMA InstanceSteps ==
  ASSUME HostInv, NEW s \in Sessions, TAStep(s) \/ Panic(s), UNCHANGED processVars
  PROVE  ProcessInv(s)' /\ OnlyOf(s)
  <1>1. ~RejectParams(s) /\ ~RunTa(s)
    <2>. SUFFICES ASSUME Enter(s, "bad") \/ Enter(s, "ta") PROVE FALSE
      BY DEF RejectParams, RunTa
    <2>1. Stations(s) /\ hpc[s] \in Places /\ pc[s] = "entry"
      BY HostTypes DEF HostInv, ProcessInv, Enter
    <2>2. hpc[s] \in {"save_wait", "call_wait"}
      BY <2>1 DEF Stations, Places
    <2>3. CASE hpc[s] = "call_wait"
      BY <2>1, <2>3 DEF Stations, Enter
    <2>4. CASE hpc[s] = "save_wait"
      <3>1. PICK p : cmd[s] = SaveCommand(s, current[s], p)
        BY <2>1, <2>4 DEF Stations
      <3>2. cmd[s].op = "save"
        BY <3>1 DEF SaveCommand
      <3>3. QED
        BY <3>2 DEF Enter
    <2>5. QED
      BY <2>2, <2>3, <2>4
  <1>2. CASE HeaderUnderflow(s) \/ NoLuaState(s) \/ WildRead(s) \/ Panic(s)
    BY <1>2, InstanceDies DEF HeaderUnderflow, NoLuaState, WildRead, Panic, Enter, At
  <1>3. CASE SaveStep(s)
    BY <1>3, SaveProcess
  <1>4. CASE RunStep(s)
    BY <1>2, <1>4, EntryKeepsOwn, FramesKeepOwn, PopKeepsOwn, CallKeepsOwn DEF RunStep
  <1>5. QED
    BY <1>1, <1>2, <1>3, <1>4, MemoryStep DEF TAStep

LEMMA ProcessSteps ==
  ASSUME HostInv, NEW s \in Sessions, HostStep(s) \/ \E o \in Options[s] : Start(s, o)
  PROVE  ProcessInv(s)' /\ OnlyOf(s)
  <1>1. ASSUME NEW n \in MainCalls[s],
               CallSaved(s, n) \/ CallPass(s, n) \/ CallWrongPath(s, n)
        PROVE  ProcessInv(s)' /\ OnlyOf(s)
    <2>1. PICK c : Call(s, c) /\ CallCommand(s, c)
      BY <1>1, CallCommands
    <2>2. QED
      BY <2>1, CallStep
  <1>2. QED
    BY <1>1, LocalSteps, LeaveSteps, StartStep, EndSessionStep, SendSaveStep DEF HostStep

(* What a process sends is a command of the TA.                            *)
LEMMA SendInd ==
  ASSUME HostInv, NEW s \in Sessions, NEW c \in Command, Send(s, c)
  PROVE  IndInv'
  BY HostTypes, InvokeInd, StutterInd DEF Send

LEMMA ProcessStepInd ==
  ASSUME HostInv, NEW s \in Sessions, HostStep(s) \/ \E o \in Options[s] : Start(s, o)
  PROVE  IndInv'
  <1>1. ASSUME UNCHANGED vars PROVE IndInv'
    BY <1>1, HostTypes, StutterInd
  <1>2. CASE OpenDir(s) \/ OpenDirFails(s) \/ SaveReturns(s) \/ SaveCrashes(s) \/ RunMain(s)
             \/ (\E f \in Apps[s] : SkipFile(s, f) \/ SaveNotSent(s, f))
             \/ CallReturns(s) \/ EndMain(s)
    BY <1>1, <1>2
    DEF OpenDir, OpenDirFails, SaveReturns, SaveCrashes, RunMain, SkipFile, SaveNotSent,
        CallReturns, EndMain
  <1>3. CASE EndSession(s) \/ \E o \in Options[s] : Start(s, o)
    BY <1>3, HostTypes, OpenSessionInd, CloseSessionInd DEF EndSession, Start
  <1>4. ASSUME NEW f \in Apps[s], SaveScript(s, f) \/ SaveNothing(s, f) PROVE IndInv'
    <2>1. PICK p \in {f.payload, NoText(f)} : SendSave(s, f, p)
      BY <1>4 DEF SaveScript, SaveNothing
    <2>2. SaveCommand(s, f, p) \in Command
      BY <2>1, FileFacts, HostTypes DEF SaveCommand, Command
    <2>3. QED
      BY <2>1, <2>2, SendInd DEF SendSave, SaveCommand
  <1>5. ASSUME NEW n \in MainCalls[s], CallSaved(s, n) \/ CallWrongPath(s, n) PROVE IndInv'
    <2>1. Payload # {}
      BY RuntimeAssumption DEF Command
    <2>2. (CHOOSE p \in Payload : TRUE) \in Payload
      BY <2>1
    <2>3. RunSaved(n) \in Command
      BY <2>2, FileFacts DEF RunSaved, Command
    <2>4. QED
      BY <1>5, <2>3, SendInd DEF CallSaved, CallWrongPath, Call
  <1>6. ASSUME NEW n \in MainCalls[s], CallPass(s, n) PROVE IndInv'
    <2>1. PICK f \in OwnFiles(s, n) : \E x \in {f.payload, NoText(f)} :
            Call(s, [op |-> "run", name |-> n, payload |-> x, enc |-> opts[s].encrypted])
      BY <1>6 DEF CallPass
    <2>. PICK p \in {f.payload, NoText(f)} :
           Call(s, [op |-> "run", name |-> n, payload |-> p, enc |-> opts[s].encrypted])
      BY <2>1
    <2>2. [op |-> "run", name |-> n, payload |-> p, enc |-> opts[s].encrypted] \in Command
      BY <2>1, FileFacts, HostTypes DEF Command, OwnFiles
    <2>3. QED
      BY <2>1, <2>2, SendInd DEF Call
  <1>7. QED
    BY <1>2, <1>3, <1>4, <1>5, <1>6 DEF HostStep

LEMMA ProcessTypes ==
  ASSUME HostInv, [HostNext]_hostVars
  PROVE  Processes'
  <1>. USE HostTypes DEF Processes, Places, OptionSet
  <1>1. Processes
    BY DEF HostInv
  <1>2. ASSUME UNCHANGED processVars PROVE Processes'
    BY <1>1, <1>2 DEF processVars
  <1>3. ASSUME NEW s \in Sessions, Exit(s) PROVE Processes'
    BY <1>1, <1>3 DEF Exit, DefaultOptions
  <1>4. ASSUME NEW s \in Sessions, NEW o \in Options[s], Start(s, o) PROVE Processes'
    BY <1>1, <1>4, HostAssumption DEF Start, Goto
  <1>5. ASSUME NEW s \in Sessions,
               OpenDir(s) \/ SaveReturns(s) \/ RunMain(s) \/ EndSession(s)
        PROVE  Processes'
    <2>1. CASE OpenDir(s)
      BY <1>1, <2>1, HostAssumption DEF OpenDir, Goto
    <2>2. CASE SaveReturns(s)
      <3>1. Stations(s) /\ hpc[s] = "save_wait"
        BY <2>2 DEF HostInv, ProcessInv, SaveReturns
      <3>2. current[s] \in File
        BY <3>1 DEF Stations
      <3>3. QED
        BY <1>1, <2>2, <3>2 DEF SaveReturns, Goto
    <2>3. CASE RunMain(s) \/ EndSession(s)
      BY <1>1, <2>3 DEF RunMain, EndSession, Goto
    <2>4. QED
      BY <1>5, <2>1, <2>2, <2>3
  <1>6. ASSUME NEW s \in Sessions, NEW f \in Apps[s],
               SkipFile(s, f) \/ SaveNotSent(s, f) \/ SaveScript(s, f) \/ SaveNothing(s, f)
        PROVE  Processes'
    <2>1. f \in File
      BY FileFacts
    <2>2. [refused EXCEPT ![s] = @ \cup {f}] \in [Sessions -> SUBSET File]
      BY <2>1
    <2>3. [todo EXCEPT ![s] = @ \ {f}] \in [Sessions -> SUBSET File]
      OBVIOUS
    <2>4. CASE SkipFile(s, f) \/ SaveNotSent(s, f)
      <3>1. /\ UNCHANGED <<hpc, opts, current>> /\ todo' = [todo EXCEPT ![s] = @ \ {f}]
            /\ refused' \in {refused, [refused EXCEPT ![s] = @ \cup {f}]}
        BY <2>4 DEF SkipFile, SaveNotSent
      <3>2. QED
        BY ONLY <1>1, <2>2, <2>3, <3>1 DEF Processes
    <2>5. CASE SaveScript(s, f) \/ SaveNothing(s, f)
      <3>1. /\ hpc' = [hpc EXCEPT ![s] = "save_wait"] /\ current' = [current EXCEPT ![s] = f]
            /\ UNCHANGED <<opts, todo>>
            /\ refused' \in {refused, [refused EXCEPT ![s] = @ \cup {f}]}
        BY <2>5 DEF SaveScript, SaveNothing, SendSave, Goto
      <3>2. [hpc EXCEPT ![s] = "save_wait"] \in [Sessions -> Places]
        OBVIOUS
      <3>3. [current EXCEPT ![s] = f] \in [Sessions -> File \cup {NoFile}]
        BY <2>1
      <3>4. QED
        BY ONLY <1>1, <2>2, <3>1, <3>2, <3>3 DEF Processes
    <2>6. QED
      BY <1>6, <2>4, <2>5
  <1>7. ASSUME NEW s \in Sessions, NEW c, Call(s, c) PROVE Processes'
    BY <1>1, <1>7 DEF Call, Goto
  <1>8. ASSUME NEW s \in Sessions, NEW n \in MainCalls[s],
               CallSaved(s, n) \/ CallPass(s, n) \/ CallWrongPath(s, n)
        PROVE  Processes'
    BY <1>7, <1>8 DEF CallSaved, CallPass, CallWrongPath
  <1>9. ASSUME NEW s \in Sessions, CallReturns(s) PROVE Processes'
    BY <1>1, <1>3, <1>9 DEF CallReturns, Goto
  <1>10. ASSUME NEW s \in Sessions, HostStep(s) PROVE Processes'
    BY <1>3, <1>5, <1>6, <1>8, <1>9, <1>10 DEF HostStep, OpenDirFails, SaveCrashes, EndMain
  <1>11. QED
    BY <1>2, <1>4, <1>10 DEF HostNext, TA, hostVars

LEMMA HostInitial == HostInit => HostInv
  <1>. SUFFICES ASSUME HostInit PROVE HostInv
    OBVIOUS
  <1>1. IndInv
    BY InitInd DEF HostInit
  <1>2. Processes
    BY DEF HostInit, Processes, Places, OptionSet, DefaultOptions
  <1>3. ASSUME NEW s \in Sessions PROVE ProcessInv(s)
    <2>1. /\ hpc[s] = "none" /\ pc[s] = "closed" /\ todo[s] = {} /\ Depth(s) = 0
          /\ \A n \in Names : store[n] = Absent
      BY DEF HostInit, Init, StorageInit, Depth
    <2>2. Stations(s) /\ Stored(s)
      BY <2>1 DEF Stations, Stored, SavedBy
    <2>3. SentOwn(s) /\ Mine(s)
      BY <2>1, NoScriptThere DEF SentOwn, Mine, MineAt
    <2>4. QED
      BY <2>2, <2>3 DEF ProcessInv
  <1>4. QED
    BY <1>1, <1>2, <1>3 DEF HostInv

LEMMA HostNextInd ==
  ASSUME HostInv, [HostNext]_hostVars
  PROVE  HostInv'
  <1>1. Processes'
    BY ProcessTypes
  <1>2. ASSUME NEW s \in Sessions, IndInv', ProcessInv(s)', OnlyOf(s) PROVE HostInv'
    BY <1>1, <1>2, OthersKept DEF HostInv
  <1>3. ASSUME NEW s \in Sessions, HostStep(s) \/ \E o \in Options[s] : Start(s, o)
        PROVE  HostInv'
    BY <1>2, <1>3, ProcessSteps, ProcessStepInd
  <1>4. ASSUME NEW s \in Sessions, TAStep(s) \/ Panic(s), UNCHANGED processVars
        PROVE  HostInv'
    <2>1. IndInv'
      BY <1>4, HostTypes, TAStepInd, DieInd DEF Panic
    <2>2. QED
      BY <1>2, <1>4, <2>1, InstanceSteps
  <1>5. ASSUME UNCHANGED hostVars PROVE HostInv'
    <2>1. UNCHANGED vars /\ UNCHANGED processVars
      BY <1>5 DEF hostVars
    <2>2. IndInv'
      BY <2>1, HostTypes, StutterInd
    <2>3. ASSUME NEW s \in Sessions PROVE ProcessInv(s)'
      <3>1. ProcessInv(s)
        BY DEF HostInv
      <3>2. UNCHANGED <<store, torn, pc, cmd, buf, frames, resp,
                        hpc, opts, todo, current, refused>>
        BY <2>1 DEF vars, storageVars, sessionVars, history, processVars
      <3>3. Stations(s)'
        BY <3>1, <3>2 DEF ProcessInv, Stations, SaveCommand, SentFor, OwnFiles, Wanted
      <3>4. SentOwn(s)'
        BY <3>1, <3>2 DEF ProcessInv, SentOwn, OwnFrame, Wanted, Depth
      <3>5. Mine(s)' /\ Stored(s)'
        <4>1. \A f : SavedBy(s, f)' <=> SavedBy(s, f)
          BY <3>2 DEF SavedBy, Settled
        <4>2. QED
          BY <3>2, <4>1, StoreKept
      <3>6. QED
        BY <3>3, <3>4, <3>5 DEF ProcessInv
    <2>4. QED
      BY <1>1, <2>2, <2>3 DEF HostInv
  <1>6. QED
    BY <1>3, <1>4, <1>5 DEF HostNext, TA

-----------------------------------------------------------------------------
(* The theorems.                                                           *)

(* The inductive invariant holds however many processes are started and    *)
(* whatever fails.                                                         *)
THEOREM HostInvariance == HostSpec => []HostInv
  <1>1. HostInv /\ [HostNext]_hostVars => HostInv'
    BY HostNextInd
  <1>2. QED
    BY <1>1, HostInitial, PTL DEF HostSpec

(* When main.lua runs, every script of its application that has its name   *)
(* for itself and was not refused is in secure storage as the TA made it   *)
(* of the file, or its object has no data because the TA could not write   *)
(* it: the save loop of main skips nothing, and neither another process    *)
(* nor the death of a session undoes a save.                               *)
THEOREM ScriptsSaved == HostSpec => []SavedBeforeMain
  <1>1. HostInv => SavedBeforeMain
    <2>. SUFFICES ASSUME HostInv, NEW s \in Sessions, hpc[s] = "main",
                         NEW f \in Apps[s] \ refused[s], Wanted(s, f), Uncontested(s, f)
                  PROVE  Kept(s, f)
      BY DEF SavedBeforeMain, Kept
    <2>1. QED
      BY DEF HostInv, ProcessInv, Stored, SavedBy
  <1>2. QED
    BY <1>1, HostInvariance, PTL

(* What a name runs that no other application uses, by TA_call or by calls *)
(* between the scripts, is at every depth of calls the text of a file of   *)
(* the application, one for its mode unless all those were refused.        *)
THEOREM OwnScripts == HostSpec => []OwnScriptsRun
  <1>1. HostInv => OwnScriptsRun
    <2>. SUFFICES ASSUME HostInv, NEW s \in Sessions, NEW i \in 1..Depth(s),
                         frames[s][i].pc = "exec", HoldsScript(frames[s][i].data),
                         OwnName(s, frames[s][i].name)
                  PROVE  \E g \in Apps[s] :
                           /\ g.name = frames[s][i].name
                           /\ g.payload.script = frames[s][i].data.script
                           /\ \/ Wanted(s, g)
                              \/ \A h \in Apps[s] :
                                   h.name = frames[s][i].name /\ Wanted(s, h)
                                     => h \in refused[s]
      BY DEF OwnScriptsRun
    <2>1. SentOwn(s) /\ Mine(s)
      BY DEF HostInv, ProcessInv
    <2>2. CASE ~frames[s][i].stored
      BY <2>1, <2>2 DEF SentOwn, OwnFrame
    <2>3. CASE frames[s][i].stored
      <3>1. hpc[s] = "call_wait"
        BY NoFrames, InRun
      <3>2. \A h : SavedBy(s, h)
        BY <3>1 DEF SavedBy
      <3>3. frames[s][i].name \in Names
        <4>1. frames[s] \in Seq(Frame) /\ i \in 1..Len(frames[s])
          BY HostTypes DEF Depth
        <4>2. frames[s][i] \in Frame
          BY <4>1
        <4>3. QED
          BY <4>2 DEF Frame
      <3>4. frames[s][i].data = store[frames[s][i].name]
        BY <2>3, HostTypes, RunningIsHeld
      <3>5. MineAt(s, frames[s][i].name)
        BY <2>1, <3>3 DEF Mine
      <3>6. QED
        BY <3>2, <3>4, <3>5 DEF MineAt
    <2>4. QED
      BY <2>2, <2>3
  <1>2. QED
    BY <1>1, HostInvariance, PTL
=============================================================================
