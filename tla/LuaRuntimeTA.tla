---------------------------- MODULE LuaRuntimeTA ----------------------------
(***************************************************************************)
(* The trusted application (ta/lua_runtime_ta.c).  The TA is multi-        *)
(* instance: every session is an instance with its own heap that serves    *)
(* one command at a time, and all of them share the objects in secure      *)
(* storage.  A command runs without interruption between two calls of the  *)
(* storage API, so those calls are where the sessions interleave: an       *)
(* action is the code from one storage call up to the next.                *)
(*                                                                         *)
(* A command that runs a script keeps a stack of frames, one for every     *)
(* run_saved_lua_script / call_lua that is active: a script calls others   *)
(* through internal_TA_call.  Values of arguments and results are the      *)
(* subject of LuaArguments; here a result is a value, a Lua error message, *)
(* or junk read through an uninitialised pointer.                          *)
(***************************************************************************)
EXTENDS TrustedStorage, Sequences

CONSTANTS
  Commands,       \* the commands the rich OS may send
  Calls,          \* Calls[t]: the names script text t passes to internal_TA_call
  MaxCalls,       \* internal calls one run of a script makes (scripts terminate)
  MaxDepth,       \* Lua states the TA heap has room for
  TEEFaults,      \* whether TEE calls may fail for want of memory or space or
                  \* by an I/O error
  Panics          \* whether an instance may die at any moment

Command == [op: {"run", "run_saved", "save", "ta", "bad"}, name: Names,
            payload: Payload, enc: BOOLEAN]

ASSUME RuntimeAssumption ==
  /\ Commands # {} /\ Commands \subseteq Command
  /\ Calls \in [Scripts -> SUBSET Names]
  /\ MaxCalls \in Nat /\ MaxDepth \in Nat \ {0}
  /\ TEEFaults \in BOOLEAN /\ Panics \in BOOLEAN

VARIABLES
  pc,       \* where a session is: no session, waiting, or inside a command
  cmd,      \* the command being served
  buf,      \* save_lua_script's data: the content about to be stored
  frames,   \* the active run_saved_lua_script / call_lua frames, innermost last
  resp,     \* the answer to the last command, until the next one is sent
  before,   \* history: the content the save in progress on a name replaced
  torn,     \* history: names whose last save got no data into the object: the
            \* write failed, or the session died before it
  ran       \* history: what a session last ran from a name, Absent if nothing

sessionVars == <<pc, cmd, buf, frames, resp>>
history == <<before, torn, ran>>
vars == <<storageVars, sessionVars, history>>

SaveSteps == {"save_create", "save_write", "save_close", "save_delete"}

Frame == [pc: {"open", "info", "read", "exec", "close", "failed"},
          stored: BOOLEAN, name: Names, info: Content, data: Content,
          left: 0..MaxCalls]

Response == [res: {"NONE", "SUCCESS", "BAD_PARAMETERS", "OUT_OF_MEMORY",
                   "STORAGE_ERROR", "TARGET_DEAD"},
             out: {"none", "value", "error", "junk"}]

Answer(r, o) == [res |-> r, out |-> o]

(* The value of cmd outside a command is never read.                      *)
NoCommand == CHOOSE c \in Commands : TRUE

(* A frame of run_saved_lua_script, before it opens the object.            *)
OpenFrame(n) == [pc |-> "open", stored |-> TRUE, name |-> n, info |-> Absent,
                 data |-> Absent, left |-> 0]

(* call_lua: a new Lua state loads c and is about to run it.               *)
CallLua(f, c) ==
  [f EXCEPT !.pc = "exec", !.info = Absent, !.data = c, !.left = MaxCalls]

(* The frame of a script that came with the command.                       *)
SentFrame(n, c) == [pc |-> "exec", stored |-> FALSE, name |-> n, info |-> Absent,
                    data |-> c, left |-> MaxCalls]

Depth(s) == Len(frames[s])
Top(s) == frames[s][Depth(s)]
SetTop(s, f) == frames' = [frames EXCEPT ![s] = [@ EXCEPT ![Len(@)] = f]]
PushFrame(s, f, g) ==
  frames' = [frames EXCEPT ![s] = Append([@ EXCEPT ![Len(@)] = f], g)]
PopFrame(s) == frames' = [frames EXCEPT ![s] = SubSeq(@, 1, Len(@) - 1)]

Init ==
  /\ StorageInit
  /\ pc = [s \in Sessions |-> "closed"]
  /\ cmd = [s \in Sessions |-> NoCommand]
  /\ buf = [s \in Sessions |-> Absent]
  /\ frames = [s \in Sessions |-> << >>]
  /\ resp = [s \in Sessions |-> Answer("NONE", "none")]
  /\ before = [n \in Names |-> Absent]
  /\ torn = {}
  /\ ran = [s \in Sessions |-> [n \in Names |-> Absent]]

-----------------------------------------------------------------------------
(* Sessions and the way a command ends.                                    *)

(* TA_CreateEntryPoint and TA_OpenSessionEntryPoint.                       *)
OpenSession(s) ==
  /\ pc[s] = "closed"
  /\ pc' = [pc EXCEPT ![s] = "idle"]
  /\ UNCHANGED <<storageVars, cmd, buf, frames, resp, history>>

(* TA_CloseSessionEntryPoint and TA_DestroyEntryPoint do nothing; the TEE  *)
(* releases what the instance held.                                        *)
CloseSession(s) ==
  /\ pc[s] \in {"idle", "dead"}
  /\ pc' = [pc EXCEPT ![s] = "closed"]
  /\ resp' = [resp EXCEPT ![s] = Answer("NONE", "none")]
  /\ ran' = [ran EXCEPT ![s] = [n \in Names |-> Absent]]
  /\ ReleaseHandles(s)
  /\ UNCHANGED <<cmd, buf, frames, before, torn>>

(* TA_InvokeCommandEntryPoint is entered with a command.                   *)
Invoke(s, c) ==
  /\ pc[s] = "idle"
  /\ pc' = [pc EXCEPT ![s] = "entry"]
  /\ cmd' = [cmd EXCEPT ![s] = c]
  /\ resp' = [resp EXCEPT ![s] = Answer("NONE", "none")]
  /\ UNCHANGED <<storageVars, buf, frames, history>>

(* A handler returns, and its locals are gone.                             *)
Leave(s, where, answer) ==
  /\ pc' = [pc EXCEPT ![s] = where]
  /\ cmd' = [cmd EXCEPT ![s] = NoCommand]
  /\ buf' = [buf EXCEPT ![s] = Absent]
  /\ resp' = [resp EXCEPT ![s] = answer]

Respond(s, r, o) == Leave(s, "idle", Answer(r, o))

(* The instance dies (abort, TEE_Panic, power loss): the session is gone,  *)
(* its handles are released, its objects stay as they are.                 *)
Die(s) ==
  /\ Leave(s, "dead", Answer("TARGET_DEAD", "none"))
  /\ frames' = [frames EXCEPT ![s] = << >>]
  /\ before' = [n \in Names |-> IF writer[n] = s THEN Absent ELSE before[n]]
  /\ torn' = torn \cup {n \in Names : writer[n] = s /\ store[n] = Empty}
  /\ ran' = [ran EXCEPT ![s] = [n \in Names |-> Absent]]
  /\ ReleaseHandles(s)

Panic(s) == Panics /\ pc[s] \notin {"closed", "dead"} /\ Die(s)

-----------------------------------------------------------------------------
(* Entry of the handlers.                                                  *)

Enter(s, op) == pc[s] = "entry" /\ cmd[s].op = op

(* An unknown command id or parameter types other than the handler's.      *)
RejectParams(s) ==
  /\ Enter(s, "bad")
  /\ Respond(s, "BAD_PARAMETERS", "none")
  /\ UNCHANGED <<storageVars, frames, history>>

(* run_ta: a loop over params[1].value and nothing else.                   *)
RunTa(s) ==
  /\ Enter(s, "ta")
  /\ Respond(s, "SUCCESS", "value")
  /\ UNCHANGED <<storageVars, frames, history>>

(* TEE_Malloc(script_name_sz) is the only allocation that is checked.      *)
OutOfMemory(s) ==
  /\ Enter(s, "save") \/ Enter(s, "run_saved")
  /\ TEEFaults
  /\ Respond(s, "OUT_OF_MEMORY", "none")
  /\ UNCHANGED <<storageVars, frames, history>>

(* A package shorter than its header stops the TA in the HMAC.             *)
HeaderUnderflow(s) ==
  /\ Enter(s, "save") \/ Enter(s, "run")
  /\ MayUnderflow(cmd[s].payload, cmd[s].enc)
  /\ Die(s)

-----------------------------------------------------------------------------
(* save_lua_script.                                                        *)

SaveEntry(s) ==
  /\ Enter(s, "save")
  /\ \E d \in Received(cmd[s].payload, cmd[s].enc) :
       buf' = [buf EXCEPT ![s] = d]
  /\ pc' = [pc EXCEPT ![s] = "save_create"]
  /\ UNCHANGED <<storageVars, cmd, frames, resp, history>>

(* Fault: created with TEE_DATA_FLAG_SHARE_READ, the handle is not         *)
(* exclusive.                                                              *)
SaveCreateShared(s) ==
  LET n == cmd[s].name IN
  /\ pc[s] = "save_create"
  /\ CanCreate(n)
  /\ store' = [store EXCEPT ![n] = Empty]
  /\ before' = [before EXCEPT ![n] = store[n]]
  /\ torn' = torn \ {n}
  /\ pc' = [pc EXCEPT ![s] = "save_write"]
  /\ UNCHANGED <<writer, readers, cmd, buf, frames, resp, ran>>

SaveCreate(s) ==
  LET n == cmd[s].name IN
  /\ pc[s] = "save_create"
  /\ CreateObject(s, n)
  /\ before' = [before EXCEPT ![n] = store[n]]
  /\ torn' = torn \ {n}
  /\ pc' = [pc EXCEPT ![s] = "save_write"]
  /\ UNCHANGED <<cmd, buf, frames, resp, ran>>

SaveCreateFails(s) ==
  /\ pc[s] = "save_create"
  /\ TEEFaults \/ ~CanCreate(cmd[s].name)
  /\ Respond(s, "STORAGE_ERROR", "none")
  /\ UNCHANGED <<storageVars, frames, history>>

SaveWrite(s) ==
  /\ pc[s] = "save_write"
  /\ WriteObject(cmd[s].name, buf[s])
  /\ pc' = [pc EXCEPT ![s] = "save_close"]
  /\ UNCHANGED <<cmd, buf, frames, resp, history>>

(* Fault: the handle is given up before the object is deleted.             *)
SaveWriteFailsCloses(s) ==
  /\ pc[s] = "save_write"
  /\ TEEFaults
  /\ CloseWriter(cmd[s].name)
  /\ pc' = [pc EXCEPT ![s] = "save_delete"]
  /\ torn' = torn \cup {cmd[s].name}
  /\ UNCHANGED <<cmd, buf, frames, resp, before, ran>>

SaveWriteFails(s) ==
  /\ pc[s] = "save_write"
  /\ TEEFaults
  /\ pc' = [pc EXCEPT ![s] = "save_delete"]
  /\ torn' = torn \cup {cmd[s].name}
  /\ UNCHANGED <<storageVars, cmd, buf, frames, resp, before, ran>>

(* Fault: the object is not closed after a successful write.               *)
SaveCloseForgotten(s) ==
  /\ pc[s] = "save_close"
  /\ Respond(s, "SUCCESS", "none")
  /\ before' = [before EXCEPT ![cmd[s].name] = Absent]
  /\ UNCHANGED <<storageVars, frames, torn, ran>>

SaveClose(s) ==
  /\ pc[s] = "save_close"
  /\ CloseWriter(cmd[s].name)
  /\ Respond(s, "SUCCESS", "none")
  /\ before' = [before EXCEPT ![cmd[s].name] = Absent]
  /\ UNCHANGED <<frames, torn, ran>>

(* The write failed: the object is deleted and success is returned.        *)
SaveDelete(s) ==
  /\ pc[s] = "save_delete"
  /\ DeleteObject(cmd[s].name)
  /\ Respond(s, "SUCCESS", "none")
  /\ before' = [before EXCEPT ![cmd[s].name] = Absent]
  /\ UNCHANGED <<frames, torn, ran>>

(* The object cannot be deleted, a result that is not looked at: it is     *)
(* closed all the same, stays as it was created, and success is returned.  *)
SaveDeleteFails(s) ==
  /\ pc[s] = "save_delete"
  /\ TEEFaults
  /\ CloseWriter(cmd[s].name)
  /\ Respond(s, "SUCCESS", "none")
  /\ before' = [before EXCEPT ![cmd[s].name] = Absent]
  /\ UNCHANGED <<frames, torn, ran>>

-----------------------------------------------------------------------------
(* run_lua_script and run_saved_lua_script.                                *)

RunEntry(s) ==
  /\ Enter(s, "run")
  /\ \E d \in Received(cmd[s].payload, cmd[s].enc) :
       frames' = [frames EXCEPT ![s] = <<SentFrame(cmd[s].name, d)>>]
  /\ pc' = [pc EXCEPT ![s] = "run"]
  /\ UNCHANGED <<storageVars, cmd, buf, resp, history>>

RunSavedEntry(s) ==
  /\ Enter(s, "run_saved")
  /\ frames' = [frames EXCEPT ![s] = <<OpenFrame(cmd[s].name)>>]
  /\ pc' = [pc EXCEPT ![s] = "run"]
  /\ UNCHANGED <<storageVars, cmd, buf, resp, history>>

At(s, where) == pc[s] = "run" /\ Top(s).pc = where

OpenScript(s) ==
  /\ At(s, "open")
  /\ OpenObject(s, Top(s).name)
  /\ SetTop(s, [Top(s) EXCEPT !.pc = "info"])
  /\ UNCHANGED <<pc, cmd, buf, resp, history>>

OpenFails(s) ==
  /\ At(s, "open")
  /\ TEEFaults \/ ~CanOpen(s, Top(s).name)
  /\ SetTop(s, [Top(s) EXCEPT !.pc = "failed"])
  /\ UNCHANGED <<storageVars, pc, cmd, buf, resp, history>>

(* Fault: the object is closed between the two calls.                      *)
GetObjectInfoCloses(s) ==
  /\ At(s, "info")
  /\ SetTop(s, [Top(s) EXCEPT !.pc = "read", !.info = store[Top(s).name]])
  /\ CloseReader(s, Top(s).name)
  /\ UNCHANGED <<pc, cmd, buf, resp, history>>

GetObjectInfo(s) ==
  /\ At(s, "info")
  /\ \/ SetTop(s, [Top(s) EXCEPT !.pc = "read", !.info = store[Top(s).name]])
     \/ TEEFaults /\ SetTop(s, [Top(s) EXCEPT !.pc = "close"])
  /\ UNCHANGED <<storageVars, pc, cmd, buf, resp, history>>

(* Fault: a script is run however many states there are already.           *)
ReadScriptUnlimited(s) ==
  /\ At(s, "read")
  /\ store[Top(s).name] = Top(s).info
  /\ SetTop(s, CallLua(Top(s), store[Top(s).name]))
  /\ ran' = [ran EXCEPT ![s][Top(s).name] = store[Top(s).name]]
  /\ UNCHANGED <<storageVars, pc, cmd, buf, resp, before, torn>>

(* Fault: the object is closed before the script in it is run.             *)
ReadScriptCloses(s) ==
  /\ At(s, "read")
  /\ store[Top(s).name] = Top(s).info
  /\ Depth(s) <= MaxDepth
  /\ SetTop(s, CallLua(Top(s), store[Top(s).name]))
  /\ ran' = [ran EXCEPT ![s][Top(s).name] = store[Top(s).name]]
  /\ CloseReader(s, Top(s).name)
  /\ UNCHANGED <<pc, cmd, buf, resp, before, torn>>

(* read_bytes equals the dataSize read before: the frame goes on to        *)
(* call_lua.  The handle stays open: only the error exit closes it.        *)
ReadScript(s) ==
  /\ At(s, "read")
  /\ store[Top(s).name] = Top(s).info
  /\ Depth(s) <= MaxDepth
  /\ SetTop(s, CallLua(Top(s), store[Top(s).name]))
  /\ ran' = [ran EXCEPT ![s][Top(s).name] = store[Top(s).name]]
  /\ UNCHANGED <<storageVars, pc, cmd, buf, resp, before, torn>>

(* Fault: a short read is tried again, for ever.                           *)
ReadFailsRetries(s) ==
  /\ At(s, "read")
  /\ TEEFaults \/ store[Top(s).name] # Top(s).info
  /\ SetTop(s, [Top(s) EXCEPT !.pc = "info"])
  /\ UNCHANGED <<storageVars, pc, cmd, buf, resp, history>>

ReadFails(s) ==
  /\ At(s, "read")
  /\ TEEFaults \/ store[Top(s).name] # Top(s).info
  /\ SetTop(s, [Top(s) EXCEPT !.pc = "close"])
  /\ UNCHANGED <<storageVars, pc, cmd, buf, resp, history>>

(* luaL_newstate returns NULL and call_lua goes on with it.                *)
NoLuaState(s) ==
  /\ At(s, "read")
  /\ Depth(s) > MaxDepth
  /\ Die(s)

CloseScript(s) ==
  /\ At(s, "close")
  /\ CloseReader(s, Top(s).name)
  /\ SetTop(s, [Top(s) EXCEPT !.pc = "failed"])
  /\ UNCHANGED <<pc, cmd, buf, resp, history>>

(* run_saved_lua_script returned an error, which both callers ignore: the  *)
(* output pointer was never set.  Reading through it yields junk, which is *)
(* the result of the command or of the internal call ...                   *)
ReturnJunk(s) ==
  /\ At(s, "failed")
  /\ PopFrame(s)
  /\ IF Depth(s) = 1 THEN Respond(s, "SUCCESS", "junk")
                     ELSE UNCHANGED <<pc, cmd, buf, resp>>
  /\ UNCHANGED <<storageVars, history>>

(* ... or stops the TA.                                                    *)
WildRead(s) == At(s, "failed") /\ Die(s)

(* internal_TA_call from a script that is running.                         *)
InternalCall(s, n) ==
  /\ At(s, "exec")
  /\ HoldsScript(Top(s).data)
  /\ n \in Calls[Top(s).data.script]
  /\ Top(s).left > 0
  /\ PushFrame(s, [Top(s) EXCEPT !.left = @ - 1], OpenFrame(n))
  /\ UNCHANGED <<storageVars, pc, cmd, buf, resp, history>>

(* Fault: the object is closed when the script in it has returned.         *)
FinishCloses(s) ==
  /\ At(s, "exec")
  /\ PopFrame(s)
  /\ IF Top(s).stored THEN CloseReader(s, Top(s).name) ELSE UNCHANGED storageVars
  /\ IF Depth(s) = 1
       THEN \/ Loadable(Top(s).data) /\ Respond(s, "SUCCESS", "value")
            \/ Respond(s, "SUCCESS", "error")
       ELSE UNCHANGED <<pc, cmd, buf, resp>>
  /\ UNCHANGED history

(* call_lua returns: the chunk returned a value, raised an error, or was   *)
(* never a chunk, in which case lua_pcall fails on the loader's message.   *)
(* An error message is returned like a value.                              *)
Finish(s) ==
  /\ At(s, "exec")
  /\ PopFrame(s)
  /\ IF Depth(s) = 1
       THEN \/ Loadable(Top(s).data) /\ Respond(s, "SUCCESS", "value")
            \/ Respond(s, "SUCCESS", "error")
       ELSE UNCHANGED <<pc, cmd, buf, resp>>
  /\ UNCHANGED <<storageVars, history>>

-----------------------------------------------------------------------------
SaveStep(s) ==
  \/ SaveEntry(s) \/ SaveCreate(s) \/ SaveCreateFails(s) \/ SaveWrite(s)
  \/ SaveWriteFails(s) \/ SaveClose(s) \/ SaveDelete(s) \/ SaveDeleteFails(s)

RunStep(s) ==
  \/ RunEntry(s) \/ RunSavedEntry(s) \/ OpenScript(s) \/ OpenFails(s)
  \/ GetObjectInfo(s) \/ ReadScript(s) \/ ReadFails(s) \/ NoLuaState(s)
  \/ CloseScript(s) \/ ReturnJunk(s) \/ WildRead(s)
  \/ \E n \in Names : InternalCall(s, n)
  \/ Finish(s)

(* A step of the TA's own code inside a command.                           *)
TAStep(s) ==
  \/ RejectParams(s) \/ RunTa(s) \/ OutOfMemory(s) \/ HeaderUnderflow(s)
  \/ SaveStep(s) \/ RunStep(s)

ClientStep(s) ==
  \/ OpenSession(s) \/ CloseSession(s)
  \/ \E c \in Commands : Invoke(s, c)

Next == \E s \in Sessions : ClientStep(s) \/ TAStep(s) \/ Panic(s)

(* The TEE keeps running a TA that is inside a command.  Nothing obliges   *)
(* the client to send another one, nor a session to die.                   *)
Fairness == \A s \in Sessions : WF_vars(TAStep(s))

Spec == Init /\ [][Next]_vars /\ Fairness

-----------------------------------------------------------------------------
(* The abstract script store this implements.  A save takes effect when    *)
(* its data is written: until then the name still stands for the content   *)
(* the save is replacing.                                                  *)

Saving(n) == writer[n] # Nobody /\ pc[writer[n]] \in {"save_write", "save_delete"}

SavedScripts == [n \in Names |-> IF Saving(n) THEN before[n] ELSE store[n]]

OpenNames == [s \in Sessions |-> {n \in Names : readers[s][n] > 0}]

(* All frames but the innermost are inside call_lua.                       *)
Executing(fs) == IF fs # << >> /\ fs[Len(fs)].pc = "exec" THEN Len(fs)
                 ELSE IF fs = << >> THEN 0 ELSE Len(fs) - 1

RunningScripts ==
  [s \in Sessions |->
     [i \in 1..Executing(frames[s]) |->
        [name |-> frames[s][i].name, data |-> frames[s][i].data,
         stored |-> frames[s][i].stored]]]

ActiveSessions == {s \in Sessions : pc[s] \notin {"closed", "dead"}}

Abstract == INSTANCE ScriptStore WITH
  scripts <- SavedScripts, active <- ActiveSessions, pinned <- OpenNames, running <- RunningScripts

-----------------------------------------------------------------------------
(* Properties.                                                             *)

(* Every variable stays in its type; only the innermost frame is anywhere  *)
(* else than inside a running script; frames exist only in a run command.  *)
TypeOK ==
  /\ StorageTypeOK
  /\ pc \in [Sessions -> {"closed", "idle", "dead", "entry", "run"}
                           \cup SaveSteps]
  /\ cmd \in [Sessions -> Command]
  /\ buf \in [Sessions -> Content]
  /\ frames \in [Sessions -> Seq(Frame)]
  /\ resp \in [Sessions -> Response]
  /\ before \in [Names -> Content]
  /\ torn \in SUBSET Names
  /\ ran \in [Sessions -> [Names -> Content]]
  /\ \A s \in Sessions :
       /\ pc[s] = "run" <=> frames[s] # << >>
       /\ Depth(s) <= MaxDepth + 1
       /\ \A i \in 1..Depth(s) : i < Depth(s) => frames[s][i].pc = "exec"

(* An object with an exclusive handle has no other handle, and the handle  *)
(* belongs to a session that is inside save_lua_script for that name: a    *)
(* save never overlaps another save or a read of the same object.          *)
HandleExclusion ==
  \A n \in Names : writer[n] # Nobody =>
    /\ \A s \in Sessions : readers[s][n] = 0
    /\ pc[writer[n]] \in {"save_write", "save_close", "save_delete"}
    /\ cmd[writer[n]].name = n

(* What TEE_GetObjectInfo1 reported is still the size of the object when   *)
(* TEE_ReadObjectData is called (run_saved_lua_script sizes its buffer by  *)
(* the first and reads with the second).                                   *)
ReadIsStable ==
  \A s \in Sessions : \A i \in 1..Depth(s) :
    frames[s][i].pc = "read" => frames[s][i].info = store[frames[s][i].name]

(* The zero-length object that save_lua_script creates before it writes is *)
(* run by nobody, unless the save came to nothing: its session died        *)
(* between the two calls, or neither the write nor the deletion worked.    *)
NoTornRead ==
  \A s \in Sessions : \A i \in 1..Depth(s) :
    frames[s][i].data = Empty => frames[s][i].name \in torn

(* With plaintext scripts disabled, text that arrived in the clear is      *)
(* never run, although both handlers ignore the result of                  *)
(* verify_and_decrypt_script: what the interpreter runs came out of an     *)
(* authentic package, is the empty chunk, or came in a package whose mac   *)
(* is the one the function compares with when a call of HKDF or HMAC       *)
(* failed unnoticed ("unkeyed"), and somebody sent that package.           *)
OnlyAuthenticRuns ==
  \A s \in Sessions : \A i \in 1..Depth(s) :
    LET d == frames[s][i].data IN
    frames[s][i].pc = "exec" /\ Loadable(d)
      => \/ d.kind \in {"sealed", "empty"}
         \/ /\ d.kind = "unverified"
            /\ \E c \in Commands :
                 c.payload = [kind |-> "unkeyed", script |-> d.script]

(* Whatever other sessions save meanwhile, a session that has run a saved  *)
(* script gets the same version whenever it runs that name again, until it *)
(* ends: run_saved_lua_script never closes the handle of a script it ran,  *)
(* and an open object is not replaced.                                     *)
SameVersionPerSession ==
  \A s \in Sessions, n \in Names :
    ran[s][n] # Absent => store[n] = ran[s][n]

(* Seen from outside, saves and runs of saved scripts are the atomic steps *)
(* of ScriptStore: no run sees a script half-written, and no save gets     *)
(* past a session that still holds the object open.                        *)
ImplementsScriptStore == Abstract!StoreSpec

(* A saved script that is running is the version stored under its name,    *)
(* for as long as it runs.                                                 *)
RunsCurrentVersion == Abstract!RunsCurrentVersion

(* Every command is answered, or its session dies.                         *)
CommandAnswered ==
  \A s \in Sessions :
    pc[s] \notin {"closed", "idle", "dead"} ~> pc[s] \in {"idle", "dead"}

(* "Saves a Lua script to the TA storage. It can later be called without   *)
(* needing to resend the script": when TA_SAVE_LUA_SCRIPT answers success, *)
(* the object holds the text that was sent.                                *)
SaveSuccessMeansStored ==
  [][\A s \in Sessions :
       pc[s] \in SaveSteps /\ pc'[s] = "idle" /\ resp'[s].res = "SUCCESS"
         => /\ store'[cmd[s].name].kind \in {"plain", "sealed"}
            /\ store'[cmd[s].name].script = cmd[s].payload.script]_vars
=============================================================================
