------------------------------ MODULE LuaHost -------------------------------
(***************************************************************************)
(* The program invoke_lua_interpreter (host/main.c) on top of the TA.  A   *)
(* process opens one session, saves the scripts of its application's ta    *)
(* directory, runs host/main.lua, whose TA_call invokes scripts in the TA, *)
(* and ends; when it is gone the TEE driver closes a session it left open. *)
(* Processes and sessions correspond one to one; a process that has ended  *)
(* may be started again with other options.                                *)
(***************************************************************************)
EXTENDS LuaRuntimeTA

CONSTANTS
  Apps,         \* Apps[s]: the files of the ta directory of s's application
  MainCalls,    \* MainCalls[s]: the names s's main.lua passes to TA_call
  MaxTACalls,   \* calls one run of main.lua makes (main.lua terminates)
  Options,      \* Options[s]: the settings process s may be started with
  NoFile        \* no directory entry

(* A directory entry as the save loop sees it: strtok takes the first two  *)
(* parts between dots for the name and the extension.  An entry is exact   *)
(* if it has no other part (cubic.lua, but not .cubic.lua.swp).            *)
File == [name: Names, ext: {"lua", "luata", "other"}, exact: BOOLEAN,
         payload: Payload]

OptionSet == [encrypted: BOOLEAN, saved: BOOLEAN]

ASSUME HostAssumption ==
  /\ Apps \in [Sessions -> SUBSET File]
  /\ MainCalls \in [Sessions -> SUBSET Names]
  /\ MaxTACalls \in Nat
  /\ Options \in [Sessions -> SUBSET OptionSet]
  /\ NoFile \notin File

VARIABLES
  hpc,       \* where a process is
  opts,      \* encrypted_mode and call_mode
  todo,      \* directory entries readdir has not returned yet
  current,   \* the entry being saved
  refused,   \* history: the entries that were not sent as they are, or whose
             \* save was not answered with success, in this life of a process
  calls      \* calls of TA_call that main.lua has left

processVars == <<hpc, opts, todo, current, refused, calls>>
hostVars == <<vars, processVars>>

(* encrypted_mode and call_mode as they are initialised.                   *)
DefaultOptions == [encrypted |-> TRUE, saved |-> FALSE]

HostInit ==
  /\ Init
  /\ hpc = [s \in Sessions |-> "none"]
  /\ opts = [s \in Sessions |-> DefaultOptions]
  /\ todo = [s \in Sessions |-> {}]
  /\ current = [s \in Sessions |-> NoFile]
  /\ refused = [s \in Sessions |-> {}]
  /\ calls = [s \in Sessions |-> 0]

Goto(s, where) == hpc' = [hpc EXCEPT ![s] = where]

Send(s, c) ==
  IF pc[s] = "dead"    \* TEEC_InvokeCommand answers TEEC_ERROR_TARGET_DEAD
  THEN UNCHANGED vars
  ELSE Invoke(s, c)

Answered(s) == pc[s] \in {"idle", "dead"}

(* exit, errx or return from main: the process no longer uses its session. *)
Exit(s) ==
  /\ hpc' = [hpc EXCEPT ![s] = "exited"]
  /\ todo' = [todo EXCEPT ![s] = {}]
  /\ current' = [current EXCEPT ![s] = NoFile]
  /\ refused' = [refused EXCEPT ![s] = {}]
  /\ calls' = [calls EXCEPT ![s] = 0]
  /\ opts' = [opts EXCEPT ![s] = DefaultOptions]

-----------------------------------------------------------------------------
(* main: getopt, then a context and a session.                             *)
Start(s, o) ==
  /\ hpc[s] = "none"
  /\ OpenSession(s)
  /\ opts' = [opts EXCEPT ![s] = o]
  /\ Goto(s, "opendir")
  /\ UNCHANGED <<todo, current, refused, calls>>

(* Fault: main.lua is run all the same.                                    *)
OpenDirFailsGoesOn(s) ==
  /\ hpc[s] = "opendir"
  /\ calls' = [calls EXCEPT ![s] = MaxTACalls]
  /\ Goto(s, "main")
  /\ UNCHANGED <<vars, opts, todo, current, refused>>

(* A bad option, no context or no session ends the process, as does a ta   *)
(* directory that cannot be opened, without closing the session.           *)
OpenDirFails(s) == hpc[s] = "opendir" /\ Exit(s) /\ UNCHANGED vars

OpenDir(s) ==
  /\ hpc[s] = "opendir"
  /\ todo' = [todo EXCEPT ![s] = Apps[s]]
  /\ Goto(s, "saving")
  /\ UNCHANGED <<vars, opts, current, refused, calls>>

Wanted(s, f) == f.ext = (IF opts[s].encrypted THEN "luata" ELSE "lua")

(* readdir returns the entries in any order; those with another extension  *)
(* are passed over.                                                        *)
SkipFile(s, f) ==
  /\ hpc[s] = "saving"
  /\ f \in todo[s] /\ ~Wanted(s, f)
  /\ todo' = [todo EXCEPT ![s] = @ \ {f}]
  /\ UNCHANGED <<vars, hpc, opts, current, refused, calls>>

SendSave(s, f, p) ==
  /\ hpc[s] = "saving"
  /\ f \in todo[s] /\ Wanted(s, f)
  /\ Send(s, [op |-> "save", name |-> f.name, payload |-> p,
              enc |-> opts[s].encrypted])
  /\ current' = [current EXCEPT ![s] = f]
  /\ Goto(s, "save_wait")
  /\ UNCHANGED <<opts, todo, calls>>

SaveScript(s, f) == SendSave(s, f, f.payload) /\ UNCHANGED refused

(* read_in_file cannot open the file and answers 0 all the same: script    *)
(* stays NULL and scriptlen is never set.  If it happens to be zero, a     *)
(* script of no bytes is saved ...                                         *)
NoText(f) == [f.payload EXCEPT !.kind = "none"]

SaveNothing(s, f) ==
  /\ SendSave(s, f, NoText(f))
  /\ refused' = [refused EXCEPT ![s] = @ \cup {f}]

(* ... otherwise TEEC_InvokeCommand refuses to send a buffer that is not   *)
(* there, or has no memory to share for one that is: the code is printed   *)
(* and the loop goes on.                                                   *)
SaveNotSent(s, f) ==
  /\ hpc[s] = "saving"
  /\ f \in todo[s] /\ Wanted(s, f)
  /\ todo' = [todo EXCEPT ![s] = @ \ {f}]
  /\ refused' = [refused EXCEPT ![s] = @ \cup {f}]
  /\ UNCHANGED <<vars, hpc, opts, current, calls>>

(* Copying scriptlen bytes from NULL kills the process.                    *)
SaveCrashes(s) ==
  /\ hpc[s] = "saving" /\ \E f \in todo[s] : Wanted(s, f)
  /\ Exit(s)
  /\ UNCHANGED vars

(* Fault: a save that failed is tried again.                               *)
SaveReturnsRetries(s) ==
  /\ hpc[s] = "save_wait" /\ Answered(s)
  /\ todo' = [todo EXCEPT ![s] =
                IF resp[s].res = "SUCCESS" THEN @ \ {current[s]} ELSE @]
  /\ current' = [current EXCEPT ![s] = NoFile]
  /\ Goto(s, "saving")
  /\ UNCHANGED <<vars, opts, refused, calls>>

(* save_script prints an error code and the loop goes on.                  *)
SaveReturns(s) ==
  /\ hpc[s] = "save_wait" /\ Answered(s)
  /\ todo' = [todo EXCEPT ![s] = @ \ {current[s]}]
  /\ refused' = [refused EXCEPT ![s] =
                   IF resp[s].res = "SUCCESS" THEN @ ELSE @ \cup {current[s]}]
  /\ current' = [current EXCEPT ![s] = NoFile]
  /\ Goto(s, "saving")
  /\ UNCHANGED <<vars, opts, calls>>

(* Fault: main.lua is run while files are left.                            *)
RunMainEarly(s) ==
  /\ hpc[s] = "saving"
  /\ calls' = [calls EXCEPT ![s] = MaxTACalls]
  /\ todo' = [todo EXCEPT ![s] = {}]
  /\ Goto(s, "main")
  /\ UNCHANGED <<vars, opts, current, refused>>

(* closedir; main.lua is read, loaded and run.                             *)
RunMain(s) ==
  /\ hpc[s] = "saving" /\ todo[s] = {}
  /\ calls' = [calls EXCEPT ![s] = MaxTACalls]
  /\ Goto(s, "main")
  /\ UNCHANGED <<vars, opts, todo, current, refused>>

-----------------------------------------------------------------------------
(* TA_call, called from main.lua.                                          *)

(* The files app_name/ta/n.lua or app_name/ta/n.luata.                     *)
OwnFiles(s, n) == {f \in Apps[s] : f.name = n /\ f.exact /\ Wanted(s, f)}

RunSaved(n) == [op |-> "run_saved", name |-> n,
                payload |-> CHOOSE p \in Payload : TRUE, enc |-> FALSE]

Call(s, c) ==
  /\ hpc[s] = "main" /\ calls[s] > 0
  /\ Send(s, c)
  /\ calls' = [calls EXCEPT ![s] = @ - 1]
  /\ Goto(s, "call_wait")
  /\ UNCHANGED <<opts, todo, current, refused>>

(* CALL_MODE_SAVED, or no file of that name: the saved script is run.      *)
CallSaved(s, n) ==
  /\ opts[s].saved \/ OwnFiles(s, n) = {}
  /\ Call(s, RunSaved(n))

(* CALL_MODE_PASS: the file is read and sent; one that cannot be read may  *)
(* be sent as a script of no bytes, as in the save loop.                   *)
CallPass(s, n) ==
  /\ ~opts[s].saved
  /\ \E f \in OwnFiles(s, n) : \E p \in {f.payload, NoText(f)} :
       Call(s, [op |-> "run", name |-> n, payload |-> p,
                enc |-> opts[s].encrypted])

(* The path is built by strcat onto memory malloc returned, which need not *)
(* begin with a zero byte: the path names no file, and the saved script is *)
(* run although the file is there.                                         *)
CallWrongPath(s, n) ==
  /\ ~opts[s].saved /\ OwnFiles(s, n) # {}
  /\ Call(s, RunSaved(n))

CallReturns(s) ==
  /\ hpc[s] = "call_wait" /\ Answered(s)
  /\ IF resp[s].res = "SUCCESS"
       THEN Goto(s, "main") /\ UNCHANGED <<opts, todo, current, refused, calls>>
       ELSE Exit(s)    \* errx
  /\ UNCHANGED vars

(* lua_pcall returned, with a result or with an error, and either is       *)
(* printed; or a TA_call ended the process, its command not sent (errx) or *)
(* its file not read; or main.lua itself could not be read.                *)
EndMain(s) == hpc[s] = "main" /\ Exit(s) /\ UNCHANGED vars

(* TEEC_CloseSession, or the driver for a process that is gone.            *)
EndSession(s) ==
  /\ hpc[s] = "exited"
  /\ CloseSession(s)
  /\ Goto(s, "none")
  /\ UNCHANGED <<opts, todo, current, refused, calls>>

-----------------------------------------------------------------------------
HostStep(s) ==
  \/ OpenDir(s) \/ OpenDirFails(s) \/ SaveReturns(s) \/ SaveCrashes(s) \/ RunMain(s)
  \/ \E f \in Apps[s] :
       SkipFile(s, f) \/ SaveScript(s, f) \/ SaveNothing(s, f) \/ SaveNotSent(s, f)
  \/ \E n \in MainCalls[s] : CallSaved(s, n) \/ CallPass(s, n) \/ CallWrongPath(s, n)
  \/ CallReturns(s) \/ EndMain(s) \/ EndSession(s)

TA(s) == TAStep(s) /\ UNCHANGED processVars

HostNext ==
  \E s \in Sessions :
    \/ \E o \in Options[s] : Start(s, o)
    \/ HostStep(s)
    \/ TA(s)
    \/ Panic(s) /\ UNCHANGED processVars

(* The rich OS keeps scheduling a process that has not ended, and the TEE  *)
(* a TA that is inside a command.  Nobody has to start a program.          *)
HostFairness ==
  \A s \in Sessions : WF_hostVars(HostStep(s)) /\ WF_hostVars(TA(s))

HostSpec == HostInit /\ [][HostNext]_hostVars /\ HostFairness

-----------------------------------------------------------------------------
(* What the properties speak of: the store is one for all applications,    *)
(* and two files of one application may go by the same name.               *)

(* No other application has a file of that name.                           *)
OwnName(s, n) == \A q \in Sessions \ {s} : \A g \in Apps[q] : g.name # n

(* No other file is saved under the name of f while s runs.                *)
Uncontested(s, f) ==
  /\ OwnName(s, f.name)
  /\ \A g \in Apps[s] : g.name = f.name /\ Wanted(s, g) => g = f

-----------------------------------------------------------------------------
(* Properties.                                                             *)

(* "Save all Lua TA scripts ... in the TA secure storage to allow for      *)
(* internal calls between the scripts" (main): while main.lua runs, every  *)
(* script that has its name for itself and whose save was answered with    *)
(* success holds what the TA made of the file, in either mode, or nothing  *)
(* at all if the TA could not write it and answered success all the same   *)
(* (torn).  Whatever other processes and other sessions do meanwhile, no   *)
(* save is lost in any other way.                                          *)
SavedBeforeMain ==
  \A s \in Sessions : hpc[s] = "main" =>
    \A f \in Apps[s] \ refused[s] : Wanted(s, f) /\ Uncontested(s, f) =>
      store[f.name] \in IF f.name \in torn THEN {Absent, Empty}
                        ELSE Received(f.payload, opts[s].encrypted)

(* What a name of the application runs, directly or by internal calls, is  *)
(* the text of one of its own files of that name; and of a file for the    *)
(* mode the process is in, not left over from another run of the program,  *)
(* unless every file that would have replaced it was refused.  Names that  *)
(* another application uses too are the ones nothing is said of.           *)
OwnScriptsRun ==
  \A s \in Sessions : \A i \in 1..Depth(s) :
    LET f == frames[s][i] IN
    f.pc = "exec" /\ HoldsScript(f.data) /\ OwnName(s, f.name) =>
      \E g \in Apps[s] :
        /\ g.name = f.name /\ g.payload.script = f.data.script
        /\ \/ Wanted(s, g)
           \/ \A h \in Apps[s] : h.name = f.name /\ Wanted(s, h) => h \in refused[s]

(* A process that is started ends, whatever becomes of its session, and    *)
(* every handle it held is released.                                       *)
ProcessEnds ==
  \A s \in Sessions :
    hpc[s] = "opendir" ~> (hpc[s] = "none" /\ \A n \in Names : readers[s][n] = 0)
=============================================================================
