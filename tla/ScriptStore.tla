---------------------------- MODULE ScriptStore -----------------------------
(***************************************************************************)
(* What the TA promises about saved scripts, without handles, frames or    *)
(* the steps of the storage API: a save replaces a script at one instant,  *)
(* a run of a saved script uses the whole content the name has at one      *)
(* instant, and a name a session has opened keeps its content until that   *)
(* session gives it up.  LuaRuntimeTA is shown to implement it.            *)
(***************************************************************************)
EXTENDS ScriptData, Naturals, Sequences

CONSTANTS Sessions, Names

VARIABLES scripts,   \* the script saved under each name
          active,    \* the sessions that are open
          pinned,    \* the names a session keeps from being replaced
          running    \* the scripts a session is running, innermost last

storeVars == <<scripts, active, pinned, running>>

StoreInit ==
  /\ scripts = [n \in Names |-> Absent]
  /\ active = {}
  /\ pinned = [s \in Sessions |-> {}]
  /\ running = [s \in Sessions |-> << >>]

Pinned(n) == \E s \in Sessions : n \in pinned[s]

(* Only a name nobody has pinned is replaced, and a save is all or         *)
(* nothing.  When storage fails half-way, the script is lost: the name     *)
(* stands for nothing, or for an empty script if not even the object could *)
(* be deleted.                                                             *)
Save(n, c) ==
  /\ ~Pinned(n)
  /\ scripts' = [scripts EXCEPT ![n] = c]
  /\ UNCHANGED <<active, pinned, running>>

Lose(n) == \E c \in {Absent, Empty} : Save(n, c)

Begin(s) ==
  /\ s \notin active
  /\ active' = active \cup {s}
  /\ UNCHANGED <<scripts, pinned, running>>

Pin(s, n) ==
  /\ s \in active /\ scripts[n] # Absent
  /\ pinned' = [pinned EXCEPT ![s] = @ \cup {n}]
  /\ UNCHANGED <<scripts, active, running>>

Unpin(s, n) ==
  /\ \A i \in 1..Len(running[s]) :
       running[s][i].stored => running[s][i].name # n
  /\ pinned' = [pinned EXCEPT ![s] = @ \ {n}]
  /\ UNCHANGED <<scripts, active, running>>

Start(s, n) ==
  /\ n \in pinned[s]
  /\ running' = [running EXCEPT ![s] =
       Append(@, [name |-> n, data |-> scripts[n], stored |-> TRUE])]
  /\ UNCHANGED <<scripts, active, pinned>>

(* A script that was sent along with the command.                          *)
StartSent(s, n, c) ==
  /\ s \in active /\ running[s] = << >>
  /\ running' = [running EXCEPT ![s] =
                   <<[name |-> n, data |-> c, stored |-> FALSE]>>]
  /\ UNCHANGED <<scripts, active, pinned>>

Stop(s) ==
  /\ running[s] # << >>
  /\ running' = [running EXCEPT ![s] = SubSeq(@, 1, Len(@) - 1)]
  /\ UNCHANGED <<scripts, active, pinned>>

(* A session ends.  If it dies inside a save, that script may be lost.     *)
End(s, lost) ==
  /\ s \in active
  /\ \A n \in lost : ~Pinned(n)
  /\ scripts' = [n \in Names |-> IF n \in lost THEN Empty ELSE scripts[n]]
  /\ active' = active \ {s}
  /\ pinned' = [pinned EXCEPT ![s] = {}]
  /\ running' = [running EXCEPT ![s] = << >>]

StoreNext ==
  \/ \E n \in Names, c \in Content \ {Absent, Empty} : Save(n, c)
  \/ \E n \in Names : Lose(n)
  \/ \E s \in Sessions, n \in Names :
        Pin(s, n) \/ Unpin(s, n) \/ Start(s, n)
  \/ \E s \in Sessions, n \in Names, c \in Content : StartSent(s, n, c)
  \/ \E s \in Sessions :
        Begin(s) \/ Stop(s) \/ \E lost \in SUBSET Names : End(s, lost)

StoreSpec == StoreInit /\ [][StoreNext]_storeVars

(* A saved script that is running is pinned, and what runs is the version  *)
(* stored under its name now.                                              *)
RunsCurrentVersion ==
  \A s \in Sessions : \A i \in 1..Len(running[s]) :
    running[s][i].stored =>
      /\ running[s][i].name \in pinned[s]
      /\ running[s][i].data = scripts[running[s][i].name]
=============================================================================
