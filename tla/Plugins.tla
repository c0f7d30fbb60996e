------------------------------- MODULE Plugins -------------------------------
(***************************************************************************)
(* The plugin manager (plugins/manager.py) and the registries its plugins  *)
(* register in.  One caller uses the manager; every step of a call is      *)
(* awaited and may raise, and a call that raises leaves what it had done.  *)
(* Files are numbered in the order of their names.                         *)
(***************************************************************************)
EXTENDS Naturals, Sequences

CONSTANTS Files,        \* the number of plugin files
          Registries,   \* the number of registries the manager was given
          MaxPluginCalls

PluginConstants == Files \in Nat \ {0} /\ Registries \in Nat \ {0} /\ MaxPluginCalls \in Nat

VARIABLES
    naming,             \* per file: the plugin's name, what it is registered as, and where
    listed,             \* _plugins: files in the order they were listed
    registered,         \* per registry: who registered under each key, 0 for nobody
    doing, at, stage,   \* the call under way, the plugin it is at, and the registry
    lifecycle,          \* per file: the last lifecycle method of its last instance
    pluginCalls

pluginVars == <<naming, listed, registered, doing, at, stage, lifecycle, pluginCalls>>

Names == 1..Files
PluginMethods == {"load", "start", "stop", "unload"}

PluginTypeOK ==
    /\ listed \in Seq(1..Files) /\ Len(listed) <= Files
    /\ registered \in [1..Registries -> [Names -> 0..Files]]
    /\ doing \in PluginMethods \cup {"nothing"} /\ at \in 0..Files + 1 /\ stage \in 0..Registries + 1
    /\ lifecycle \in [1..Files -> PluginMethods \cup {"none"}] /\ pluginCalls \in 0..MaxPluginCalls

PluginInit ==
    /\ naming \in [1..Files -> [name : Names, key : Names, offers : SUBSET (1..Registries)]]
    /\ listed = <<>> /\ registered = [r \in 1..Registries |-> [k \in Names |-> 0]]
    /\ doing = "nothing" /\ at = 0 /\ stage = 0
    /\ lifecycle = [f \in 1..Files |-> "none"] /\ pluginCalls = 0

IsListed(f) == \E i \in 1..Len(listed) : listed[i] = f
NameListed(n) == \E i \in 1..Len(listed) : naming[listed[i]].name = n

-----------------------------------------------------------------------------
(* start, stop and unload raise when nothing is loaded *)
Call(method) ==
    /\ doing = "nothing" /\ pluginCalls < MaxPluginCalls /\ pluginCalls' = pluginCalls + 1
    /\ \/ (method = "load" \/ listed # <<>>) /\ doing' = method /\ at' = 1 /\ stage' = 0
       \/ method # "load" /\ listed = <<>> /\ UNCHANGED <<doing, at, stage>>
    /\ UNCHANGED <<naming, listed, registered, lifecycle>>

Leave == doing' = "nothing" /\ at' = 0 /\ stage' = 0

(* What any step of a call does when a file, a plugin or a registry raises *)
Raises ==
    /\ doing # "nothing" /\ Leave
    /\ UNCHANGED <<naming, listed, registered, lifecycle, pluginCalls>>

(* A new instance of the next file's plugin, unless its name is listed *)
LoadPlugin ==
    /\ doing = "load" /\ stage = 0 /\ at <= Files /\ ~NameListed(naming[at].name)
    /\ lifecycle' = [lifecycle EXCEPT ![at] = "load"] /\ stage' = 1
    /\ UNCHANGED <<naming, listed, registered, doing, at, pluginCalls>>

(* Mutant: a registry replaces what is registered under the key. *)
AcceptsAny(r, f) == r \in 1..Registries /\ f \in 1..Files

(* A registry refuses a key it has *)
Accepts(r, f) == registered[r][naming[f].key] = 0

Register ==
    /\ doing = "load" /\ stage \in 1..Registries /\ stage' = stage + 1
    /\ \/ stage \notin naming[at].offers /\ UNCHANGED registered
       \/ /\ stage \in naming[at].offers /\ Accepts(stage, at)
          /\ registered' = [registered EXCEPT ![stage][naming[at].key] = at]
    /\ UNCHANGED <<naming, listed, doing, at, lifecycle, pluginCalls>>

ListPlugin ==
    /\ doing = "load" /\ stage = Registries + 1
    /\ listed' = Append(listed, at) /\ at' = at + 1 /\ stage' = 0
    /\ UNCHANGED <<naming, registered, doing, lifecycle, pluginCalls>>

LoadEnds ==
    /\ doing = "load" /\ stage = 0 /\ at > Files /\ Leave
    /\ UNCHANGED <<naming, listed, registered, lifecycle, pluginCalls>>

(* The method of the next listed plugin *)
InvokeLifecycle ==
    /\ doing \in {"start", "stop", "unload"} /\ at <= Len(listed)
    /\ lifecycle' = [lifecycle EXCEPT ![listed[at]] = doing] /\ at' = at + 1
    /\ UNCHANGED <<naming, listed, registered, doing, stage, pluginCalls>>

(* unload empties the list when all have answered; nobody unregisters *)
LifecycleEnds ==
    /\ doing \in {"start", "stop", "unload"} /\ at > Len(listed) /\ Leave
    /\ listed' = IF doing = "unload" THEN <<>> ELSE listed
    /\ UNCHANGED <<naming, registered, lifecycle, pluginCalls>>

PluginNext ==
    \/ \E method \in PluginMethods : Call(method)
    \/ Raises \/ LoadPlugin \/ Register \/ ListPlugin \/ LoadEnds
    \/ InvokeLifecycle \/ LifecycleEnds

PluginSpec == PluginInit /\ [][PluginNext]_pluginVars

-----------------------------------------------------------------------------
(* A listed plugin has its name to itself, and holds everything it         *)
(* registered as, however many loads raised in between (load).             *)
ListedIsWhole ==
    \A i \in 1..Len(listed) : LET f == listed[i] IN
        /\ \A r \in naming[f].offers : registered[r][naming[f].key] = f
        /\ \A j \in 1..(i - 1) : listed[j] < f /\ naming[listed[j]].name # naming[f].name

(* Something of a plugin that is not listed is registered: its load raised *)
(* half way, or it was unloaded.                                           *)
LeftBehind(f) ==
    doing # "load" /\ ~IsListed(f) /\ \E r \in naming[f].offers : registered[r][naming[f].key] = f

(* What is left behind keeps its plugin from being listed again, for as    *)
(* long as the registries live (load, unload and the registries).          *)
LeftBehindStays == \A f \in 1..Files : [](LeftBehind(f) => []~IsListed(f))
=============================================================================
