------------------------------ MODULE VaultDir ------------------------------
(* The files of a vault directory, as git and a second init see them: what   *)
(* matters of a file is whether it is there, which init's keys it is under,  *)
(* and which of two versions is the newer one.                               *)
EXTENDS Naturals

CONSTANTS Procs,        \* cavern processes
          MaxCommands,  \* bound: commands given in a behaviour
          MaxCrashes,   \* bound: processes killed in a behaviour
          None          \* no process

\* The vault has one secret here; .lock stands for all that is local state.
Paths == {"master.gpg", "master.json", "manifest", "secret", "audit", ".lock"}

\* Each file is written under the keys of the init that drew them; init number
\* 0 has not been given.  A file that was removed keeps its version.
Content == [here : BOOLEAN, from : 0 .. MaxCommands, ver : Nat]
Missing == [here |-> FALSE, from |-> 0, ver |-> 0]

ASSUME DirAssumption == /\ MaxCommands \in Nat /\ MaxCrashes \in Nat
                        /\ None \notin Procs

VARIABLES
    file,      \* the vault directory
    clock,     \* versions written so far
    pc,        \* stage of each process
    call,      \* its command
    keys,      \* the init whose keys it works with
    started,   \* commands given so far
    crashes,   \* processes killed so far
    overlap,   \* history: a command ran while an init was not over
    missed     \* history: a command ended without the commit of its change

dirVars == <<file, clock>>

Goto(p, stage) == pc' = [pc EXCEPT ![p] = stage]

Here(path) == file[path].here

\* An atomic replacement by p of a file of the vault, or its removal.
Put(p, path, present) ==
    /\ clock' = clock + 1
    /\ file' = [file EXCEPT ![path] = [here |-> present, from |-> keys[p],
                                       ver |-> clock + 1]]

End(p) ==
    /\ Goto(p, "idle")
    /\ call' = [call EXCEPT ![p] = "none"]
    /\ keys' = [keys EXCEPT ![p] = 0]

=============================================================================
