----------------------------- MODULE VaultInit -----------------------------
(* The making of a vault: cavern init, which takes no lock.  Two of them can *)
(* pass the same check, and any command is admitted from the moment both     *)
(* master files are there, whether or not the init is over.                  *)
EXTENDS VaultDir

\* The stages of vault.init and of the git.init after it.
Making == {"gpg", "json", "emptyManifest", "repo", "ignore"}

\* Mutant: master.gpg alone counts.
HalfInitialized == Here("master.gpg")

\* is_initialized
Initialized == Here("master.gpg") /\ Here("master.json")

\* Mutant: the existing vault is not looked for.
AdmittedAlways(op) == TRUE

\* What main and vault.init let through.
Admitted(op) == (op = "init") # Initialized

\* Some other process than p is making the vault.
OthersMaking(p) == \E q \in Procs \ {p} : pc[q] \in Making

\* init: past its check, and with its keys drawn.  Every other command: past
\* the check of main.  A command that is not admitted leaves no trace.
Start(p, op) ==
    /\ pc[p] = "idle"
    /\ started < MaxCommands
    /\ Admitted(op)
    /\ started' = started + 1
    /\ call' = [call EXCEPT ![p] = op]
    /\ keys' = [keys EXCEPT ![p] = IF op = "init" THEN started + 1 ELSE 0]
    /\ Goto(p, IF op = "init" THEN "gpg" ELSE "resolve")
    /\ overlap' = (overlap \/ OthersMaking(p)
                           \/ (op = "init" /\ \E q \in Procs : pc[q] # "idle"))
    /\ UNCHANGED <<dirVars, crashes, missed>>

\* gpg_encrypt_to_recipients and the write of master.gpg.
WriteMasterGpg(p) ==
    /\ pc[p] = "gpg"
    /\ Put(p, "master.gpg", TRUE)
    /\ Goto(p, "json")
    /\ UNCHANGED <<call, keys, started, crashes, overlap, missed>>

\* gpg refuses to encrypt: CryptoError, and nothing is there.
EncryptFails(p) ==
    /\ pc[p] = "gpg"
    /\ End(p)
    /\ UNCHANGED <<dirVars, started, crashes, overlap, missed>>

\* The wrapped master key; with the recipients file, which nothing here reads.
WriteMasterJson(p) ==
    /\ pc[p] = "json"
    /\ Put(p, "master.json", TRUE)
    /\ Goto(p, "emptyManifest")
    /\ UNCHANGED <<call, keys, started, crashes, overlap, missed>>

\* The empty manifest comes last, whatever manifest is there by now.
WriteEmptyManifest(p) ==
    /\ pc[p] = "emptyManifest"
    /\ Put(p, "manifest", TRUE)
    /\ Goto(p, "repo")
    /\ UNCHANGED <<call, keys, started, crashes, overlap, missed>>

InitSteps(p) == \/ WriteMasterGpg(p) \/ EncryptFails(p)
                \/ WriteMasterJson(p) \/ WriteEmptyManifest(p)

=============================================================================
