-------------------------- MODULE GeneratedSecret --------------------------
(* insert and generate down to the bytes of the file: what is typed or       *)
(* generated is encrypted, rewrapped by rotations, and shown again.          *)
EXTENDS Generator, SecretBlob

ASSUME SecretAssumption == UNION Classes \subseteq Bytes

secretVars == <<generatorVars, vars>>

\* generate, or insert, which needs no policy.
SecretInit ==
    /\ BlobInit
    /\ \/ GeneratorInit
       \/ /\ policy = [length |-> 0, classes |-> {}, exclude |-> FALSE]
          /\ step = "typed" /\ unpicked = {} /\ chars = <<>>

\* cmd_generate inserts the password it has.
StoreGenerated == step = "done" /\ Encrypt(chars) /\ UNCHANGED generatorVars

\* cmd_insert
StoreTyped == /\ step = "typed"
              /\ \E p \in Plaintexts : Encrypt(p)
              /\ UNCHANGED generatorVars

SecretNext == \/ GeneratorNext /\ UNCHANGED vars
              \/ StoreGenerated \/ StoreTyped
              \/ /\ (\E k \in MasterKeys : Rewrap(k)) \/ Resize \/ Alter
                 /\ UNCHANGED generatorVars

SecretSpec == SecretInit /\ [][SecretNext]_secretVars

=============================================================================
