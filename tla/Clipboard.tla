----------------------------- MODULE Clipboard -----------------------------
(* show -c, otp -c and generate -c put a secret on the clipboard and start a *)
(* detached cleaner that is to wipe it after 45 seconds.  Each invocation is *)
(* a copy; the user copies other things in between.  The cleaner never gets  *)
(* to its main: what that would do is not modelled.                          *)
CONSTANTS Copies,  \* invocations of copy_with_autoclear
          TextOf,  \* the secret each copy puts on the clipboard
          Other,   \* a text the user copies
          Empty    \* an empty clipboard

VARIABLES clip,     \* what is on the clipboard
          copier,   \* how far each invocation has got
          cleaner   \* how far its cleaner has got

vars == <<clip, copier, cleaner>>

Init ==
    /\ clip = Empty
    /\ copier = [c \in Copies |-> "idle"]
    /\ cleaner = [c \in Copies |-> "none"]

\* copy_to_clipboard; a ClipboardError ends the command here.
Copy(c) ==
    /\ copier[c] = "idle"
    /\ \/ clip' = TextOf[c] /\ copier' = [copier EXCEPT ![c] = "copied"]
       \/ UNCHANGED clip /\ copier' = [copier EXCEPT ![c] = "failed"]
    /\ UNCHANGED cleaner

\* The cleaner's script is started by its path, with its stderr discarded.
SpawnCleaner(c) ==
    /\ copier[c] = "copied"
    /\ copier' = [copier EXCEPT ![c] = "done"]
    /\ cleaner' = [cleaner EXCEPT ![c] = "started"]
    /\ UNCHANGED clip

\* A script started by its path is in no package: its relative import raises
\* ImportError, and nobody hears of it.
ImportFails(c) ==
    /\ cleaner[c] = "started"
    /\ cleaner' = [cleaner EXCEPT ![c] = "gone"]
    /\ UNCHANGED <<clip, copier>>

\* A command killed with its secret on the clipboard and no cleaner yet.
Die(c) ==
    /\ copier[c] = "copied"
    /\ copier' = [copier EXCEPT ![c] = "died"]
    /\ UNCHANGED <<clip, cleaner>>

\* The user copies something else.
UserCopies ==
    /\ clip' = Other
    /\ UNCHANGED <<copier, cleaner>>

CopyStep(c) == SpawnCleaner(c) \/ ImportFails(c)

Next == UserCopies \/ \E c \in Copies : Copy(c) \/ CopyStep(c) \/ Die(c)

\* Once a secret is on the clipboard its command and its cleaner run on.
Spec == Init /\ [][Next]_vars /\ \A c \in Copies : WF_vars(CopyStep(c))

-----------------------------------------------------------------------------
(* Properties *)

\* "it wipes itself after 45 seconds" (README.md:34-35): a copied secret leaves
\* the clipboard, unless a command that copied it died before it had started its
\* cleaner.
SecretIsWiped ==
    \A c \in Copies :
        clip = TextOf[c] ~>
            \/ clip # TextOf[c]
            \/ \E d \in Copies : TextOf[d] = TextOf[c] /\ copier[d] = "died"

=============================================================================
