---------------------------- MODULE SessionProofs ----------------------------
(* Any number of unlocks, cleaners, locks and commands: sessions keep their   *)
(* cleaner, cleaners spare the sessions they woke up to, and commands end up  *)
(* with the key of their own vault.                                           *)
EXTENDS Session, TLAPS

\* A vault with no session yet.
LEMMA Initially == Init => SessionInv
BY SessionAssumption
   DEF Init, SessionInv, TypeOK, Sizes, SessionHasCleaner, WakingSparesOthers, OwnKey

\* Every step of every process preserves the invariant.
LEMMA Inductive == SessionInv /\ [Next]_vars => SessionInv'
<1> SUFFICES ASSUME SessionInv, [Next]_vars
             PROVE  SessionInv'
  OBVIOUS
<1> USE SessionAssumption
    DEF SessionInv, TypeOK, Sizes, SessionHasCleaner, WakingSparesOthers, OwnKey,
        commandVars
<1>1. ASSUME NEW u \in Unlocks, UnlinkOld(u) PROVE SessionInv'
  BY <1>1 DEF UnlinkOld, Advance
<1>2. ASSUME NEW u \in Unlocks, Create(u) PROVE SessionInv'
  BY <1>2 DEF Create, Advance
<1>3. ASSUME NEW u \in Unlocks, WriteFile(u) PROVE SessionInv'
  BY <1>3 DEF WriteFile, Advance
<1>4. ASSUME NEW u \in Unlocks, SpawnCleaner(u) PROVE SessionInv'
  BY <1>4 DEF SpawnCleaner, Advance
<1>5. ASSUME NEW u \in Unlocks, Die(u) PROVE SessionInv'
  BY <1>5 DEF Die
<1>6. ASSUME NEW u \in Unlocks, CheckToken(u) PROVE SessionInv'
  BY <1>6 DEF CheckToken, HoldsToken
<1>7. ASSUME NEW u \in Unlocks, UnlinkExpired(u) PROVE SessionInv'
  BY <1>7 DEF UnlinkExpired
<1>8. ASSUME NEW c \in Commands, OpenSession(c) PROVE SessionInv'
  BY <1>8 DEF OpenSession
<1>9. ASSUME NEW c \in Commands, ReadSession(c) PROVE SessionInv'
  BY <1>9 DEF ReadSession, Usable
<1>10. ASSUME NEW c \in Commands, AskGpg(c) PROVE SessionInv'
  BY <1>10 DEF AskGpg
<1>11. CASE Lock
  BY <1>11 DEF Lock
<1>12. CASE UNCHANGED vars
  BY <1>12 DEF vars
<1> QED
  BY <1>1, <1>2, <1>3, <1>4, <1>5, <1>6, <1>7, <1>8, <1>9, <1>10, <1>11, <1>12
     DEF Next, UnlockStep, CleanerStep

\* The invariant holds for any number of unlocks, commands and vaults.
THEOREM Invariance == Spec => []SessionInv
<1>1. SessionInv /\ [Next]_vars => SessionInv'
  BY Inductive
<1> QED
  BY Initially, <1>1, PTL DEF Spec

\* An unlock that returned has a cleaner that will still remove its session.
THEOREM SessionsHaveCleaners == Spec => []SessionHasCleaner
<1>1. SessionInv => SessionHasCleaner
  BY DEF SessionInv
<1> QED
  BY <1>1, Invariance, PTL

\* A cleaner never removes a session that was there when it woke, but its own.
THEOREM WakingCleanersSpareOthers == Spec => []WakingSparesOthers
<1>1. SessionInv => WakingSparesOthers
  BY DEF SessionInv
<1> QED
  BY <1>1, Invariance, PTL

\* A command works with the KEK of its own vault.
THEOREM CommandsUseTheirOwnKey == Spec => []OwnKey
<1>1. SessionInv => OwnKey
  BY DEF SessionInv
<1> QED
  BY <1>1, Invariance, PTL

=============================================================================
