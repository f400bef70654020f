------------------------- MODULE NotifyEngineProofs -------------------------
(***************************************************************************)
(* Proofs about NotifyEngine for any keys, checkers, channels and bounds:  *)
(* the type invariant, OncePerChecker and GuardIsEarned.                   *)
(*                                                                         *)
(* Neither safety property is inductive: what the second critical section  *)
(* of a check may do depends on what the check did since the first one.    *)
(***************************************************************************)
EXTENDS NotifyEngine, TLAPS

\* A checker between BeginCheck and its alert has sent none since the guard
\* was last cleared.
NothingYet ==
  \A c \in Checkers :
    pc[c] \in {"queueing", "sending"} => fired[key[c]][c] = 0

\* What a checker has sent is behind a guard, or the checker is about to set
\* the guard: in both cases it cannot begin a check of k again.
SentIsGuarded ==
  \A k \in Keys, c \in Checkers :
    fired[k][c] # 0 => guard[k] \/ (pc[c] = "sent" /\ key[c] = k)

\* What GuardIsEarned asks of a guard for k.
Accounted(k) == earned[k] \/ waiting[k] > 0 \/ unheard[k]

\* A check that goes on to set the guard has an alert that is accounted for.
SentIsEarned ==
  \A c \in Checkers : pc[c] = "sent" => Accounted(key[c])

OInv == NothingYet /\ SentIsGuarded /\ OncePerChecker

EInv == SentIsEarned /\ GuardIsEarned

-----------------------------------------------------------------------------
\* What handing an alert over does to the count of alerts, key by key.
LEMMA FiredEffect ==
  ASSUME TypeOK, NEW c \in Checkers, key[c] \in Keys, Fired(c)
  PROVE  /\ fired' \in [Keys -> [Checkers -> Nat]]
         /\ fired'[key[c]][c] = fired[key[c]][c] + 1
         /\ \A k \in Keys, d \in Checkers :
              k # key[c] \/ d # c => fired'[k][d] = fired[k][d]
<1> DEFINE k0 == key[c]
<1> HIDE DEF k0
<1>1. /\ k0 \in Keys
      /\ fired' = [fired EXCEPT ![k0] = [fired[k0] EXCEPT ![c] = @ + 1]]
  BY DEF Fired, k0
<1>2. fired \in [Keys -> [Checkers -> Nat]]
  BY DEF TypeOK
<1>3. [fired[k0] EXCEPT ![c] = @ + 1] \in [Checkers -> Nat]
  BY <1>1, <1>2
<1> QED
  BY <1>1, <1>2, <1>3 DEF k0

\* What the channels' answer does to the history, key by key.
LEMMA AnsweredEffect ==
  ASSUME TypeOK, NEW K \in SUBSET Keys, NEW ok, NEW excused \in BOOLEAN,
         Answered(K, ok, excused)
  PROVE  /\ earned' \in [Keys -> BOOLEAN]
         /\ unheard' \in [Keys -> BOOLEAN]
         /\ \A k \in Keys : (earned[k] => earned'[k]) /\ (unheard[k] => unheard'[k])
         /\ excused \/ ok # {} => \A k \in K : earned'[k] \/ unheard'[k]
BY DEF Answered, TypeOK

\* What clearing the guards of K does, key by key.
LEMMA ClearGuardsEffect ==
  ASSUME TypeOK, NEW K \in SUBSET Keys, ClearGuards(K)
  PROVE  /\ guard' \in [Keys -> BOOLEAN]
         /\ fired' \in [Keys -> [Checkers -> Nat]]
         /\ guardedFor' \in [Keys -> Nat]
         /\ earned' \in [Keys -> BOOLEAN]
         /\ unheard' \in [Keys -> BOOLEAN]
         /\ \A k \in Keys : guard'[k] <=> guard[k] /\ k \notin K
         /\ \A k \in Keys, c \in Checkers :
              fired'[k][c] = IF k \in K THEN 0 ELSE fired[k][c]
         /\ \A k \in Keys :
              k \notin K \/ AboutToGuard(k)
                => (earned'[k] <=> earned[k]) /\ (unheard'[k] <=> unheard[k])
<1> DEFINE None == [c \in Checkers |-> 0]
<1>1. None \in [Checkers -> Nat] /\ \A c \in Checkers : None[c] = 0
  OBVIOUS
<1>2. fired' = [k \in Keys |-> IF k \in K THEN None ELSE fired[k]]
  BY DEF ClearGuards
<1> HIDE DEF None
<1>3. /\ fired' \in [Keys -> [Checkers -> Nat]]
      /\ \A k \in Keys, c \in Checkers :
           fired'[k][c] = IF k \in K THEN 0 ELSE fired[k][c]
  BY <1>1, <1>2 DEF TypeOK
<1>4. /\ guard' \in [Keys -> BOOLEAN]
      /\ \A k \in Keys : guard'[k] <=> guard[k] /\ k \notin K
  BY DEF ClearGuards, TypeOK
<1>5. /\ earned' \in [Keys -> BOOLEAN]
      /\ unheard' \in [Keys -> BOOLEAN]
      /\ \A k \in Keys :
           k \notin K \/ AboutToGuard(k)
             => (earned'[k] <=> earned[k]) /\ (unheard'[k] <=> unheard[k])
  BY DEF ClearGuards, TypeOK
<1>6. guardedFor' \in [Keys -> Nat]
  BY DEF ClearGuards, TypeOK
<1> QED
  BY <1>3, <1>4, <1>5, <1>6

-----------------------------------------------------------------------------
\* Every variable keeps its type: the settings, the guards, the steps of the
\* checks under way and the history.
THEOREM TypeCorrect == Spec => []TypeOK
<1> USE EngineAssumption
<1>1. Init => TypeOK
  BY DEF Init, TypeOK
<1>2. TypeOK /\ [Next]_vars => TypeOK'
  <2> SUFFICES ASSUME TypeOK, [Next]_vars PROVE TypeOK'
    OBVIOUS
  <2> USE DEF TypeOK, settings, local, history, told
  <2>1. ASSUME NEW c \in Checkers, NEW k \in Keys, BeginCheck(c, k)
        PROVE  TypeOK'
    <3>1. cycle[k] \in Nat
      OBVIOUS
    <3> QED
      BY <2>1, <3>1 DEF BeginCheck
  <2>2. ASSUME NEW c \in Checkers, Queue(c) PROVE TypeOK'
    <3>1. key[c] \in Keys
      BY <2>2 DEF Queue
    <3>2. CASE digest = "on"
      <4>1. /\ waiting' = [waiting EXCEPT ![key[c]] = @ + 1]
            /\ waiting[key[c]] < MaxWaiting
            /\ Fired(c)
        BY <2>2, <3>2 DEF Queue
      <4>2. waiting' \in [Keys -> 0..MaxWaiting]
        BY <3>1, <4>1
      <4>3. fired' \in [Keys -> [Checkers -> Nat]]
        BY <3>1, <4>1, FiredEffect
      <4> QED
        BY <2>2, <3>1, <3>2, <4>2, <4>3 DEF Queue
    <3>3. CASE digest # "on"
      BY <2>2, <3>3 DEF Queue
    <3> QED
      BY <3>2, <3>3
  <2>3. ASSUME NEW c \in Checkers, SendAll(c) PROVE TypeOK'
    <3>1. pc[c] = "sending" /\ key[c] \in Keys
      BY <2>3 DEF SendAll
    <3>2. Fired(c) => fired' \in [Keys -> [Checkers -> Nat]]
      BY <3>1, FiredEffect
    <3>3. /\ fired' \in [Keys -> [Checkers -> Nat]]
          /\ earned' \in [Keys -> BOOLEAN]
          /\ unheard' \in [Keys -> BOOLEAN]
      <4>1. \/ UNCHANGED told
            \/ Fired(c) /\ \E ok : Answered({key[c]}, ok, chans[c] = {})
        BY <2>3 DEF SendAll
      <4>2. ASSUME NEW ok, Answered({key[c]}, ok, chans[c] = {})
            PROVE  earned' \in [Keys -> BOOLEAN] /\ unheard' \in [Keys -> BOOLEAN]
        BY <3>1, <4>2, AnsweredEffect
      <4> QED
        BY <3>2, <4>1, <4>2
    <3>4. \/ Return(c)
          \/ /\ pc' = [pc EXCEPT ![c] = "sent"]
             /\ UNCHANGED <<key, chans, startedIn>>
      BY <2>3 DEF SendAll
    <3>5. /\ pc' \in [Checkers -> {"idle", "queueing", "sending", "sent"}]
          /\ key' \in [Checkers -> Keys \cup {NoKey}]
          /\ chans' \in [Checkers -> SUBSET Channels]
          /\ startedIn' \in [Checkers -> Nat]
          /\ \A d \in Checkers : pc'[d] # "idle" => key'[d] \in Keys
      <4>1. CASE Return(c)
        BY <4>1 DEF Return
      <4>2. CASE ~Return(c)
        BY <3>1, <3>4, <4>2
      <4> QED
        BY <4>1, <4>2
    <3> QED
      BY <2>3, <3>3, <3>5 DEF SendAll
  <2>4. ASSUME NEW c \in Checkers, SetGuard(c) PROVE TypeOK'
    BY <2>4 DEF SetGuard, Return
  <2>5. ASSUME NEW k \in Keys, OnReset(k) PROVE TypeOK'
    <3>1. cycle' \in [Keys -> Nat]
      BY <2>5 DEF OnReset
    <3> QED
      BY <2>5, <3>1, ClearGuardsEffect DEF OnReset
  <2>6. CASE ResetAllGuards
    BY <2>6, ClearGuardsEffect DEF ResetAllGuards
  <2>7. ASSUME NEW k \in Keys, GuardExpires(k) PROVE TypeOK'
    BY <2>7, ClearGuardsEffect DEF GuardExpires
  <2>8. CASE Configure \/ ConfigureChannels \/ ConfigureDigest
    BY <2>8 DEF Configure, ConfigureChannels, ConfigureDigest
  <2>9. CASE Restart
    BY <2>9 DEF Restart
  <2>10. CASE DeliverDigest
    <3>1. PICK batch \in [Keys -> 0..MaxWaiting], ok \in SUBSET (channels \cup {"os"}) :
             /\ \A k \in Keys : batch[k] <= waiting[k]
             /\ waiting' = [k \in Keys |-> waiting[k] - batch[k]]
             /\ Answered({k \in Keys : batch[k] > 0}, ok, TRUE)
      BY <2>10 DEF DeliverDigest
    <3>2. waiting' \in [Keys -> 0..MaxWaiting]
      BY <3>1
    <3>3. earned' \in [Keys -> BOOLEAN] /\ unheard' \in [Keys -> BOOLEAN]
      BY <3>1, AnsweredEffect
    <3> QED
      BY <2>10, <3>2, <3>3 DEF DeliverDigest
  <2>11. CASE UNCHANGED vars
    BY <2>11 DEF vars
  <2> QED
    BY <2>1, <2>2, <2>3, <2>4, <2>5, <2>6, <2>7, <2>8, <2>9, <2>10, <2>11
    DEF Next, CheckerStep
<1> QED
  BY <1>1, <1>2, PTL DEF Spec

-----------------------------------------------------------------------------
\* The step in which the first alert of checker c gets out.
LEMMA SentOnce ==
  ASSUME TypeOK, OInv, NEW c \in Checkers, key[c] \in Keys,
         fired[key[c]][c] = 0,
         pc' = [pc EXCEPT ![c] = "sent"], Fired(c), UNCHANGED <<guard, key>>
  PROVE  OInv'
<1>1. /\ fired'[key[c]][c] = 1
      /\ \A k \in Keys, d \in Checkers :
           k # key[c] \/ d # c => fired'[k][d] = fired[k][d]
  BY FiredEffect
<1>2. /\ pc'[c] = "sent"
      /\ \A d \in Checkers : d # c => pc'[d] = pc[d]
      /\ \A d \in Checkers : pc[d] # "idle" => key[d] \in Keys
  BY DEF TypeOK
<1>3. NothingYet'
  BY <1>1, <1>2 DEF OInv, NothingYet
<1>4. SentIsGuarded'
  <2> SUFFICES ASSUME NEW k \in Keys, NEW d \in Checkers, fired'[k][d] # 0
               PROVE  guard[k] \/ (pc'[d] = "sent" /\ key[d] = k)
    BY DEF SentIsGuarded
  <2>1. CASE k = key[c] /\ d = c
    BY <1>2, <2>1
  <2>2. CASE k # key[c] \/ d # c
    BY <1>1, <1>2, <2>2 DEF OInv, SentIsGuarded
  <2> QED
    BY <2>1, <2>2
<1>5. OncePerChecker'
  BY <1>1 DEF OInv, OncePerChecker
<1> QED
  BY <1>3, <1>4, <1>5 DEF OInv

-----------------------------------------------------------------------------
\* No checker repeats its alert for a key until the guard is cleared again.
THEOREM OncePerCheckerHolds == Spec => []OncePerChecker
<1> USE EngineAssumption
<1>1. Init => OInv
  BY DEF Init, OInv, NothingYet, SentIsGuarded, OncePerChecker
<1>2. TypeOK /\ OInv /\ [Next]_vars => OInv'
  <2> SUFFICES ASSUME TypeOK, OInv, [Next]_vars PROVE OInv'
    OBVIOUS
  <2> USE DEF TypeOK, OInv, NothingYet, SentIsGuarded, OncePerChecker,
              settings, local, history, told
  <2>1. ASSUME NEW c \in Checkers, NEW k \in Keys, BeginCheck(c, k)
        PROVE  OInv'
    <3>1. fired[k][c] = 0
      BY <2>1 DEF BeginCheck, MayNotify
    <3> QED
      BY <2>1, <3>1 DEF BeginCheck
  <2>2. ASSUME NEW c \in Checkers, Queue(c) PROVE OInv'
    <3>0. pc[c] = "queueing" /\ key[c] \in Keys /\ fired[key[c]][c] = 0
      BY <2>2 DEF Queue
    <3>1. CASE digest = "on"
      <4>1. /\ pc' = [pc EXCEPT ![c] = "sent"]
            /\ Fired(c)
            /\ UNCHANGED <<guard, key>>
        BY <2>2, <3>1 DEF Queue
      <4> QED
        BY <3>0, <4>1, SentOnce
    <3>2. CASE digest # "on"
      BY <2>2, <3>2 DEF Queue
    <3> QED
      BY <3>1, <3>2
  <2>3. ASSUME NEW c \in Checkers, SendAll(c) PROVE OInv'
    <3>1. pc[c] = "sending" /\ key[c] \in Keys /\ fired[key[c]][c] = 0
      BY <2>3 DEF SendAll
    <3>2. CASE Return(c) /\ UNCHANGED <<settings, guard, fired>>
      BY <3>1, <3>2 DEF Return
    <3>3. CASE /\ pc' = [pc EXCEPT ![c] = "sent"]
               /\ Fired(c)
               /\ UNCHANGED <<guard, key>>
      BY <3>1, <3>3, SentOnce
    <3> QED
      BY <2>3, <3>2, <3>3 DEF SendAll
  <2>4. ASSUME NEW c \in Checkers, SetGuard(c) PROVE OInv'
    BY <2>4 DEF SetGuard, Return
  <2>5. ASSUME NEW K \in SUBSET Keys, ClearGuards(K), UNCHANGED local
        PROVE  OInv'
    <3>1. /\ \A k \in Keys : guard'[k] <=> guard[k] /\ k \notin K
          /\ \A k \in Keys, c \in Checkers :
               fired'[k][c] = IF k \in K THEN 0 ELSE fired[k][c]
      BY <2>5, ClearGuardsEffect
    <3>2. NothingYet'
      BY <2>5, <3>1
    <3>3. SentIsGuarded'
      BY <2>5, <3>1
    <3>4. OncePerChecker'
      BY <2>5, <3>1
    <3> QED
      BY <3>2, <3>3, <3>4
  <2>6. ASSUME NEW k \in Keys, OnReset(k) PROVE OInv'
    BY <2>5, <2>6 DEF OnReset
  <2>7. CASE ResetAllGuards
    BY <2>5, <2>7 DEF ResetAllGuards
  <2>8. ASSUME NEW k \in Keys, GuardExpires(k) PROVE OInv'
    BY <2>5, <2>8 DEF GuardExpires
  <2>9. CASE Configure \/ ConfigureChannels \/ ConfigureDigest
    BY <2>9 DEF Configure, ConfigureChannels, ConfigureDigest
  <2>10. CASE Restart
    BY <2>10 DEF Restart
  <2>11. CASE DeliverDigest
    BY <2>11 DEF DeliverDigest
  <2>12. CASE UNCHANGED vars
    BY <2>12 DEF vars
  <2> QED
    BY <2>1, <2>2, <2>3, <2>4, <2>6, <2>7, <2>8, <2>9, <2>10, <2>11, <2>12
    DEF Next, CheckerStep
<1>3. OInv => OncePerChecker
  BY DEF OInv
<1> QED
  BY <1>1, <1>2, <1>3, TypeCorrect, PTL DEF Spec

-----------------------------------------------------------------------------
\* A guard that suppresses alerts stands for one that a channel took, that waits
\* for its digest, or that nobody got in one of the two ways the engine counts
\* as sent.
THEOREM GuardIsEarnedHolds == Spec => []GuardIsEarned
<1> USE EngineAssumption
<1>1. Init => EInv
  BY DEF Init, EInv, SentIsEarned, GuardIsEarned
<1>2. TypeOK /\ EInv /\ [Next]_vars => EInv'
  <2> SUFFICES ASSUME TypeOK, EInv, [Next]_vars PROVE EInv'
    OBVIOUS
  <2> USE DEF EInv, SentIsEarned, GuardIsEarned, settings, local, history, told
  <2>0. /\ \A c \in Checkers : pc[c] = "sent" => key[c] \in Keys
        /\ \A k \in Keys : waiting[k] \in 0..MaxWaiting
    BY DEF TypeOK
  <2>1. ASSUME NEW c \in Checkers, NEW k \in Keys, BeginCheck(c, k)
        PROVE  EInv'
    BY <2>1 DEF BeginCheck, Accounted, TypeOK
  <2>2. ASSUME NEW c \in Checkers, Queue(c) PROVE EInv'
    <3>1. pc[c] = "queueing" /\ key[c] \in Keys
      BY <2>2 DEF Queue, TypeOK
    <3>2. CASE digest = "on"
      <4>1. /\ pc' = [pc EXCEPT ![c] = "sent"]
            /\ waiting' = [waiting EXCEPT ![key[c]] = @ + 1]
            /\ UNCHANGED <<guard, key, earned, unheard>>
        BY <2>2, <3>2 DEF Queue
      <4>2. /\ waiting'[key[c]] > 0
            /\ \A k \in Keys : waiting[k] > 0 => waiting'[k] > 0
        BY <3>1, <4>1 DEF TypeOK
      <4>3. \A k \in Keys : Accounted(k) => Accounted(k)'
        BY <4>1, <4>2 DEF Accounted
      <4>4. Accounted(key[c])'
        BY <4>1, <4>2 DEF Accounted
      <4> QED
        BY <2>0, <3>1, <4>1, <4>3, <4>4 DEF TypeOK, Accounted
    <3>3. CASE digest # "on"
      BY <2>2, <3>3 DEF Queue, Accounted, TypeOK
    <3> QED
      BY <3>2, <3>3
  <2>3. ASSUME NEW c \in Checkers, SendAll(c) PROVE EInv'
    <3>1. pc[c] = "sending" /\ key[c] \in Keys
      BY <2>3 DEF SendAll, TypeOK
    <3>2. CASE Return(c) /\ UNCHANGED <<guard, waiting, told>>
      BY <3>2 DEF Return, Accounted, TypeOK
    <3>3. ASSUME NEW ok \in SUBSET (chans[c] \cup {"os"}), ~Failed(c, ok),
                 pc' = [pc EXCEPT ![c] = "sent"],
                 Answered({key[c]}, ok, chans[c] = {}),
                 UNCHANGED <<guard, key, waiting>>
          PROVE  EInv'
      <4>1. chans[c] = {} \/ ok # {}
        BY <3>3 DEF Failed
      <4>2. /\ \A k \in Keys : /\ earned[k] => earned'[k]
                               /\ unheard[k] => unheard'[k]
            /\ earned'[key[c]] \/ unheard'[key[c]]
        BY <3>1, <3>3, <4>1 DEF Answered, TypeOK
      <4>3. \A k \in Keys : Accounted(k) => Accounted(k)'
        BY <3>3, <4>2 DEF Accounted
      <4>4. Accounted(key[c])'
        BY <3>3, <4>2 DEF Accounted
      <4> QED
        BY <2>0, <3>1, <3>3, <4>3, <4>4 DEF TypeOK, Accounted
    <3> QED
      BY <2>3, <3>2, <3>3 DEF SendAll
  <2>4. ASSUME NEW c \in Checkers, SetGuard(c) PROVE EInv'
    BY <2>4 DEF SetGuard, Return, Accounted, TypeOK
  <2>5. ASSUME NEW K \in SUBSET Keys, ClearGuards(K), UNCHANGED <<local, waiting>>
        PROVE  EInv'
    <3>1. /\ \A k \in Keys : guard'[k] <=> guard[k] /\ k \notin K
          /\ \A k \in Keys :
               k \notin K \/ AboutToGuard(k)
                 => (earned'[k] <=> earned[k]) /\ (unheard'[k] <=> unheard[k])
      BY <2>5, ClearGuardsEffect
    <3>2. \A k \in Keys :
            k \notin K \/ AboutToGuard(k) => (Accounted(k) => Accounted(k)')
      BY <2>5, <3>1 DEF Accounted
    <3>3. \A c \in Checkers : pc[c] = "sent" => AboutToGuard(key[c])
      BY DEF AboutToGuard
    <3> QED
      BY <2>0, <2>5, <3>1, <3>2, <3>3 DEF Accounted
  <2>6. ASSUME NEW k \in Keys, OnReset(k) PROVE EInv'
    BY <2>5, <2>6 DEF OnReset
  <2>7. CASE ResetAllGuards
    BY <2>5, <2>7 DEF ResetAllGuards
  <2>8. ASSUME NEW k \in Keys, GuardExpires(k) PROVE EInv'
    BY <2>5, <2>8 DEF GuardExpires
  <2>9. CASE Configure \/ ConfigureChannels \/ ConfigureDigest
    BY <2>9 DEF Configure, ConfigureChannels, ConfigureDigest, Accounted
  <2>10. CASE Restart
    BY <2>10 DEF Restart
  <2>11. CASE DeliverDigest
    <3>1. PICK batch \in [Keys -> 0..MaxWaiting], ok \in SUBSET (channels \cup {"os"}) :
             /\ waiting' = [k \in Keys |-> waiting[k] - batch[k]]
             /\ Answered({k \in Keys : batch[k] > 0}, ok, TRUE)
      BY <2>11 DEF DeliverDigest
    <3>2. /\ \A k \in Keys : /\ earned[k] => earned'[k]
                             /\ unheard[k] => unheard'[k]
          /\ \A k \in {j \in Keys : batch[j] > 0} : earned'[k] \/ unheard'[k]
      BY <3>1, AnsweredEffect
    <3>3. ASSUME NEW k \in Keys, Accounted(k) PROVE Accounted(k)'
      <4>1. CASE batch[k] > 0
        BY <3>2, <4>1 DEF Accounted
      <4>2. CASE ~(batch[k] > 0)
        <5>1. batch[k] = 0 /\ waiting'[k] = waiting[k]
          BY <2>0, <3>1, <4>2
        <5> QED
          BY <3>2, <3>3, <5>1 DEF Accounted
      <4> QED
        BY <4>1, <4>2
    <3> QED
      BY <2>0, <2>11, <3>3 DEF DeliverDigest, Accounted
  <2>12. CASE UNCHANGED vars
    BY <2>12 DEF vars, Accounted
  <2> QED
    BY <2>1, <2>2, <2>3, <2>4, <2>6, <2>7, <2>8, <2>9, <2>10, <2>11, <2>12
    DEF Next, CheckerStep
<1>3. EInv => GuardIsEarned
  BY DEF EInv
<1> QED
  BY <1>1, <1>2, <1>3, TypeCorrect, PTL DEF Spec

=============================================================================
