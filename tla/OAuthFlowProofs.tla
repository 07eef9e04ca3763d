--------------------------- MODULE OAuthFlowProofs ---------------------------
(***************************************************************************)
(* Theorems about the authorization, for any number of waiters and codes.  *)
(***************************************************************************)
EXTENDS OAuthFlow, TLAPS

(* A save has gone by the inline token first, and then to the file.         *)
Kept ==
  /\ saved \/ (\E w \in Waiters : pc[w] = "writing") => inline \in {"empty", "good"}
  /\ saved => file # "none"

IInv == TypeOK /\ TornOnlyWhileSaving /\ Kept

LEMMA StepTypes ==
  ASSUME TypeOK, [Next]_vars
  PROVE  TypeOK'
<1> USE DEF TypeOK, Goto, Away, After, flow, codes, disk, memory, config
<1>1. CASE UNCHANGED vars
  BY <1>1 DEF vars
<1>2. CASE StopBackups \/ Restart
  BY <1>2 DEF StopBackups, Restart
<1>3. ASSUME NEW c \in Codes, Callback(c) PROVE TypeOK'
  BY <1>3 DEF Callback
<1>4. ASSUME NEW w \in Waiters, Enter(w) PROVE TypeOK'
  BY <1>4 DEF Enter, Click, NewService, Check
<1>5. ASSUME NEW w \in Waiters, Wait(w) \/ Scan(w) PROVE TypeOK'
  BY <1>5 DEF Wait, Receive, GiveUp, Scan
<1>6. ASSUME NEW w \in Waiters, Answer(w) PROVE TypeOK'
  BY <1>6 DEF Answer, Exchange, ExchangeFails, CallReturns
<1>7. ASSUME NEW w \in Waiters, Save(w) PROVE TypeOK'
  BY <1>7 DEF Save, SaveCreates, SaveWrites, SaveFails, Remember
<1>8. QED
  BY <1>1, <1>2, <1>3, <1>4, <1>5, <1>6, <1>7 DEF Next

(* A waiter leaves "writing" by writing the token, or with broken set.      *)
LEMMA StepTorn ==
  ASSUME TypeOK, TornOnlyWhileSaving, [Next]_vars
  PROVE  TornOnlyWhileSaving'
<1> USE DEF TypeOK, TornOnlyWhileSaving, Goto, Away, After, flow, codes, disk, memory,
            config
<1>1. CASE UNCHANGED vars
  BY <1>1 DEF vars
<1>2. CASE StopBackups \/ Restart
  BY <1>2 DEF StopBackups, Restart
<1>3. ASSUME NEW c \in Codes, Callback(c) PROVE TornOnlyWhileSaving'
  BY <1>3 DEF Callback
<1>4. ASSUME NEW w \in Waiters, Enter(w) \/ Wait(w) \/ Scan(w) \/ Answer(w)
      PROVE  TornOnlyWhileSaving'
  <2>1. UNCHANGED <<file, broken>> /\ pc[w] # "writing"
        /\ \A u \in Waiters \ {w} : pc'[u] = pc[u]
    BY <1>4
    DEF Enter, Click, NewService, Check, Wait, Receive, GiveUp, Scan, Answer,
        Exchange, ExchangeFails, CallReturns
  <2>2. QED
    BY <2>1
<1>5. ASSUME NEW w \in Waiters, Save(w) PROVE TornOnlyWhileSaving'
  <2>1. CASE SaveCreates(w)
    BY <2>1 DEF SaveCreates
  <2>2. CASE SaveWrites(w)
    BY <2>2 DEF SaveWrites
  <2>3. CASE SaveFails(w)
    BY <2>3 DEF SaveFails
  <2>4. QED
    BY <1>5, <2>1, <2>2, <2>3 DEF Save
<1>6. QED
  BY <1>1, <1>2, <1>3, <1>4, <1>5 DEF Next

LEMMA StepKept ==
  ASSUME TypeOK, Kept, [Next]_vars
  PROVE  Kept'
<1> USE DEF TypeOK, Kept, Goto, Away, After, flow, codes, disk, memory, config
<1>1. CASE UNCHANGED vars
  BY <1>1 DEF vars
<1>2. CASE StopBackups \/ Restart
  BY <1>2 DEF StopBackups, Restart
<1>3. ASSUME NEW c \in Codes, Callback(c) PROVE Kept'
  BY <1>3 DEF Callback
<1>4. ASSUME NEW w \in Waiters, Enter(w) \/ Wait(w) \/ Scan(w) \/ Answer(w) PROVE Kept'
  <2>1. UNCHANGED <<file, inline, saved>>
        /\ \A u \in Waiters : pc'[u] = "writing" => pc[u] = "writing"
    BY <1>4
    DEF Enter, Click, NewService, Check, Wait, Receive, GiveUp, Scan, Answer,
        Exchange, ExchangeFails, CallReturns
  <2>2. QED
    BY <2>1
<1>5. ASSUME NEW w \in Waiters, Save(w) PROVE Kept'
  <2>1. CASE SaveCreates(w)
    BY <2>1 DEF SaveCreates, Remember
  <2>2. CASE SaveWrites(w)
    BY <2>2 DEF SaveWrites
  <2>3. CASE SaveFails(w)
    BY <2>3 DEF SaveFails, Remember
  <2>4. QED
    BY <1>5, <2>1, <2>2, <2>3 DEF Save
<1>6. QED
  BY <1>1, <1>2, <1>3, <1>4, <1>5 DEF Next

THEOREM Invariance == Spec => []IInv
<1>1. Init => IInv
  BY InlineAssumption DEF Init, IInv, TypeOK, TornOnlyWhileSaving, Kept
<1>2. IInv /\ [Next]_vars => IInv'
  BY StepTypes, StepTorn, StepKept DEF IInv
<1>3. QED
  BY <1>1, <1>2, PTL DEF Spec

(* Every variable of the authorization keeps its type.                      *)
THEOREM TypeCorrect == Spec => []TypeOK
<1>1. IInv => TypeOK
  BY DEF IInv
<1>2. QED
  BY <1>1, Invariance, PTL

(* However many save the token at once, it is unreadable only during a      *)
(* write or after one that was cut short.                                   *)
THEOREM TokenSurvivesSavers == Spec => []TornOnlyWhileSaving
<1>1. IInv => TornOnlyWhileSaving
  BY DEF IInv
<1>2. QED
  BY <1>1, Invariance, PTL

(* Where a waiter begins to wait, its look for a token has failed.          *)
LEMMA BeginsToWait ==
  ASSUME TypeOK, [Next]_vars, NEW w \in Waiters,
         pc[w] = "idle", pc'[w] = "waiting"
  PROVE  Finds(FALSE)
<1> USE DEF TypeOK, Goto, Away, After, flow
<1>1. CASE UNCHANGED vars
  BY <1>1 DEF vars
<1>2. CASE StopBackups \/ Restart
  BY <1>2 DEF StopBackups, Restart
<1>3. ASSUME NEW c \in Codes, Callback(c) PROVE FALSE
  BY <1>3 DEF Callback
<1>4. ASSUME NEW v \in Waiters, Wait(v) \/ Scan(v) \/ Answer(v) \/ Save(v)
      PROVE  FALSE
  <2>1. pc[v] # "idle" /\ \A u \in Waiters : u # v => pc'[u] = pc[u]
    BY <1>4
    DEF Wait, Receive, GiveUp, Scan, Answer, Exchange, ExchangeFails, CallReturns,
        Save, SaveCreates, SaveWrites, SaveFails
  <2>2. QED
    BY <2>1
<1>5. ASSUME NEW v \in Waiters, Enter(v) PROVE Finds(FALSE)
  <2>1. CASE Click(v)
    BY <2>1 DEF Click
  <2>2. CASE NewService(v)
    <3>1. PICK token \in BOOLEAN :
            Finds(token) /\ Goto(v, IF token THEN "calling" ELSE "waiting")
      BY <2>2 DEF NewService
    <3>2. CASE token
      BY <3>1, <3>2
    <3>3. CASE ~token
      BY <3>1, <3>3 DEF Finds
    <3>4. QED
      BY <3>2, <3>3
  <2>3. CASE Check(v)
    BY <2>3 DEF Check, Finds, HasToken
  <2>4. QED
    BY <1>5, <2>1, <2>2, <2>3 DEF Enter
<1>6. QED
  BY <1>1, <1>2, <1>3, <1>4, <1>5 DEF Next

(* Whatever the environment holds as a token, whoever looks for the one     *)
(* that the program has saved finds it, except in a torn file or while      *)
(* another saver assigns the inline string.                                 *)
THEOREM SavedTokenIsFound == Spec => SavedIsFound
<1>1. ASSUME IInv, [Next]_vars, NEW w \in Waiters,
             saved, pc[w] = "idle", pc'[w] = "waiting"
      PROVE  \/ inline = "empty" /\ file = "torn"
             \/ inline = "good" /\ \E v \in Waiters : pc[v] = "saving"
  <2>1. Finds(FALSE)
    BY <1>1, BeginsToWait DEF IInv
  <2>2. inline \in {"empty", "good"} /\ file \in {"torn", "good"}
    BY <1>1 DEF IInv, TypeOK, Kept
  <2>3. CASE ~HasToken
    BY <2>2, <2>3 DEF HasToken
  <2>4. CASE HasToken
    BY <2>1, <2>2, <2>4 DEF Finds
  <2>5. QED
    BY <2>3, <2>4
<1>2. IInv /\ [Next]_vars =>
        [\A w \in Waiters : saved /\ pc[w] = "idle" /\ pc'[w] = "waiting" =>
           \/ inline = "empty" /\ file = "torn"
           \/ inline = "good" /\ \E v \in Waiters : pc[v] = "saving"]_vars
  BY <1>1
<1>3. QED
  BY <1>2, Invariance, PTL DEF Spec, SavedIsFound
=============================================================================
