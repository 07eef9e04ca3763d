----------------------------- MODULE LocksProofs -----------------------------
(***************************************************************************)
(* Theorems about the locks: for any number of jobs, firings and requests. *)
(*                                                                         *)
(* The argument has two halves.  The first is about one call, read by      *)
(* itself: from the locks it holds, every step it has left is in order,    *)
(* and in the end it holds none.  That is shown fragment by fragment, in   *)
(* the way the calls are put together.  The second is about the goroutines *)
(* together: what each one holds is what its call says, and a lock that is *)
(* written under has no readers.                                           *)
(***************************************************************************)
EXTENDS Locks, SequenceTheorems, TLAPS

(* How a goroutine may have a lock; it has asked for one that it has locked *)
(* against others while it waits for the readers.                           *)
Holdings == [Locks -> {"free", "asked", "read", "write"}]
Free == [m \in Locks |-> "free"]
Has(h, m) == h[m] \in {"read", "write"}

(* The order of the locks: the scheduler's mutex is taken under statusMu,   *)
(* and no other lock under another.                                         *)
MayTake(h, m) ==
  \A k \in Locks \ {m} : h[k] = "free" \/ (k = "status" /\ m = "sched" /\ Has(h, k))

Guard(field) ==
  IF field = "status" THEN "status"
  ELSE IF field \in {"logs", "listBackups"} THEN "logs"
  ELSE IF field = "wsConns" THEN "ws"
  ELSE "sched"

Guarded == Fields \ {"lastRunTime"}

(* Whoever sends to a page holds the connection's mutex and no other lock.  *)
OnlyConn == [Free EXCEPT !["conn"] = "write"]

(* One step of a call that holds h, after which it holds i.                 *)
Takes(h, step, i) ==
  LET m == step.what
  IN  \/ /\ step.op = "lock" /\ m \in Locks
         /\ h[m] = "free" /\ MayTake(h, m)
         /\ i = [h EXCEPT ![m] = "asked"]
      \/ /\ step.op = "enter" /\ m \in Locks
         /\ h[m] = "asked" /\ MayTake(h, m)
         /\ i = [h EXCEPT ![m] = "write"]
      \/ /\ step.op = "rlock" /\ m \in Locks
         /\ h[m] = "free" /\ MayTake(h, m)
         /\ i = [h EXCEPT ![m] = "read"]
      \/ /\ step.op = "use"
         /\ \A k \in Locks : h[k] # "asked"
         /\ m \in Guarded => Has(h, Guard(m))
         /\ step.mode = "write" => m = "lastRunTime" \/ (m \in Guarded /\ h[Guard(m)] = "write")
         /\ \/ step.frees = "-" /\ i = h
            \/ /\ step.frees \in Locks /\ Has(h, step.frees)
               /\ i = [h EXCEPT ![step.frees] = "free"]
      \/ /\ step.op = "await"
         /\ \A k \in Locks : h[k] # "asked"
         /\ step.mode = "forget" => h = OnlyConn
         /\ i = h

(* After a broadcast that may forget the connection its mutex is released.  *)
ThenUnlocks(s) ==
  \A n \in 1 .. Len(s) : s[n].mode = "forget" =>
    /\ s[n].op = "await"
    /\ n + 1 \in 1 .. Len(s) /\ s[n + 1] = Step("use", "-", "-", "conn")

(* The steps s, one after the other, lead from h to i.                      *)
Does(h, s, i) ==
  /\ s \in Seq(Steps) /\ ThenUnlocks(s)
  /\ \E t \in [0 .. Len(s) -> Holdings] :
       /\ t[0] = h /\ t[Len(s)] = i
       /\ \A n \in 1 .. Len(s) : Takes(t[n - 1], s[n], t[n])

-----------------------------------------------------------------------------
(* Sequences of steps.                                                      *)

LEMMA DoesOne ==
  ASSUME NEW h \in Holdings, NEW i \in Holdings, NEW step \in Steps,
         Takes(h, step, i), step.mode # "forget"
  PROVE  Does(h, <<step>>, i)
<1> DEFINE t == [n \in 0 .. 1 |-> IF n = 0 THEN h ELSE i]
<1>1. <<step>> \in Seq(Steps)
  OBVIOUS
<1>2. Len(<<step>>) = 1 /\ <<step>>[1] = step
  OBVIOUS
<1>3. t \in [0 .. 1 -> Holdings] /\ t[0] = h /\ t[1] = i
  OBVIOUS
<1> HIDE DEF t
<1>4. ASSUME NEW n \in 1 .. 1 PROVE Takes(t[n - 1], <<step>>[n], t[n])
  <2>1. n = 1 /\ n - 1 = 0
    OBVIOUS
  <2>2. QED
    BY <1>2, <1>3, <2>1
<1>5. ThenUnlocks(<<step>>)
  BY <1>2 DEF ThenUnlocks
<1>6. QED
  BY <1>1, <1>2, <1>3, <1>4, <1>5 DEF Does

LEMMA DoesBoth ==
  ASSUME NEW h \in Holdings, NEW i \in Holdings, NEW j \in Holdings,
         NEW r, NEW s, Does(h, r, i), Does(i, s, j)
  PROVE  Does(h, r \o s, j)
<1>1. r \in Seq(Steps) /\ s \in Seq(Steps)
  BY DEF Does
<1>2. /\ r \o s \in Seq(Steps) /\ Len(r \o s) = Len(r) + Len(s)
      /\ Len(r) \in Nat /\ Len(s) \in Nat
      /\ \A n \in 1 .. Len(r) : (r \o s)[n] = r[n]
      /\ \A n \in Len(r) + 1 .. Len(r) + Len(s) : (r \o s)[n] = s[n - Len(r)]
  BY <1>1
<1>3. PICK t \in [0 .. Len(r) -> Holdings] :
        /\ t[0] = h /\ t[Len(r)] = i
        /\ \A n \in 1 .. Len(r) : Takes(t[n - 1], r[n], t[n])
  BY DEF Does
<1>4. PICK u \in [0 .. Len(s) -> Holdings] :
        /\ u[0] = i /\ u[Len(s)] = j
        /\ \A n \in 1 .. Len(s) : Takes(u[n - 1], s[n], u[n])
  BY DEF Does
<1> DEFINE v == [n \in 0 .. Len(r) + Len(s) |->
                   IF n <= Len(r) THEN t[n] ELSE u[n - Len(r)]]
<1>5. ASSUME NEW n \in 0 .. Len(s) PROVE v[Len(r) + n] = u[n]
  <2>1. Len(r) + n \in 0 .. Len(r) + Len(s) /\ (Len(r) + n) - Len(r) = n
    BY <1>2
  <2>2. CASE n = 0
    BY <1>2, <1>3, <1>4, <2>1, <2>2
  <2>3. CASE n # 0
    <3>1. ~(Len(r) + n <= Len(r))
      BY <1>2, <2>3
    <3>2. QED
      BY <2>1, <3>1
  <2>4. QED
    BY <2>2, <2>3
<1>6. v \in [0 .. Len(r \o s) -> Holdings] /\ v[0] = h /\ v[Len(r \o s)] = j
  <2>1. ASSUME NEW n \in 0 .. Len(r) + Len(s)
        PROVE  (IF n <= Len(r) THEN t[n] ELSE u[n - Len(r)]) \in Holdings
    <3>1. n <= Len(r) => n \in 0 .. Len(r)
      BY <1>2
    <3>2. n > Len(r) => n - Len(r) \in 0 .. Len(s)
      BY <1>2
    <3>3. CASE n <= Len(r)
      BY <3>1, <3>3
    <3>4. CASE n > Len(r)
      <4>1. ~(n <= Len(r))
        BY <1>2, <3>4
      <4>2. QED
        BY <3>2, <3>4, <4>1
    <3>5. QED
      BY <1>2, <3>3, <3>4
  <2>2. v[Len(r) + Len(s)] = j
    <3>1. Len(s) \in 0 .. Len(s)
      BY <1>2
    <3>2. QED
      BY <1>4, <1>5, <3>1
  <2>3. QED
    BY <1>2, <1>3, <2>1, <2>2
<1>7. ASSUME NEW n \in 1 .. Len(r \o s)
      PROVE  Takes(v[n - 1], (r \o s)[n], v[n])
  <2>1. CASE n <= Len(r)
    <3>1. v[n - 1] = t[n - 1] /\ v[n] = t[n] /\ (r \o s)[n] = r[n] /\ n \in 1 .. Len(r)
      BY <1>2, <2>1
    <3>2. QED
      BY <1>3, <3>1
  <2>2. CASE n > Len(r)
    <3>1. PICK k \in 1 .. Len(s) : n = Len(r) + k
      <4>1. n - Len(r) \in 1 .. Len(s) /\ n = Len(r) + (n - Len(r))
        BY <1>2, <2>2
      <4>2. QED
        BY <4>1
    <3>2. v[n - 1] = u[k - 1] /\ v[n] = u[k] /\ (r \o s)[n] = s[k]
      <4>1. k - 1 \in 0 .. Len(s) /\ k \in 0 .. Len(s) /\ n - 1 = Len(r) + (k - 1)
        BY <1>2, <3>1
      <4>2. QED
        BY <1>2, <1>5, <3>1, <4>1
    <3>3. QED
      BY <1>4, <3>2
  <2>3. QED
    BY <1>2, <2>1, <2>2
<1>8. ThenUnlocks(r \o s)
  <2> SUFFICES ASSUME NEW n \in 1 .. Len(r \o s), (r \o s)[n].mode = "forget"
               PROVE  /\ (r \o s)[n].op = "await"
                      /\ n + 1 \in 1 .. Len(r \o s)
                      /\ (r \o s)[n + 1] = Step("use", "-", "-", "conn")
    BY DEF ThenUnlocks
  <2>1. CASE n <= Len(r)
    BY <1>2, <2>1 DEF Does, ThenUnlocks
  <2>2. CASE n > Len(r)
    <3>1. PICK k \in 1 .. Len(s) : n = Len(r) + k
      <4>1. n - Len(r) \in 1 .. Len(s) /\ n = Len(r) + (n - Len(r))
        BY <1>2, <2>2
      <4>2. QED
        BY <4>1
    <3>2. s[k].op = "await" /\ k + 1 \in 1 .. Len(s) /\ s[k + 1] = Step("use", "-", "-", "conn")
      BY <1>2, <3>1 DEF Does, ThenUnlocks
    <3>3. QED
      BY <1>2, <3>1, <3>2
  <2>3. QED
    BY <1>2, <2>1, <2>2
<1> HIDE DEF v
<1>9. QED
  BY <1>2, <1>6, <1>7, <1>8 DEF Does

(* The first step of a call, and the rest of it.                            *)
LEMMA DoesFirst ==
  ASSUME NEW h \in Holdings, NEW j \in Holdings, NEW s, Does(h, s, j), s # <<>>
  PROVE  \E i \in Holdings : Takes(h, Head(s), i) /\ Does(i, Tail(s), j)
<1>1. /\ s \in Seq(Steps) /\ Len(s) \in Nat /\ Len(s) >= 1 /\ Head(s) = s[1]
      /\ Tail(s) \in Seq(Steps) /\ Len(Tail(s)) = Len(s) - 1
      /\ \A n \in 1 .. Len(s) - 1 : Tail(s)[n] = s[n + 1]
  BY DEF Does
<1>2. PICK t \in [0 .. Len(s) -> Holdings] :
        /\ t[0] = h /\ t[Len(s)] = j
        /\ \A n \in 1 .. Len(s) : Takes(t[n - 1], s[n], t[n])
  BY DEF Does
<1> DEFINE u == [n \in 0 .. Len(s) - 1 |-> t[n + 1]]
<1>3. u \in [0 .. Len(Tail(s)) -> Holdings] /\ u[0] = t[1] /\ u[Len(Tail(s))] = j
  BY <1>1, <1>2
<1>4. ASSUME NEW n \in 1 .. Len(Tail(s)) PROVE Takes(u[n - 1], Tail(s)[n], u[n])
  <2>1. /\ n + 1 \in 1 .. Len(s) /\ (n + 1) - 1 = n
        /\ u[n - 1] = t[n] /\ u[n] = t[n + 1] /\ Tail(s)[n] = s[n + 1]
    BY <1>1
  <2>2. Takes(t[(n + 1) - 1], s[n + 1], t[n + 1])
    BY <1>2, <2>1
  <2>3. QED
    BY <2>1, <2>2
<1>5. ThenUnlocks(Tail(s))
  <2> SUFFICES ASSUME NEW n \in 1 .. Len(Tail(s)), Tail(s)[n].mode = "forget"
               PROVE  /\ Tail(s)[n].op = "await"
                      /\ n + 1 \in 1 .. Len(Tail(s))
                      /\ Tail(s)[n + 1] = Step("use", "-", "-", "conn")
    BY DEF ThenUnlocks
  <2>1. n + 1 \in 1 .. Len(s) /\ Tail(s)[n] = s[n + 1]
    BY <1>1
  <2>2. /\ s[n + 1].op = "await" /\ (n + 1) + 1 \in 1 .. Len(s)
        /\ s[(n + 1) + 1] = Step("use", "-", "-", "conn")
    BY <2>1 DEF Does, ThenUnlocks
  <2>3. QED
    BY <1>1, <2>1, <2>2
<1>6. Takes(h, Head(s), t[1]) /\ t[1] \in Holdings
  <2>1. 1 \in 1 .. Len(s) /\ 1 - 1 = 0 /\ 1 \in 0 .. Len(s)
    BY <1>1
  <2>2. QED
    BY <1>1, <1>2, <2>1
<1> HIDE DEF u
<1>7. Does(t[1], Tail(s), j)
  BY <1>1, <1>3, <1>4, <1>5 DEF Does
<1>8. QED
  BY <1>6, <1>7

LEMMA DoesNothing ==
  ASSUME NEW h, NEW j, Does(h, <<>>, j)
  PROVE  h = j
BY DEF Does

-----------------------------------------------------------------------------
(* The fragments that calls are made of, and the calls: each of them leads  *)
(* from what it needs back to where it began.                               *)

Round(s) == Does(Free, s, Free) /\ s # <<>>

LEMMA FreeIsHolding == Free \in Holdings /\ OnlyConn \in Holdings
  BY DEF Free, Holdings, OnlyConn, Locks

LEMMA RoundAfter ==
  ASSUME NEW r, NEW s, Does(Free, r, Free), Round(s)
  PROVE  Round(r \o s)
<1>1. r \in Seq(Steps) /\ s \in Seq(Steps) /\ s # <<>>
  BY DEF Round, Does
<1>2. r \o s # <<>>
  BY <1>1
<1>3. QED
  BY <1>2, FreeIsHolding, DoesBoth DEF Round

LEMMA DoesLock ==
  ASSUME NEW m \in Locks, NEW h \in Holdings, h[m] = "free", MayTake(h, m)
  PROVE  Does(h, Lock(m), [h EXCEPT ![m] = "write"])
<1> DEFINE i == [h EXCEPT ![m] = "asked"]
           lock == Step("lock", m, "-", "-")
           enter == Step("enter", m, "-", "-")
<1>1. i \in Holdings /\ [h EXCEPT ![m] = "write"] \in Holdings
  BY DEF Holdings
<1>2. lock \in Steps /\ enter \in Steps
  BY DEF Steps, Step
<1>3. Takes(h, lock, i) /\ lock.mode # "forget"
  BY DEF Takes, Step
<1>4. Takes(i, enter, [h EXCEPT ![m] = "write"]) /\ enter.mode # "forget"
  BY DEF Takes, Step, MayTake, Has, Holdings
<1>5. Lock(m) = <<lock>> \o <<enter>>
  BY DEF Lock
<1> HIDE DEF i, lock, enter
<1>6. QED
  BY <1>1, <1>2, <1>3, <1>4, <1>5, DoesOne, DoesBoth

LEMMA DoesRLock ==
  ASSUME NEW m \in Locks, NEW h \in Holdings, h[m] = "free", MayTake(h, m)
  PROVE  Does(h, RLock(m), [h EXCEPT ![m] = "read"])
<1> DEFINE rlock == Step("rlock", m, "-", "-")
<1>1. [h EXCEPT ![m] = "read"] \in Holdings
  BY DEF Holdings
<1>2. rlock \in Steps /\ Takes(h, rlock, [h EXCEPT ![m] = "read"]) /\ rlock.mode # "forget"
  BY DEF Steps, Step, Takes
<1> HIDE DEF rlock
<1>3. Does(h, <<rlock>>, [h EXCEPT ![m] = "read"])
  BY <1>1, <1>2, DoesOne
<1>4. QED
  BY <1>3 DEF RLock, rlock

(* An access that keeps its locks, and one that is the last under m.        *)
Lawful(h, field, mode) ==
  /\ \A k \in Locks : h[k] # "asked"
  /\ field \in Guarded => Has(h, Guard(field))
  /\ mode = "write" => field = "lastRunTime" \/ (field \in Guarded /\ h[Guard(field)] = "write")

LEMMA DoesUse ==
  ASSUME NEW h \in Holdings, NEW field \in Fields \cup {"-"},
         NEW mode \in {"read", "write", "-"}, Lawful(h, field, mode)
  PROVE  /\ Does(h, <<Step("use", field, mode, "-")>>, h)
         /\ \A m \in Locks : Has(h, m) =>
              Does(h, <<Step("use", field, mode, m)>>, [h EXCEPT ![m] = "free"])
<1>1. ASSUME NEW m \in Locks \cup {"-"}
      PROVE  /\ Step("use", field, mode, m) \in Steps
             /\ Step("use", field, mode, m).mode # "forget"
  BY DEF Steps, Step
<1>2. Takes(h, Step("use", field, mode, "-"), h)
  BY DEF Takes, Step, Lawful
<1>3. ASSUME NEW m \in Locks, Has(h, m)
      PROVE  /\ Takes(h, Step("use", field, mode, m), [h EXCEPT ![m] = "free"])
             /\ [h EXCEPT ![m] = "free"] \in Holdings
  BY <1>3 DEF Takes, Step, Lawful, Holdings, Has
<1>4. QED
  BY <1>1, <1>2, <1>3, DoesOne

(* A copy under a lock, and a change, by who holds nothing.                 *)
LEMMA DoesCopy ==
  ASSUME NEW field \in Guarded
  PROVE  Does(Free, RLock(Guard(field)) \o Reads(field, Guard(field)), Free)
<1> DEFINE m == Guard(field)
           h == [Free EXCEPT ![m] = "read"]
<1>1. m \in Locks /\ field \in Fields
  BY DEF Guarded, Guard, Locks, Fields
<1>2. h \in Holdings /\ [h EXCEPT ![m] = "free"] = Free /\ Has(h, m)
  BY <1>1 DEF Holdings, Free, Has
<1>3. Does(Free, RLock(m), h)
  BY <1>1, FreeIsHolding, DoesRLock DEF Free, MayTake
<1>4. Lawful(h, field, "read")
  BY <1>1, <1>2 DEF Lawful, Free
<1> HIDE DEF h, m
<1>5. Does(h, Reads(field, m), Free)
  BY <1>1, <1>2, <1>4, DoesUse DEF Reads
<1>6. QED
  BY <1>2, <1>3, <1>5, FreeIsHolding, DoesBoth DEF m

LEMMA DoesChange ==
  ASSUME NEW field \in Guarded
  PROVE  Round(Lock(Guard(field)) \o Writes(field, Guard(field)))
<1> DEFINE m == Guard(field)
           h == [Free EXCEPT ![m] = "write"]
<1>1. m \in Locks /\ field \in Fields
  BY DEF Guarded, Guard, Locks, Fields
<1>2. h \in Holdings /\ [h EXCEPT ![m] = "free"] = Free /\ Has(h, m)
  BY <1>1 DEF Holdings, Free, Has
<1>3. Does(Free, Lock(m), h)
  BY <1>1, FreeIsHolding, DoesLock DEF Free, MayTake
<1>4. Lawful(h, field, "write")
  BY <1>1, <1>2 DEF Lawful, Free
<1> HIDE DEF h, m
<1>5. Does(h, Writes(field, m), Free)
  BY <1>1, <1>2, <1>4, DoesUse DEF Writes
<1>6. Does(Free, Lock(m) \o Writes(field, m), Free)
  BY <1>2, <1>3, <1>5, FreeIsHolding, DoesBoth
<1>7. Lock(m) \o Writes(field, m) # <<>>
  BY <1>3, <1>5 DEF Does, Writes
<1>8. QED
  BY <1>6, <1>7 DEF Round, m

LEMMA DoesAwait ==
  ASSUME NEW h \in Holdings, \A k \in Locks : h[k] # "asked",
         NEW who \in {Page, Browser, End}
  PROVE  Does(h, Await(who, "ignore"), h)
<1>1. /\ Step("await", who, "ignore", "-") \in Steps
      /\ Step("await", who, "ignore", "-").mode # "forget"
      /\ Takes(h, Step("await", who, "ignore", "-"), h)
  BY DEF Steps, Step, Takes
<1>2. QED
  BY <1>1, DoesOne DEF Await

LEMMA DoesSend ==
  ASSUME NEW orElse \in {"forget", "ignore"}
  PROVE  Round(Send(orElse))
<1> DEFINE await == Step("await", Page, orElse, "-")
           unlock == Step("use", "-", "-", "conn")
           both == <<await, unlock>>
           t == [n \in 0 .. 2 |-> IF n = 2 THEN Free ELSE OnlyConn]
<1>1. Does(Free, Lock("conn"), OnlyConn)
  BY FreeIsHolding, DoesLock DEF Free, MayTake, Locks, OnlyConn
<1>2. await \in Steps /\ unlock \in Steps
  BY DEF Steps, Step, Locks
<1>3. both \in Seq(Steps) /\ Len(both) = 2 /\ both[1] = await /\ both[2] = unlock
  BY <1>2
<1>4. Takes(OnlyConn, await, OnlyConn)
  BY DEF Takes, Step, OnlyConn, Free
<1>5. Takes(OnlyConn, unlock, Free)
  BY DEF Takes, Step, OnlyConn, Free, Has, Locks, Guarded, Fields
<1>6. await.op = "await" /\ unlock.mode # "forget"
  BY DEF Step
<1>7. /\ t \in [0 .. 2 -> Holdings]
      /\ t[0] = OnlyConn /\ t[1] = OnlyConn /\ t[2] = Free
  BY FreeIsHolding
<1> HIDE DEF t
<1>8. \A n \in 1 .. 2 : Takes(t[n - 1], both[n], t[n])
  <2>1. ASSUME NEW n \in 1 .. 2 PROVE (n = 1 /\ n - 1 = 0) \/ (n = 2 /\ n - 1 = 1)
    OBVIOUS
  <2>2. QED
    BY <1>3, <1>4, <1>5, <1>7, <2>1
<1>9. ThenUnlocks(both)
  <2> HIDE DEF both, await
  <2>1. ASSUME NEW n \in 1 .. 2 PROVE n = 1 \/ n = 2
    OBVIOUS
  <2>2. QED
    BY <1>3, <1>6, <2>1 DEF ThenUnlocks
<1>10. Does(OnlyConn, both, Free)
  BY <1>3, <1>7, <1>8, <1>9 DEF Does
<1>11. Send(orElse) = Lock("conn") \o both
  <2>1. Lock("conn") \in Seq(Steps)
    BY <1>1 DEF Does
  <2>2. <<await>> \in Seq(Steps) /\ <<unlock>> \in Seq(Steps)
    BY <1>2
  <2>3. both = <<await>> \o <<unlock>>
    OBVIOUS
  <2> HIDE DEF both, await, unlock
  <2>4. (Lock("conn") \o <<await>>) \o <<unlock>> = Lock("conn") \o (<<await>> \o <<unlock>>)
    BY <2>1, <2>2, ConcatAssociative
  <2>5. QED
    BY <2>3, <2>4 DEF Send, Await, Unlock, await, unlock
<1> HIDE DEF both
<1>12. Send(orElse) # <<>>
  BY <1>1, <1>3, <1>11 DEF Does
<1>13. QED
  BY <1>1, <1>10, <1>11, <1>12, FreeIsHolding, DoesBoth DEF Round

LEMMA DoesCopies == Does(Free, copyStatus, Free) /\ Does(Free, copyLogs, Free)
<1>1. "status" \in Guarded /\ Guard("status") = "status"
  BY DEF Guarded, Guard, Fields
<1>2. "logs" \in Guarded /\ Guard("logs") = "logs"
  BY DEF Guarded, Guard, Fields
<1>3. QED
  BY <1>1, <1>2, DoesCopy DEF copyStatus, copyLogs

LEMMA RoundChangeConns == Round(ChangeConns)
<1>1. "wsConns" \in Guarded /\ Guard("wsConns") = "ws"
  BY DEF Guarded, Guard, Fields
<1>2. QED
  BY <1>1, DoesChange DEF ChangeConns

LEMMA RoundBroadcast == Round(broadcastMonitor) /\ Round(broadcastStatus)
<1>1. "wsConns" \in Guarded /\ Guard("wsConns") = "ws"
  BY DEF Guarded, Guard, Fields
<1>2. Does(Free, RLock("ws") \o Reads("wsConns", "ws"), Free)
  BY <1>1, DoesCopy
<1>3. Round(broadcastMonitor)
  BY <1>2, DoesSend, RoundAfter DEF broadcastMonitor
<1>4. QED
  BY <1>3, DoesCopies, RoundAfter DEF broadcastStatus

LEMMA RoundAppendLog == Round(appendLog)
<1>1. "logs" \in Guarded /\ Guard("logs") = "logs"
  BY DEF Guarded, Guard, Fields
<1>2. Does(Free, Lock("logs") \o Writes("logs", "logs"), Free)
  BY <1>1, DoesChange DEF Round
<1>3. Does(Free, Lock("logs") \o Writes("logs", "logs") \o copyLogs, Free)
  BY <1>2, DoesCopies, DoesBoth, FreeIsHolding
<1>4. QED
  BY <1>3, RoundBroadcast, RoundAfter DEF appendLog

LEMMA RoundListBackups == Round(ListBackups)
<1>1. "listBackups" \in Guarded /\ Guard("listBackups") = "logs"
  BY DEF Guarded, Guard, Fields
<1>2. Does(Free, RLock("logs") \o Reads("listBackups", "logs"), Free)
  BY <1>1, DoesCopy
<1>3. QED
  BY <1>2, RoundAppendLog, RoundAfter DEF ListBackups

(* What UpdateBackupResult and the ticker do with the status locked.        *)
StatusHeld == [Free EXCEPT !["status"] = "write"]

LEMMA DoesLockStatus ==
  /\ StatusHeld \in Holdings
  /\ Does(Free, Lock("status"), StatusHeld)
  /\ Does(StatusHeld, Writes("status", "status"), Free)
<1>1. "status" \in Locks /\ "status" \in Guarded /\ Guard("status") = "status"
  BY DEF Locks, Guarded, Guard, Fields
<1>2. /\ StatusHeld \in Holdings /\ [StatusHeld EXCEPT !["status"] = "free"] = Free
      /\ Has(StatusHeld, "status")
  BY <1>1 DEF StatusHeld, Free, Holdings, Has
<1>3. Does(Free, Lock("status"), StatusHeld)
  BY <1>1, FreeIsHolding, DoesLock DEF Free, MayTake, StatusHeld
<1>4. Lawful(StatusHeld, "status", "write")
  BY <1>1, <1>2 DEF Lawful, StatusHeld, Free
<1>5. Does(StatusHeld, Writes("status", "status"), Free)
  BY <1>1, <1>2, <1>4, DoesUse DEF Writes, Guarded
<1>6. QED
  BY <1>2, <1>3, <1>5

LEMMA DoesNextRun == Does(StatusHeld, NextRun, StatusHeld)
<1> DEFINE h == [StatusHeld EXCEPT !["sched"] = "write"]
<1>1. "sched" \in Locks /\ "cron" \in Guarded /\ Guard("cron") = "sched"
  BY DEF Locks, Guarded, Guard, Fields
<1>2. StatusHeld["sched"] = "free" /\ MayTake(StatusHeld, "sched")
  BY DEF StatusHeld, Free, MayTake, Has, Locks
<1>3. h \in Holdings /\ [h EXCEPT !["sched"] = "free"] = StatusHeld /\ Has(h, "sched")
  BY <1>1 DEF StatusHeld, Free, Holdings, Has, Locks
<1>4. Does(StatusHeld, Lock("sched"), h)
  BY <1>1, <1>2, DoesLockStatus, DoesLock
<1>5. Lawful(h, "cron", "read")
  BY <1>1, <1>3 DEF Lawful, StatusHeld, Free
<1> HIDE DEF h
<1>6. Does(h, Reads("cron", "sched"), StatusHeld)
  BY <1>1, <1>3, <1>5, DoesUse DEF Reads, Guarded
<1>7. QED
  BY <1>3, <1>4, <1>6, DoesLockStatus, DoesBoth DEF NextRun

LEMMA RoundTick == Round(updateTimeStatus)
<1>1. Does(Free, Lock("status") \o NextRun, StatusHeld)
  BY FreeIsHolding, DoesLockStatus, DoesNextRun, DoesBoth
<1>2. Does(Free, Lock("status") \o NextRun \o Writes("status", "status"), Free)
  BY <1>1, FreeIsHolding, DoesLockStatus, DoesBoth
<1>3. QED
  BY <1>2, RoundBroadcast, RoundAfter DEF updateTimeStatus

LEMMA RoundReport == Round(UpdateBackupResult)
<1> DEFINE h == [Free EXCEPT !["lastRun"] = "write"]
           first == Lock("lastRun") \o Writes("lastRunTime", "lastRun")
           second == first \o Lock("status") \o Reads("lastRunTime", "-")
                       \o Writes("status", "status")
<1>1. "lastRun" \in Locks /\ "lastRunTime" \in Fields /\ "lastRunTime" \notin Guarded
  BY DEF Locks, Fields, Guarded
<1>2. h \in Holdings /\ [h EXCEPT !["lastRun"] = "free"] = Free /\ Has(h, "lastRun")
  BY <1>1 DEF Holdings, Free, Has
<1>3. Does(Free, Lock("lastRun"), h)
  BY <1>1, FreeIsHolding, DoesLock DEF Free, MayTake
<1>4. Lawful(h, "lastRunTime", "write") /\ Lawful(StatusHeld, "lastRunTime", "read")
  BY <1>1 DEF Lawful, StatusHeld, Free
<1>5. Does(StatusHeld, Reads("lastRunTime", "-"), StatusHeld)
  BY <1>1, <1>4, DoesLockStatus, DoesUse DEF Reads
<1> HIDE DEF h
<1>6. Does(h, Writes("lastRunTime", "lastRun"), Free)
  BY <1>1, <1>2, <1>4, DoesUse DEF Writes
<1>7. Does(Free, first, Free)
  BY <1>2, <1>3, <1>6, FreeIsHolding, DoesBoth
<1> HIDE DEF first
<1>8. Does(Free, first \o Lock("status"), StatusHeld)
  BY <1>7, FreeIsHolding, DoesLockStatus, DoesBoth
<1>9. Does(Free, first \o Lock("status") \o Reads("lastRunTime", "-"), StatusHeld)
  BY <1>5, <1>8, FreeIsHolding, DoesLockStatus, DoesBoth
<1>10. Does(Free, second, Free)
  BY <1>9, FreeIsHolding, DoesLockStatus, DoesBoth
<1> HIDE DEF second
<1>11. Round(second \o broadcastStatus)
  BY <1>10, RoundBroadcast, RoundAfter
<1>12. Round(second \o broadcastStatus \o ListBackups)
  BY <1>11, RoundListBackups, RoundAfter DEF Round
<1>13. Round(second \o broadcastStatus \o ListBackups \o broadcastMonitor)
  BY <1>12, RoundBroadcast, RoundAfter DEF Round
<1>14. QED
  BY <1>13 DEF UpdateBackupResult, second, first

LEMMA RoundSkip == Round(SkipFiring)
<1>1. "running" \in Guarded /\ Guard("running") = "sched"
  BY DEF Guarded, Guard, Fields
<1>2. Does(Free, Lock("sched") \o Writes("running", "sched"), Free)
  BY <1>1, DoesChange DEF Round
<1>3. QED
  BY <1>2, RoundAppendLog, RoundAfter DEF SkipFiring

(* A request that is answered with the lock held.                           *)
LEMMA RoundAnswer ==
  ASSUME NEW field \in Guarded
  PROVE  Round(RLock(Guard(field)) \o Reads(field, "-")
                 \o Await(Browser, "ignore") \o Unlock(Guard(field)))
<1> DEFINE m == Guard(field)
           h == [Free EXCEPT ![m] = "read"]
<1>1. m \in Locks /\ field \in Fields
  BY DEF Guarded, Guard, Locks, Fields
<1>2. /\ h \in Holdings /\ [h EXCEPT ![m] = "free"] = Free /\ Has(h, m)
      /\ \A k \in Locks : h[k] # "asked"
  BY <1>1 DEF Holdings, Free, Has
<1>3. Does(Free, RLock(m), h)
  BY <1>1, FreeIsHolding, DoesRLock DEF Free, MayTake
<1>4. Lawful(h, field, "read") /\ Lawful(h, "-", "-")
  BY <1>1, <1>2 DEF Lawful, Guarded, Fields
<1> HIDE DEF h, m
<1>5. Does(h, Reads(field, "-"), h)
  BY <1>1, <1>2, <1>4, DoesUse DEF Reads
<1>6. Does(h, Await(Browser, "ignore"), h)
  BY <1>2, DoesAwait
<1>7. Does(h, Unlock(m), Free) /\ Unlock(m) # <<>>
  BY <1>1, <1>2, <1>4, DoesUse DEF Unlock
<1>8. Does(Free, RLock(m) \o Reads(field, "-"), h)
  BY <1>2, <1>3, <1>5, FreeIsHolding, DoesBoth
<1>9. Does(Free, RLock(m) \o Reads(field, "-") \o Await(Browser, "ignore"), h)
  BY <1>2, <1>6, <1>8, FreeIsHolding, DoesBoth
<1>10. Does(Free, RLock(m) \o Reads(field, "-") \o Await(Browser, "ignore") \o Unlock(m),
            Free)
  BY <1>2, <1>7, <1>9, FreeIsHolding, DoesBoth
<1>11. RLock(m) \o Reads(field, "-") \o Await(Browser, "ignore") \o Unlock(m) # <<>>
  <2>1. /\ RLock(m) \o Reads(field, "-") \o Await(Browser, "ignore") \in Seq(Steps)
        /\ Unlock(m) \in Seq(Steps)
    BY <1>7, <1>9 DEF Does
  <2> HIDE DEF Does
  <2>2. QED
    BY <1>7, <2>1, ConcatEmptySeq
<1>12. QED
  BY <1>10, <1>11 DEF Round, m

LEMMA RoundRequests ==
  Round(handleStatus) /\ Round(handleLogs) /\ Round(handleBackups) /\ Round(handleWebSocket)
<1>1. Round(handleStatus)
  BY RoundAnswer DEF handleStatus, Guarded, Guard, Fields
<1>2. Round(handleLogs)
  BY RoundAnswer DEF handleLogs, Guarded, Guard, Fields
<1>3. Round(handleBackups)
  <2>1. Does(Free, Await(Browser, "ignore"), Free)
    BY DoesAwait, FreeIsHolding DEF Free
  <2>2. Round(Await(Browser, "ignore"))
    BY <2>1 DEF Await, Round
  <2>3. QED
    BY <2>2, RoundListBackups, RoundAfter DEF handleBackups, Round
<1>4. Round(handleWebSocket)
  <2>1. Does(Free, ChangeConns \o copyStatus, Free)
    BY RoundChangeConns, DoesCopies, DoesBoth, FreeIsHolding DEF Round
  <2>2. Round(ChangeConns \o copyStatus \o Send("ignore"))
    BY <2>1, DoesSend, RoundAfter
  <2>3. Does(Free, ChangeConns \o copyStatus \o Send("ignore") \o copyLogs, Free)
    BY <2>2, DoesCopies, DoesBoth, FreeIsHolding DEF Round
  <2>4. Round(ChangeConns \o copyStatus \o Send("ignore") \o copyLogs \o Send("ignore"))
    BY <2>3, DoesSend, RoundAfter
  <2>5. Round(ChangeConns \o copyStatus \o Send("ignore") \o copyLogs \o Send("ignore")
                \o ListBackups)
    BY <2>4, RoundListBackups, RoundAfter DEF Round
  <2>6. Round(ChangeConns \o copyStatus \o Send("ignore") \o copyLogs \o Send("ignore")
                \o ListBackups \o Send("ignore"))
    BY <2>5, DoesSend, RoundAfter DEF Round
  <2>7. Round(ReadLoop)
    <3>1. Does(Free, Await(End, "ignore"), Free)
      BY DoesAwait, FreeIsHolding DEF Free
    <3>2. QED
      BY <3>1 DEF ReadLoop, Await, Round
  <2>8. Round(ChangeConns \o copyStatus \o Send("ignore") \o copyLogs \o Send("ignore")
                \o ListBackups \o Send("ignore") \o ReadLoop)
    BY <2>6, <2>7, RoundAfter DEF Round
  <2>9. Round(ChangeConns \o copyStatus \o Send("ignore") \o copyLogs \o Send("ignore")
                \o ListBackups \o Send("ignore") \o ReadLoop \o ChangeConns)
    BY <2>8, RoundChangeConns, RoundAfter DEF Round
  <2>10. QED
    BY <2>9, DoesSend, RoundAfter DEF handleWebSocket, Close, Round
<1>5. QED
  BY <1>1, <1>2, <1>3, <1>4

(* Every call takes its locks in order, uses what they guard under them,    *)
(* and gives them all back.                                                 *)
LEMMA CallsAreRounds ==
  \A g \in Goroutines : \A c \in Calls(g) :
    c.name \in Names /\ c.name # "none" /\ Round(c.steps)
  BY RoundSkip, RoundReport, RoundTick, RoundRequests DEF Calls, Call, Names
-----------------------------------------------------------------------------
(* What the goroutines hold.                                                *)

(* The holdings of g, which has the steps s left, under the writers w and   *)
(* the readers r.                                                           *)
Held(g, s, w, r) ==
  [m \in Locks |-> IF g \in r[m] THEN "read"
                   ELSE IF w[m] # g THEN "free"
                   ELSE IF s # <<>> /\ Head(s).op = "enter" /\ Head(s).what = m
                        THEN "asked"
                   ELSE "write"]

Holds(g) == Held(g, call[g].steps, writer, readers)

Typed ==
  /\ call \in [Goroutines -> [name : Names, steps : Seq(Steps)]]
  /\ \A g \in Goroutines : call[g].name = "none" <=> call[g].steps = <<>>
  /\ writer \in [Locks -> Goroutines \cup {Nobody}]
  /\ readers \in [Locks -> SUBSET Goroutines]

(* Each call is in order from what its goroutine holds now.                 *)
InOrder == \A g \in Goroutines : Does(Holds(g), call[g].steps, Free)

(* A lock with readers has no writer, or one that waits for them.           *)
Exclusive ==
  \A m \in Locks : \A g \in readers[m], k \in Goroutines :
    writer[m] = k => k # g /\ At(k, "enter") /\ What(k) = m

IInv == Typed /\ InOrder /\ Exclusive

LEMMA HeldIsHolding ==
  ASSUME NEW g, NEW s, NEW w, NEW r
  PROVE  Held(g, s, w, r) \in Holdings
  BY DEF Held, Holdings

(* Who has asked for a lock goes on to enter it.                            *)
LEMMA AskedMeansEnter ==
  ASSUME NEW h \in Holdings, NEW s, Does(h, s, Free), NEW m \in Locks
  PROVE  h[m] = "asked" <=> s # <<>> /\ Head(s).op = "enter" /\ Head(s).what = m
<1>1. CASE s = <<>>
  <2>1. h = Free
    BY <1>1, DoesNothing
  <2>2. QED
    BY <1>1, <2>1 DEF Free
<1>2. CASE s # <<>>
  <2>1. PICK i \in Holdings : Takes(h, Head(s), i)
    BY <1>2, FreeIsHolding, DoesFirst
  <2>2. QED
    BY <1>2, <2>1 DEF Takes, MayTake, Has
<1>3. QED
  BY <1>1, <1>2

LEMMA HeldIs ==
  ASSUME NEW g, NEW s, NEW w, NEW r, NEW h \in Holdings, Does(h, s, Free),
         \A m \in Locks : /\ h[m] = "read" <=> g \in r[m]
                          /\ h[m] = "free" <=> g \notin r[m] /\ w[m] # g
  PROVE  Held(g, s, w, r) = h
<1>1. ASSUME NEW m \in Locks PROVE Held(g, s, w, r)[m] = h[m]
  <2>1. h[m] \in {"free", "asked", "read", "write"}
    BY DEF Holdings
  <2>2. h[m] = "asked" <=> s # <<>> /\ Head(s).op = "enter" /\ Head(s).what = m
    BY AskedMeansEnter
  <2>3. QED
    BY <2>1, <2>2 DEF Held
<1>2. QED
  BY <1>1, HeldIsHolding DEF Holdings

LEMMA AtStep ==
  ASSUME Typed, NEW g \in Goroutines
  PROVE  /\ call[g] # NoCall <=> call[g].steps # <<>>
         /\ \A op : At(g, op) <=> call[g].steps # <<>> /\ Head(call[g].steps).op = op
<1>1. call[g] # NoCall <=> call[g].steps # <<>>
  BY DEF Typed, NoCall, Call
<1>2. QED
  BY <1>1 DEF At

(* The next step of a call is in order.                                     *)
LEMMA NextStep ==
  ASSUME Typed, InOrder, NEW g \in Goroutines, call[g].steps # <<>>
  PROVE  \E i \in Holdings : /\ Takes(Holds(g), Head(call[g].steps), i)
                             /\ Does(i, Tail(call[g].steps), Free)
  BY HeldIsHolding, FreeIsHolding, DoesFirst DEF InOrder, Holds

LEMMA GoSteps ==
  ASSUME Typed, NEW g \in Goroutines, call[g].steps # <<>>, Go(g)
  PROVE  /\ call' \in [Goroutines -> [name : Names, steps : Seq(Steps)]]
         /\ \A k \in Goroutines : call'[k].name = "none" <=> call'[k].steps = <<>>
         /\ call'[g].steps = Tail(call[g].steps)
         /\ \A k \in Goroutines \ {g} : call'[k] = call[k]
<1> DEFINE rest == Tail(call[g].steps)
<1>1. rest \in Seq(Steps) /\ call[g].name \in Names /\ call[g].name # "none"
  BY DEF Typed
<1>2. NoCall \in [name : Names, steps : Seq(Steps)] /\ NoCall.name = "none"
      /\ NoCall.steps = <<>>
  BY DEF NoCall, Call, Names
<1>3. CASE rest = <<>>
  <2>1. call' = [call EXCEPT ![g] = NoCall]
    BY <1>3 DEF Go
  <2>2. QED
    BY <1>2, <1>3, <2>1 DEF Typed
<1>4. CASE rest # <<>>
  <2>1. call' = [call EXCEPT ![g] = [call[g] EXCEPT !.steps = rest]]
    BY <1>4 DEF Go
  <2> HIDE DEF rest
  <2>2. /\ [call[g] EXCEPT !.steps = rest] \in [name : Names, steps : Seq(Steps)]
        /\ [call[g] EXCEPT !.steps = rest].name = call[g].name
        /\ [call[g] EXCEPT !.steps = rest].steps = rest
    BY <1>1 DEF Typed
  <2>3. QED
    BY <1>1, <1>4, <2>1, <2>2 DEF Typed, rest
<1>5. QED
  BY <1>3, <1>4

(* A step of g after which it holds h, and the others what they held.       *)
LEMMA OneMoves ==
  ASSUME Typed, InOrder, NEW g \in Goroutines, NEW h \in Holdings,
         Does(h, call'[g].steps, Free),
         \A m \in Locks : /\ h[m] = "read" <=> g \in readers'[m]
                          /\ h[m] = "free" <=> g \notin readers'[m] /\ writer'[m] # g,
         \A k \in Goroutines \ {g} :
           /\ call'[k] = call[k]
           /\ \A m \in Locks : /\ k \in readers'[m] <=> k \in readers[m]
                               /\ writer'[m] = k <=> writer[m] = k
  PROVE  InOrder'
<1> SUFFICES ASSUME NEW k \in Goroutines
             PROVE  Does(Held(k, call'[k].steps, writer', readers'), call'[k].steps, Free)
  BY DEF InOrder, Holds
<1>1. CASE k = g
  BY <1>1, HeldIs
<1>2. CASE k # g
  <2>1. Held(k, call'[k].steps, writer', readers') = Holds(k)
    BY <1>2 DEF Held, Holds
  <2>2. QED
    BY <1>2, <2>1 DEF InOrder
<1>3. QED
  BY <1>1, <1>2
-----------------------------------------------------------------------------
(* Each step keeps the invariant.                                           *)

(* The fields of what g holds.                                              *)
LEMMA HoldsFields ==
  ASSUME NEW g \in Goroutines, NEW m \in Locks
  PROVE  /\ Holds(g)[m] = "read" <=> g \in readers[m]
         /\ Holds(g)[m] = "free" <=> g \notin readers[m] /\ writer[m] # g
  BY DEF Holds, Held

LEMMA StepBegin ==
  ASSUME IInv, NEW g \in Goroutines, Begin(g)
  PROVE  IInv'
<1>1. PICK c \in Calls(g) : call' = [call EXCEPT ![g] = c]
  BY DEF Begin
<1>2. c.name \in Names /\ c.name # "none" /\ Does(Free, c.steps, Free) /\ c.steps # <<>>
  BY <1>1, CallsAreRounds DEF Round
<1>3. c = [name |-> c.name, steps |-> c.steps] /\ c.steps \in Seq(Steps)
  BY <1>1, <1>2 DEF Calls, Call, Does
<1>4. call[g] = NoCall /\ call[g].steps = <<>> /\ call'[g] = c /\ UNCHANGED <<writer, readers>>
      /\ \A k \in Goroutines \ {g} : call'[k] = call[k]
  BY <1>1 DEF Begin, NoCall, Call, IInv, Typed
<1>5. Typed'
  BY <1>1, <1>2, <1>3, <1>4 DEF IInv, Typed
<1>6. Holds(g) = Free
  BY <1>4, DoesNothing DEF IInv, InOrder
<1>7. InOrder'
  BY <1>2, <1>4, <1>6, FreeIsHolding, HoldsFields, OneMoves DEF IInv
<1>8. Exclusive'
  <2>1. \A k \in Goroutines : At(k, "enter") => k # g
    BY <1>4 DEF At
  <2>2. QED
    BY <1>4, <2>1 DEF IInv, Exclusive, At, What
<1>9. QED
  BY <1>5, <1>7, <1>8 DEF IInv

LEMMA StepAnnounce ==
  ASSUME IInv, NEW g \in Goroutines, Announce(g)
  PROVE  IInv'
<1> DEFINE m == What(g)
           h == [Holds(g) EXCEPT ![m] = "asked"]
<1>1. Typed /\ call[g].steps # <<>> /\ Head(call[g].steps).op = "lock"
  BY AtStep DEF IInv, Announce
<1>2. PICK i \in Holdings : /\ Takes(Holds(g), Head(call[g].steps), i)
                            /\ Does(i, Tail(call[g].steps), Free)
  BY <1>1, NextStep DEF IInv
<1>3. m \in Locks /\ Holds(g)[m] = "free" /\ i = h /\ h \in Holdings
  BY <1>1, <1>2 DEF Takes, What
<1>4. /\ writer[m] = Nobody /\ writer' = [writer EXCEPT ![m] = g] /\ readers' = readers
      /\ call'[g].steps = Tail(call[g].steps)
      /\ \A k \in Goroutines \ {g} : call'[k] = call[k]
  BY <1>1, GoSteps DEF Announce
<1>5. Typed'
  BY <1>1, <1>3, <1>4, GoSteps DEF Announce, Typed
<1>6. g # Nobody /\ Nobody \notin Goroutines
  BY GoroutineAssumption
<1>7. InOrder'
  <2>1. \A k \in Locks : /\ i[k] = "read" <=> g \in readers'[k]
                         /\ i[k] = "free" <=> g \notin readers'[k] /\ writer'[k] # g
    BY <1>1, <1>3, <1>4, HoldsFields, HeldIsHolding DEF Holds, Holdings, Typed
  <2>2. \A k \in Goroutines \ {g}, n \in Locks :
          /\ k \in readers'[n] <=> k \in readers[n]
          /\ writer'[n] = k <=> writer[n] = k
    BY <1>1, <1>3, <1>4, <1>6 DEF Typed
  <2>3. QED
    BY <1>1, <1>2, <1>4, <2>1, <2>2, OneMoves DEF IInv
<1>8. Exclusive'
  <2>1. h[m] = "asked" /\ Does(h, call'[g].steps, Free)
    BY <1>2, <1>3, <1>4, HeldIsHolding DEF Holds, Holdings
  <2>2. call'[g].steps # <<>> /\ Head(call'[g].steps).op = "enter"
        /\ Head(call'[g].steps).what = m
    BY <1>3, <2>1, AskedMeansEnter
  <2>3. At(g, "enter")' /\ What(g)' = m /\ ~At(g, "enter")
    BY <1>1, <2>2 DEF At, What, NoCall, Call
  <2>4. g \notin readers[m]
    BY <1>3, HoldsFields
  <2>5. ASSUME NEW n \in Locks, NEW k \in Goroutines, writer'[n] = k
        PROVE  (k = g /\ n = m) \/ (k # g /\ writer[n] = k)
               \/ (k = g /\ n # m /\ writer[n] = g)
    BY <1>1, <1>3, <1>4, <2>5 DEF Typed
  <2>6. \A k \in Goroutines \ {g} : /\ At(k, "enter")' = At(k, "enter")
                                    /\ What(k)' = What(k)
    BY <1>4 DEF At, What
  <2>7. QED
    BY <1>4, <2>3, <2>4, <2>5, <2>6 DEF IInv, Exclusive
<1>9. QED
  BY <1>5, <1>7, <1>8 DEF IInv

LEMMA StepEnter ==
  ASSUME IInv, NEW g \in Goroutines, Enter(g)
  PROVE  IInv'
<1> DEFINE m == What(g)
           h == [Holds(g) EXCEPT ![m] = "write"]
<1>1. Typed /\ call[g].steps # <<>> /\ Head(call[g].steps).op = "enter"
  BY AtStep DEF IInv, Enter
<1>2. PICK i \in Holdings : /\ Takes(Holds(g), Head(call[g].steps), i)
                            /\ Does(i, Tail(call[g].steps), Free)
  BY <1>1, NextStep DEF IInv
<1>3. m \in Locks /\ Holds(g)[m] = "asked" /\ i = h /\ h \in Holdings
  BY <1>1, <1>2 DEF Takes, What
<1>4. /\ readers[m] = {} /\ UNCHANGED <<writer, readers>>
      /\ call'[g].steps = Tail(call[g].steps)
      /\ \A k \in Goroutines \ {g} : call'[k] = call[k]
  BY <1>1, GoSteps DEF Enter
<1>5. Typed'
  BY <1>1, <1>4, GoSteps DEF Enter, Typed
<1>6. InOrder'
  <2>1. \A k \in Locks : /\ i[k] = "read" <=> g \in readers'[k]
                         /\ i[k] = "free" <=> g \notin readers'[k] /\ writer'[k] # g
    BY <1>3, <1>4, HoldsFields, HeldIsHolding DEF Holds, Holdings
  <2>2. QED
    BY <1>1, <1>2, <1>4, <2>1, OneMoves DEF IInv
<1>7. Exclusive'
  <2>1. \A n \in Locks : readers[n] # {} => writer[n] # g
    BY <1>1, <1>4 DEF IInv, Exclusive, Typed
  <2>2. \A k \in Goroutines \ {g} : /\ At(k, "enter")' = At(k, "enter")
                                    /\ What(k)' = What(k)
    BY <1>4 DEF At, What
  <2>3. QED
    BY <1>4, <2>1, <2>2 DEF IInv, Exclusive
<1>8. QED
  BY <1>5, <1>6, <1>7 DEF IInv

LEMMA StepEnterToRead ==
  ASSUME IInv, NEW g \in Goroutines, EnterToRead(g)
  PROVE  IInv'
<1> DEFINE m == What(g)
           h == [Holds(g) EXCEPT ![m] = "read"]
<1>1. Typed /\ call[g].steps # <<>> /\ Head(call[g].steps).op = "rlock"
  BY AtStep DEF IInv, EnterToRead
<1>2. PICK i \in Holdings : /\ Takes(Holds(g), Head(call[g].steps), i)
                            /\ Does(i, Tail(call[g].steps), Free)
  BY <1>1, NextStep DEF IInv
<1>3. m \in Locks /\ Holds(g)[m] = "free" /\ i = h /\ h \in Holdings
  BY <1>1, <1>2 DEF Takes, What
<1>4. /\ writer[m] = Nobody /\ writer' = writer
      /\ readers' = [readers EXCEPT ![m] = @ \cup {g}]
      /\ call'[g].steps = Tail(call[g].steps)
      /\ \A k \in Goroutines \ {g} : call'[k] = call[k]
  BY <1>1, GoSteps DEF EnterToRead
<1>5. Typed'
  BY <1>1, <1>3, <1>4, GoSteps DEF EnterToRead, Typed
<1>6. InOrder'
  <2>1. \A k \in Locks : /\ i[k] = "read" <=> g \in readers'[k]
                         /\ i[k] = "free" <=> g \notin readers'[k] /\ writer'[k] # g
    BY <1>1, <1>3, <1>4, HoldsFields, HeldIsHolding DEF Holds, Holdings, Typed
  <2>2. \A k \in Goroutines \ {g}, n \in Locks :
          /\ k \in readers'[n] <=> k \in readers[n]
          /\ writer'[n] = k <=> writer[n] = k
    BY <1>1, <1>3, <1>4 DEF Typed
  <2>3. QED
    BY <1>1, <1>2, <1>4, <2>1, <2>2, OneMoves DEF IInv
<1>7. Exclusive'
  <2>1. \A n \in Locks : n # m => readers'[n] = readers[n]
    BY <1>1, <1>3, <1>4 DEF Typed
  <2>2. \A k \in Goroutines : writer[m] # k
    BY <1>4, GoroutineAssumption
  <2>3. \A n \in Locks : readers[n] # {} => writer[n] # g
    BY <1>1, AtStep DEF IInv, Exclusive
  <2>4. \A k \in Goroutines \ {g} : /\ At(k, "enter")' = At(k, "enter")
                                    /\ What(k)' = What(k)
    BY <1>4 DEF At, What
  <2>5. QED
    BY <1>4, <2>1, <2>2, <2>3, <2>4 DEF IInv, Exclusive
<1>8. QED
  BY <1>5, <1>6, <1>7 DEF IInv

LEMMA StepUse ==
  ASSUME IInv, NEW g \in Goroutines, Use(g)
  PROVE  IInv'
<1> DEFINE m == Head(call[g].steps).frees
           h == IF m = "-" THEN Holds(g) ELSE [Holds(g) EXCEPT ![m] = "free"]
<1>1. Typed /\ call[g].steps # <<>> /\ Head(call[g].steps).op = "use"
  BY AtStep DEF IInv, Use
<1>2. PICK i \in Holdings : /\ Takes(Holds(g), Head(call[g].steps), i)
                            /\ Does(i, Tail(call[g].steps), Free)
  BY <1>1, NextStep DEF IInv
<1>3. m \in Locks \cup {"-"} /\ i = h /\ h \in Holdings
  BY <1>1, <1>2 DEF Takes, Locks
<1>4. /\ IF m = "-" THEN UNCHANGED <<writer, readers>>
         ELSE /\ readers' = [readers EXCEPT ![m] = @ \ {g}]
              /\ writer' = [writer EXCEPT ![m] = IF @ = g THEN Nobody ELSE @]
      /\ call'[g].steps = Tail(call[g].steps)
      /\ \A k \in Goroutines \ {g} : call'[k] = call[k]
  BY <1>1, GoSteps DEF Use
<1>5. g # Nobody /\ Nobody \notin Goroutines
  BY GoroutineAssumption
<1>6. \A n \in Locks : /\ readers'[n] = IF n = m THEN readers[n] \ {g} ELSE readers[n]
                       /\ writer'[n] = IF n = m /\ writer[n] = g THEN Nobody ELSE writer[n]
  BY <1>1, <1>3, <1>4 DEF Typed, Locks
<1>7. Typed'
  <2>1. /\ writer' \in [Locks -> Goroutines \cup {Nobody}]
        /\ readers' \in [Locks -> SUBSET Goroutines]
    BY <1>1, <1>3, <1>4 DEF Typed
  <2>2. QED
    BY <1>1, <2>1, GoSteps DEF Use, Typed
<1>8. InOrder'
  <2>1. \A k \in Locks : /\ i[k] = "read" <=> g \in readers'[k]
                         /\ i[k] = "free" <=> g \notin readers'[k] /\ writer'[k] # g
    BY <1>3, <1>5, <1>6, HoldsFields, HeldIsHolding DEF Holds, Holdings, Locks
  <2>2. \A k \in Goroutines \ {g}, n \in Locks :
          /\ k \in readers'[n] <=> k \in readers[n]
          /\ writer'[n] = k <=> writer[n] = k
    BY <1>5, <1>6
  <2>3. QED
    BY <1>1, <1>2, <1>4, <2>1, <2>2, OneMoves DEF IInv
<1>9. Exclusive'
  <2>1. \A n \in Locks : readers[n] # {} => writer[n] # g
    BY <1>1, AtStep DEF IInv, Exclusive
  <2>2. \A k \in Goroutines \ {g} : /\ At(k, "enter")' = At(k, "enter")
                                    /\ What(k)' = What(k)
    BY <1>4 DEF At, What
  <2>3. SUFFICES ASSUME NEW n \in Locks, NEW r \in readers'[n], NEW k \in Goroutines,
                        writer'[n] = k
                 PROVE  k # r /\ At(k, "enter")' /\ What(k)' = n
    BY DEF Exclusive
  <2>4. r \in readers[n] /\ writer[n] = k
    BY <1>5, <1>6, <2>3
  <2>5. k # g
    BY <2>1, <2>4
  <2>6. QED
    BY <2>2, <2>4, <2>5 DEF IInv, Exclusive
<1>10. QED
  BY <1>7, <1>8, <1>9 DEF IInv

LEMMA StepTaken ==
  ASSUME IInv, NEW g \in Goroutines, NEW client, Taken(g, client)
  PROVE  IInv'
<1>1. Typed /\ call[g].steps # <<>> /\ Head(call[g].steps).op = "await"
  BY AtStep DEF IInv, Taken
<1>2. PICK i \in Holdings : /\ Takes(Holds(g), Head(call[g].steps), i)
                            /\ Does(i, Tail(call[g].steps), Free)
  BY <1>1, NextStep DEF IInv
<1>3. i = Holds(g)
  BY <1>1, <1>2 DEF Takes
<1>4. /\ UNCHANGED <<writer, readers>>
      /\ call'[g].steps = Tail(call[g].steps)
      /\ \A k \in Goroutines \ {g} : call'[k] = call[k]
  BY <1>1, GoSteps DEF Taken
<1>5. Typed'
  BY <1>1, <1>4, GoSteps DEF Taken, Typed
<1>6. InOrder'
  BY <1>1, <1>2, <1>3, <1>4, HoldsFields, OneMoves DEF IInv
<1>7. Exclusive'
  <2>1. \A n \in Locks : readers[n] # {} => writer[n] # g
    BY <1>1, AtStep DEF IInv, Exclusive
  <2>2. \A k \in Goroutines \ {g} : /\ At(k, "enter")' = At(k, "enter")
                                    /\ What(k)' = What(k)
    BY <1>4 DEF At, What
  <2>3. QED
    BY <1>4, <2>1, <2>2 DEF IInv, Exclusive
<1>8. QED
  BY <1>5, <1>6, <1>7 DEF IInv

(* The connection is forgotten with no lock but wsMu, after its own is      *)
(* released, and closed with no lock but its own.                           *)
LEMMA StepBroken ==
  ASSUME IInv, NEW g \in Goroutines, Broken(g)
  PROVE  IInv'
<1> DEFINE s == call[g].steps
           rest == Tail(Tail(s))
           more == <<Head(Tail(s))>> \o ChangeConns \o Close \o rest
<1>1. /\ Typed /\ s # <<>> /\ Head(s).op = "await" /\ Head(s).mode = "forget"
      /\ s \in Seq(Steps)
  BY AtStep DEF IInv, Broken, Typed
<1>2. PICK i \in Holdings : Takes(Holds(g), Head(s), i) /\ Does(i, Tail(s), Free)
  BY <1>1, NextStep DEF IInv
<1>3. i = OnlyConn /\ Holds(g) = OnlyConn
  BY <1>1, <1>2 DEF Takes
<1>4. Tail(s) # <<>> /\ Head(Tail(s)) = Step("use", "-", "-", "conn")
  <2>1. Does(Holds(g), s, Free)
    BY DEF IInv, InOrder
  <2>2. 1 \in 1 .. Len(s) /\ s[1] = Head(s)
    BY <1>1
  <2>3. 2 \in 1 .. Len(s) /\ s[2] = Step("use", "-", "-", "conn")
    BY <1>1, <2>1, <2>2 DEF Does, ThenUnlocks
  <2>4. Len(Tail(s)) >= 1 /\ Tail(s)[1] = s[2] /\ Tail(s) \in Seq(Steps)
    BY <1>1, <2>3
  <2>5. ASSUME NEW u \in Seq(Steps), Len(u) >= 1 PROVE u # <<>> /\ Head(u) = u[1]
    BY <2>5
  <2>6. QED
    BY <2>3, <2>4, <2>5
<1>5. Does(Free, rest, Free)
  <2>1. PICK j \in Holdings : Takes(OnlyConn, Head(Tail(s)), j) /\ Does(j, rest, Free)
    BY <1>2, <1>3, <1>4, FreeIsHolding, DoesFirst
  <2>2. j = Free
    BY <1>4, <2>1 DEF Takes, Step, OnlyConn, Free
  <2>3. QED
    BY <2>1, <2>2
<1>6. Does(OnlyConn, <<Head(Tail(s))>>, Free)
  <2>1. Lawful(OnlyConn, "-", "-") /\ Has(OnlyConn, "conn") /\ "conn" \in Locks
        /\ [OnlyConn EXCEPT !["conn"] = "free"] = Free
    BY DEF Lawful, OnlyConn, Free, Has, Locks, Guarded, Fields
  <2>2. QED
    BY <1>4, <2>1, FreeIsHolding, DoesUse
<1> HIDE DEF s, rest
<1>7. Does(OnlyConn, <<Head(Tail(s))>> \o ChangeConns \o Close, Free)
  <2>1. Does(OnlyConn, <<Head(Tail(s))>> \o ChangeConns, Free)
    BY <1>6, FreeIsHolding, RoundChangeConns, DoesBoth DEF Round
  <2>2. Does(Free, Close, Free)
    BY DoesSend DEF Close, Round
  <2>3. QED
    BY <2>1, <2>2, FreeIsHolding, DoesBoth
<1>8. Does(OnlyConn, more, Free)
  BY <1>5, <1>7, FreeIsHolding, DoesBoth
<1>9. more \in Seq(Steps) /\ more # <<>>
  <2>1. more \in Seq(Steps)
    BY <1>8 DEF Does
  <2>2. more # <<>>
    BY <1>8, DoesNothing DEF OnlyConn, Free, Locks
  <2>3. QED
    BY <2>1, <2>2
<1>10. call' = [call EXCEPT ![g].steps = more] /\ UNCHANGED <<writer, readers>>
  BY DEF Broken, s, rest
<1> HIDE DEF more
<1>11. /\ call'[g].steps = more /\ call'[g].name = call[g].name
       /\ \A k \in Goroutines \ {g} : call'[k] = call[k]
  BY <1>1, <1>10 DEF Typed
<1>12. Typed'
  <2>1. call' \in [Goroutines -> [name : Names, steps : Seq(Steps)]]
    BY <1>1, <1>9, <1>10 DEF Typed
  <2>2. QED
    BY <1>1, <1>9, <1>10, <1>11, <2>1 DEF Typed, s
<1>13. InOrder'
  BY <1>1, <1>3, <1>8, <1>10, <1>11, FreeIsHolding, HoldsFields, OneMoves DEF IInv
<1>14. Exclusive'
  <2>1. \A n \in Locks : readers[n] # {} => writer[n] # g
    BY <1>1, AtStep DEF IInv, Exclusive, s
  <2>2. \A k \in Goroutines \ {g} : /\ At(k, "enter")' = At(k, "enter")
                                    /\ What(k)' = What(k)
    BY <1>11 DEF At, What
  <2>3. QED
    BY <1>10, <2>1, <2>2 DEF IInv, Exclusive
<1>15. QED
  BY <1>12, <1>13, <1>14 DEF IInv

LEMMA InitIInv == Init => IInv
<1> SUFFICES ASSUME Init PROVE IInv
  OBVIOUS
<1>1. Typed
  BY DEF Init, Typed, NoCall, Call, Names
<1>2. InOrder
  <2> SUFFICES ASSUME NEW g \in Goroutines PROVE Does(Holds(g), call[g].steps, Free)
    BY DEF InOrder
  <2>1. call[g].steps = <<>>
    BY DEF Init, NoCall, Call
  <2>2. Holds(g) = Free
    BY GoroutineAssumption DEF Init, Holds, Held, Free
  <2> DEFINE t == [n \in 0 .. 0 |-> Free]
  <2>3. t \in [0 .. 0 -> Holdings] /\ t[0] = Free
    BY FreeIsHolding
  <2>4. <<>> \in Seq(Steps) /\ Len(<<>>) = 0 /\ \A n \in 1 .. 0 : FALSE
    OBVIOUS
  <2> HIDE DEF t
  <2>5. Does(Free, <<>>, Free)
    BY <2>3, <2>4 DEF Does, ThenUnlocks
  <2>6. QED
    BY <2>1, <2>2, <2>5
<1>3. Exclusive
  BY DEF Init, Exclusive
<1>4. QED
  BY <1>1, <1>2, <1>3 DEF IInv

LEMMA StepIInv == IInv /\ [Next]_vars => IInv'
<1> SUFFICES ASSUME IInv, [Next]_vars PROVE IInv'
  OBVIOUS
<1>1. CASE UNCHANGED vars
  BY <1>1 DEF vars, IInv, Typed, InOrder, Exclusive, Holds, At, What
<1>2. CASE Next
  BY <1>2, StepBegin, StepAnnounce, StepEnter, StepEnterToRead, StepUse, StepTaken,
     StepBroken DEF Next, Run, BrowserReads, PageTakes, PageLeaves
<1>3. QED
  BY <1>1, <1>2

LEMMA Invariance == Spec => []IInv
  BY InitIInv, StepIInv, PTL DEF Spec
-----------------------------------------------------------------------------
(* The theorems.                                                            *)

(* The types of the calls, and of the locks of status.go, websocket.go and  *)
(* scheduler.go; nobody keeps a lock when the call is over.                 *)
THEOREM TypeCorrect == Spec => []TypeOK
<1>1. IInv => TypeOK
  <2> SUFFICES ASSUME IInv PROVE TypeOK
    OBVIOUS
  <2>1. ASSUME NEW m \in Locks, writer[m] # Nobody PROVE call[writer[m]] # NoCall
    <3>1. writer[m] \in Goroutines
      BY <2>1 DEF IInv, Typed
    <3>2. PICK g \in Goroutines : g = writer[m]
      BY <3>1
    <3>3. g \notin readers[m] => Holds(g)[m] # "free"
      BY <3>2, HoldsFields
    <3>4. Holds(g)[m] # "free"
      BY <3>2, <3>3, HoldsFields
    <3>5. call[g].steps # <<>>
      BY <3>4, DoesNothing DEF IInv, InOrder, Free
    <3>6. QED
      BY <3>2, <3>5 DEF NoCall, Call
  <2>2. QED
    BY <2>1 DEF IInv, Typed, TypeOK
<1>2. QED
  BY <1>1, Invariance, PTL

(* The fields of the server and of the scheduler are written under their    *)
(* lock and with nobody else in it, except lastRunTime, which status.go:101 *)
(* reads without it.                                                        *)
THEOREM FieldsHaveGuards == Spec => []FieldsAreGuarded
<1>1. IInv => FieldsAreGuarded
  <2> SUFFICES ASSUME IInv, NEW g \in Goroutines, NEW h \in Goroutines, g # h,
                      At(g, "use"), At(h, "use"), What(g) = What(h),
                      Head(call[g].steps).mode = "write", What(g) # "lastRunTime"
               PROVE  FALSE
    BY DEF FieldsAreGuarded, Conflict
  <2> DEFINE m == Guard(What(g))
  <2>1. What(g) \in Guarded /\ Holds(g)[m] = "write"
    <3>1. PICK i \in Holdings : Takes(Holds(g), Head(call[g].steps), i)
      BY AtStep, NextStep DEF IInv
    <3>2. QED
      BY <3>1 DEF Takes, At, What
  <2>2. Has(Holds(h), m)
    <3>1. PICK i \in Holdings : Takes(Holds(h), Head(call[h].steps), i)
      BY AtStep, NextStep DEF IInv
    <3>2. QED
      BY <2>1, <3>1 DEF Takes, At, What
  <2>3. m \in Locks
    BY <2>1 DEF Guard, Locks
  <2> HIDE DEF m
  <2>4. writer[m] = g
    BY <2>1, <2>3 DEF Holds, Held
  <2>5. h \in readers[m]
    BY <2>2, <2>3, <2>4, HoldsFields DEF Holds, Held, Has
  <2>6. At(g, "enter")
    BY <2>3, <2>4, <2>5 DEF IInv, Exclusive
  <2>7. QED
    BY <2>6 DEF At
<1>2. QED
  BY <1>1, Invariance, PTL

(* Who waits at a lock holds no other one, or waits for the scheduler's     *)
(* mutex with the status locked.                                            *)
LEMMA WaitersHoldLittle ==
  ASSUME IInv, NEW g \in Goroutines, WaitsFor(g) # {}
  PROVE  /\ What(g) \in Locks /\ MayTake(Holds(g), What(g))
         /\ IF At(g, "enter") THEN Holds(g)[What(g)] = "asked"
                              ELSE Holds(g)[What(g)] = "free"
<1>1. At(g, "enter") \/ At(g, "lock") \/ At(g, "rlock")
  BY DEF WaitsFor
<1>2. PICK i \in Holdings : Takes(Holds(g), Head(call[g].steps), i)
  BY <1>1, AtStep, NextStep DEF IInv
<1>3. QED
  BY <1>1, <1>2 DEF Takes, At, What

(* Goroutines never wait for one another at locks: no broadcast, log line,  *)
(* tick, report and request can stop each other for good.                   *)
THEOREM LocksAreOrdered == Spec => []NoCircularWait
<1>1. IInv => NoCircularWait
  <2> SUFFICES ASSUME IInv, NEW S \in SUBSET Goroutines, S # {},
                      \A g \in S : WaitsFor(g) \cap S # {}
               PROVE  FALSE
    BY DEF NoCircularWait
  <2>1. ASSUME NEW g \in S, At(g, "enter")
        PROVE  What(g) = "status" /\ \E k \in S : What(k) = "sched"
    <3>1. PICK k \in S : k \in readers[What(g)]
      BY <2>1 DEF WaitsFor
    <3>2. What(g) \in Locks
      BY WaitersHoldLittle
    <3>3. Holds(k)[What(g)] = "read"
      BY <3>1, <3>2, HoldsFields
    <3>4. /\ MayTake(Holds(k), What(k))
          /\ Holds(k)[What(k)] \in {"asked", "free"}
      BY WaitersHoldLittle
    <3>5. QED
      BY <3>2, <3>3, <3>4 DEF MayTake
  <2>2. ASSUME NEW g \in S, ~At(g, "enter")
        PROVE  \E k \in S : \/ At(k, "enter") /\ What(k) = What(g)
                            \/ What(g) = "status" /\ What(k) = "sched"
    <3>1. PICK k \in S : k = writer[What(g)]
      BY <2>2 DEF WaitsFor
    <3>2. What(g) \in Locks
      BY WaitersHoldLittle
    <3>3. Holds(k)[What(g)] # "free"
      BY <3>1, <3>2, HoldsFields
    <3>4. /\ MayTake(Holds(k), What(k))
          /\ At(k, "enter") \/ Holds(k)[What(k)] = "free"
      BY WaitersHoldLittle
    <3>5. QED
      BY <3>2, <3>3, <3>4 DEF MayTake
  <2>3. \A g \in S : What(g) # "sched"
    BY <2>1, <2>2
  <2>4. QED
    BY <2>1, <2>2, <2>3
<1>2. QED
  BY <1>1, Invariance, PTL
=============================================================================
