---------------------------- MODULE MonitorProofs ----------------------------
(***************************************************************************)
(* Theorems about the broadcasts of the dashboard, for any number of pages *)
(* and writers.                                                            *)
(***************************************************************************)
EXTENDS Monitor, TLAPS

Pushed == {"status", "logs"}

Queues == {<<>>, <<"status">>, <<"logs">>, <<"backups">>,
           <<"status", "backups">>, <<"logs", "backups">>,
           <<"status", "logs", "backups">>}

Has(q, t) == \E i \in DOMAIN q : q[i] = t

LEMMA VersionFacts ==
  /\ Versions \subseteq Nat /\ 0 \in Versions
  /\ \A t \in Topics, n \in Nat : n <= Last[t] => n \in Versions
<1>1. \A t \in Topics : Last[t] \in Nat
  BY VersionAssumption DEF Last, Topics
<1>2. Versions \subseteq Nat
  BY <1>1 DEF Versions
<1>3. \A t \in Topics, n \in Nat : n <= Last[t] => n \in Versions
  BY <1>1 DEF Versions
<1>4. 0 \in Versions
  BY <1>1, <1>3 DEF Topics
<1>5. QED
  BY <1>2, <1>3, <1>4

LEMMA QueueFacts ==
  ASSUME NEW q \in Queues, q # <<>>
  PROVE  /\ Head(q) \in Topics /\ Tail(q) \in Queues
         /\ \A t : Has(q, t) /\ t # Head(q) => Has(Tail(q), t)
<1>1. ASSUME NEW a \in Topics, q = <<a>>
      PROVE  Head(q) = a /\ Tail(q) = <<>> /\ \A t : Has(q, t) => t = a
  BY <1>1 DEF Has
<1>2. ASSUME NEW a \in Topics, NEW b \in Topics, q = <<a, b>>
      PROVE  /\ Head(q) = a /\ Tail(q) = <<b>>
             /\ \A t : Has(q, t) /\ t # a => Has(<<b>>, t)
  <2>1. Head(q) = a /\ Tail(q) = <<b>>
    BY <1>2
  <2>2. q[1] = a /\ q[2] = b /\ DOMAIN q = 1 .. 2
    BY <1>2
  <2>3. \A t : Has(q, t) => t = a \/ t = b
    BY <2>2 DEF Has
  <2>4. Has(<<b>>, b)
    BY DEF Has
  <2>5. QED
    BY <2>1, <2>3, <2>4
<1>3. CASE q = <<"status", "logs", "backups">>
  <2>1. Head(q) = "status" /\ Tail(q) = <<"logs", "backups">>
    BY <1>3
  <2>2. q[1] = "status" /\ q[2] = "logs" /\ q[3] = "backups" /\ DOMAIN q = 1 .. 3
    BY <1>3
  <2>3. \A t : Has(q, t) => t \in Topics
    BY <2>2 DEF Has, Topics
  <2>4. Has(<<"logs", "backups">>, "logs") /\ Has(<<"logs", "backups">>, "backups")
    <3> DEFINE r == <<"logs", "backups">>
    <3>1. r[1] = "logs" /\ r[2] = "backups" /\ DOMAIN r = 1 .. 2
      OBVIOUS
    <3>2. QED
      BY <3>1 DEF Has
  <2>5. QED
    BY <2>1, <2>3, <2>4 DEF Queues, Topics
<1>4. CASE q = <<"status">> \/ q = <<"logs">> \/ q = <<"backups">>
  BY <1>1, <1>4 DEF Queues, Topics
<1>5. CASE q = <<"status", "backups">> \/ q = <<"logs", "backups">>
  BY <1>2, <1>5 DEF Queues, Topics
<1>6. QED
  BY <1>3, <1>4, <1>5 DEF Queues

-----------------------------------------------------------------------------
(* The invariant.                                                           *)

(* A broadcast reaches every page whose connection is up.                   *)
Registered == \A c \in Clients : link[c] = "up" => c \in conns

(* Nothing that is shown or sent is newer than the current version, and     *)
(* who is sent a message is fixed when it is addressed.                     *)
NothingNewer ==
  /\ \A c \in Clients, t \in Topics : best[c][t] <= version[t]
  /\ \A s \in Senders :
       msg[s] # Idle => /\ msg[s].version <= version[msg[s].topic]
                        /\ ~msg[s].addressed => msg[s].to = {}

(* Sender s is going to bring the current version of t to the page of c.    *)
Brings(s, c, t) ==
  /\ s \in Clients => s = c
  /\ \/ Has(queue[s], t)
     \/ /\ msg[s].topic = t /\ msg[s].version = version[t]
        /\ ~msg[s].addressed \/ c \in msg[s].to

(* Every page whose connection is up has had the current version, or        *)
(* somebody is going to bring it.                                           *)
Covered ==
  \A c \in Clients, t \in Pushed :
    link[c] = "up" =>
      best[c][t] = version[t] \/ \E s \in Senders : Brings(s, c, t)

IInv == TypeOK /\ Registered /\ NothingNewer /\ Covered

LEMMA Typing == TypeOK <=>
  /\ version \in [Topics -> Versions]
  /\ conns \subseteq Clients
  /\ hand \in [Clients -> {"none", "open", "gone"}]
  /\ link \in [Clients -> {"up", "down"}]
  /\ queue \in [Senders -> Queues]
  /\ msg \in [Senders -> Message \cup {Idle}]
  /\ seen \in [Clients -> [Topics -> Versions]]
  /\ best \in [Clients -> [Topics -> Versions]]
  BY DEF TypeOK, Queues

(* The kinds of steps, so that each lemma has few cases.                    *)
Inform(s) == Copy(s) \/ Address(s)
Arrive(s, c) == Deliver(s, c) \/ Undelivered(s, c)

LEMMA Steps ==
  ASSUME [Next]_vars
  PROVE  \/ UNCHANGED vars
         \/ Tick \/ FolderChanges
         \/ \E w \in Writers : UpdateResult(w) \/ AppendLog(w)
         \/ \E s \in Senders : Inform(s)
         \/ \E s \in Senders, c \in Clients : Arrive(s, c)
         \/ \E c \in Clients : Connect(c) \/ Break(c) \/ Leave(c)
  BY DEF Next, Write, Send, Inform, Arrive

-----------------------------------------------------------------------------
(* Types.                                                                   *)

LEMMA InitTypes == Init => TypeOK
  BY VersionFacts DEF Init, TypeOK

LEMMA ChangeTypes ==
  ASSUME TypeOK, NEW t \in Topics, Change(t)
  PROVE  /\ version' \in [Topics -> Versions]
         /\ version'[t] = version[t] + 1
         /\ \A u \in Topics : /\ u # t => version'[u] = version[u]
                              /\ version[u] <= version'[u]
<1> USE DEF TypeOK
<1>1. \A u \in Topics : Last[u] \in Nat /\ version[u] \in Nat
  BY VersionFacts, VersionAssumption DEF Last, Topics
<1>2. version[t] + 1 \in Versions
  BY <1>1, VersionFacts DEF Change
<1>3. QED
  BY <1>1, <1>2 DEF Change

LEMMA SendToTypes ==
  ASSUME TypeOK, NEW s \in Senders, msg[s] # Idle, NEW C \in SUBSET Clients,
         SendTo(s, C)
  PROVE  /\ msg' \in [Senders -> Message \cup {Idle}]
         /\ \A r \in Senders \ {s} : msg'[r] = msg[r]
         /\ C = {} => msg'[s] = Idle
         /\ C # {} => /\ msg'[s] # Idle
                      /\ msg'[s].topic = msg[s].topic
                      /\ msg'[s].version = msg[s].version
                      /\ msg'[s].addressed
                      /\ msg'[s].to = C
<1>1. msg[s] \in Message
  BY DEF TypeOK
<1>2. [msg[s] EXCEPT !.addressed = TRUE, !.to = C] \in Message
  BY <1>1 DEF Message
<1>3. msg \in [Senders -> Message \cup {Idle}]
  BY DEF TypeOK
<1>4. Idle \notin Message
  BY DEF Idle, Message, Topics
<1>5. QED
  BY <1>1, <1>2, <1>3, <1>4 DEF SendTo, Message

LEMMA CopyTypes ==
  ASSUME TypeOK, NEW s \in Senders, Copy(s)
  PROVE  /\ msg' \in [Senders -> Message \cup {Idle}]
         /\ queue' \in [Senders -> Queues]
         /\ msg[s] = Idle
         /\ Head(queue[s]) \in Topics
         /\ msg'[s].topic = Head(queue[s])
         /\ \/ msg'[s].version = version[Head(queue[s])]
            \/ msg'[s].version = Nothing /\ Head(queue[s]) = "backups"
         /\ ~msg'[s].addressed /\ msg'[s].to = {}
         /\ queue'[s] = Tail(queue[s])
         /\ \A t : Has(queue[s], t) /\ t # Head(queue[s]) => Has(queue'[s], t)
         /\ \A r \in Senders \ {s} : msg'[r] = msg[r] /\ queue'[r] = queue[r]
<1>1. queue[s] \in Queues /\ queue[s] # <<>>
  BY Typing DEF Copy
<1>2. /\ Head(queue[s]) \in Topics /\ Tail(queue[s]) \in Queues
      /\ \A t : Has(queue[s], t) /\ t # Head(queue[s]) => Has(Tail(queue[s]), t)
  BY <1>1, QueueFacts
<1>3. PICK v : /\ \/ v = version[Head(queue[s])]
                  \/ v = Nothing /\ Head(queue[s]) = "backups"
               /\ msg' = [msg EXCEPT ![s] = [topic |-> Head(queue[s]), version |-> v,
                                             addressed |-> FALSE, to |-> {}]]
  BY DEF Copy
<1>4. v \in Versions \cup {Nothing}
  BY <1>2, <1>3, Typing
<1>5. [topic |-> Head(queue[s]), version |-> v, addressed |-> FALSE, to |-> {}]
        \in Message
  BY <1>2, <1>4 DEF Message
<1>6. queue' \in [Senders -> Queues] /\ queue'[s] = Tail(queue[s])
  BY <1>2, Typing DEF Copy
<1>7. QED
  BY <1>2, <1>3, <1>5, <1>6, Typing DEF Copy

LEMMA DeliverTypes ==
  ASSUME TypeOK, NEW s \in Senders, NEW c \in Clients, Deliver(s, c)
  PROVE  /\ seen' \in [Clients -> [Topics -> Versions]]
         /\ best' \in [Clients -> [Topics -> Versions]]
         /\ \A d \in Clients, t \in Topics :
              \/ best'[d][t] = best[d][t]
              \/ d = c /\ t = msg[s].topic /\ best'[d][t] = msg[s].version
         /\ msg[s].version # Nothing =>
              /\ best'[c][msg[s].topic] >= msg[s].version
              /\ best'[c][msg[s].topic] >= best[c][msg[s].topic]
<1>1. msg[s] \in Message
  BY DEF TypeOK, Deliver, Sending
<1>2. CASE msg[s].version = Nothing
  BY <1>2 DEF Deliver, TypeOK
<1>3. CASE msg[s].version # Nothing
  <2>1. msg[s].topic \in Topics /\ msg[s].version \in Versions
    BY <1>1, <1>3 DEF Message
  <2>2. seen' = [seen EXCEPT ![c][msg[s].topic] = msg[s].version]
    BY <1>3 DEF Deliver
  <2>3. best' = [best EXCEPT ![c][msg[s].topic] =
                   IF msg[s].version > @ THEN msg[s].version ELSE @]
    BY <1>3 DEF Deliver
  <2>4. seen \in [Clients -> [Topics -> Versions]]
        /\ best \in [Clients -> [Topics -> Versions]]
    BY DEF TypeOK
  <2>5. best[c][msg[s].topic] \in Versions
    BY <2>1, <2>4
  <2> DEFINE old == best[c][msg[s].topic]
             v == IF msg[s].version > old THEN msg[s].version ELSE old
  <2>6. /\ v \in Versions /\ v \in {msg[s].version, old}
        /\ v >= msg[s].version /\ v >= old
        /\ best' = [best EXCEPT ![c][msg[s].topic] = v]
    <3>1. best' = [best EXCEPT ![c][msg[s].topic] = v]
      BY <2>3, Zenon
    <3>2. /\ msg[s].version \in Versions /\ old \in Versions
          /\ msg[s].version \in Nat /\ old \in Nat
      BY <2>1, <2>5, VersionFacts
    <3> HIDE DEF old
    <3>3. /\ v \in Versions /\ v \in {msg[s].version, old}
          /\ v >= msg[s].version /\ v >= old
      BY <3>2
    <3>4. QED
      BY <3>1, <3>3
  <2> HIDE DEF v
  <2>7. seen' \in [Clients -> [Topics -> Versions]]
    BY <2>1, <2>2, <2>4
  <2>8. /\ best' \in [Clients -> [Topics -> Versions]]
        /\ best'[c][msg[s].topic] = v
        /\ \A d \in Clients, t \in Topics :
             d # c \/ t # msg[s].topic => best'[d][t] = best[d][t]
    BY <2>1, <2>4, <2>6
  <2>9. QED
    BY <2>6, <2>7, <2>8
<1>4. QED
  BY <1>2, <1>3

LEMMA StepTypes ==
  ASSUME TypeOK, [Next]_vars
  PROVE  TypeOK'
<1> USE DEF TypeOK
<1>0. /\ \A w \in Writers : w \in Senders
      /\ ticker \in Senders /\ \A c \in Clients : c \in Senders
  BY DEF Senders, Broadcasters
<1>1. CASE UNCHANGED vars
  BY <1>1 DEF vars, clientVars, sendVars
<1>2. CASE Tick
  BY <1>0, <1>2 DEF Tick, Broadcast, clientVars
<1>3. CASE FolderChanges
  BY <1>3, ChangeTypes DEF FolderChanges, clientVars, sendVars, Topics
<1>4. ASSUME NEW w \in Writers, UpdateResult(w) \/ AppendLog(w) PROVE TypeOK'
  <2>1. version' \in [Topics -> Versions]
    BY <1>4, ChangeTypes DEF UpdateResult, AppendLog, Topics
  <2>2. QED
    BY <1>0, <1>4, <2>1 DEF UpdateResult, AppendLog, Broadcast, clientVars
<1>5. ASSUME NEW s \in Senders, Inform(s) PROVE TypeOK'
  <2>1. CASE Copy(s)
    BY <2>1, CopyTypes DEF Copy, clientVars, Queues
  <2>2. CASE Address(s)
    <3>1. PICK C \in SUBSET Clients : SendTo(s, C)
      BY <2>2 DEF Address
    <3>2. msg' \in [Senders -> Message \cup {Idle}]
      BY <2>2, <3>1, SendToTypes DEF Address
    <3>3. QED
      BY <2>2, <3>2 DEF Address, clientVars
  <2>3. QED
    BY <1>5, <2>1, <2>2 DEF Inform
<1>6. ASSUME NEW s \in Senders, NEW c \in Clients, Arrive(s, c) PROVE TypeOK'
  <2>1. msg' \in [Senders -> Message \cup {Idle}]
    <3>1. msg[s] # Idle /\ msg[s] \in Message \cup {Idle}
      BY <1>6 DEF Arrive, Deliver, Undelivered, Sending
    <3>2. msg[s].to \ {c} \in SUBSET Clients
      BY <3>1 DEF Message
    <3>3. SendTo(s, msg[s].to \ {c})
      BY <1>6 DEF Arrive, Deliver, Undelivered
    <3>4. QED
      BY <3>1, <3>2, <3>3, SendToTypes
  <2>2. CASE Deliver(s, c)
    <3>1. /\ seen' \in [Clients -> [Topics -> Versions]]
          /\ best' \in [Clients -> [Topics -> Versions]]
      BY <2>2, DeliverTypes
    <3>2. UNCHANGED <<version, conns, hand, link, queue>>
      BY <2>2 DEF Deliver
    <3>3. QED
      BY <2>1, <3>1, <3>2
  <2>3. CASE Undelivered(s, c)
    BY <2>1, <2>3 DEF Undelivered, clientVars
  <2>4. QED
    BY <1>6, <2>2, <2>3 DEF Arrive
<1>7. ASSUME NEW c \in Clients, Connect(c) \/ Break(c) \/ Leave(c) PROVE TypeOK'
  BY <1>0, <1>7 DEF Connect, Break, Leave, Broadcast, sendVars
<1>8. QED
  BY Steps, <1>1, <1>2, <1>3, <1>4, <1>5, <1>6, <1>7

-----------------------------------------------------------------------------
(* The parts of the invariant.                                              *)

LEMMA StepRegistered ==
  ASSUME TypeOK, Registered, [Next]_vars
  PROVE  Registered'
<1> USE DEF TypeOK, Registered
<1>1. CASE UNCHANGED <<conns, link>>
  BY <1>1
<1>2. CASE UNCHANGED vars \/ Tick \/ FolderChanges
  BY <1>1, <1>2 DEF vars, Tick, FolderChanges, clientVars
<1>3. ASSUME NEW w \in Writers, UpdateResult(w) \/ AppendLog(w) PROVE Registered'
  BY <1>1, <1>3 DEF UpdateResult, AppendLog, clientVars
<1>4. ASSUME NEW s \in Senders, Inform(s) PROVE Registered'
  BY <1>1, <1>4 DEF Inform, Copy, Address, clientVars
<1>5. ASSUME NEW s \in Senders, NEW c \in Clients, Arrive(s, c) PROVE Registered'
  BY <1>5 DEF Arrive, Deliver, Undelivered, clientVars
<1>6. ASSUME NEW c \in Clients, Connect(c) \/ Break(c) \/ Leave(c)
      PROVE  Registered'
  BY <1>6 DEF Connect, Break, Leave
<1>7. QED
  BY Steps, <1>2, <1>3, <1>4, <1>5, <1>6

LEMMA StepNothingNewer ==
  ASSUME TypeOK, NothingNewer, [Next]_vars
  PROVE  NothingNewer'
<1> USE DEF NothingNewer
<1>0. /\ \A t \in Topics : version[t] \in Nat
      /\ \A c \in Clients, t \in Topics : best[c][t] \in Nat
      /\ \A s \in Senders : msg[s] # Idle =>
           /\ msg[s].topic \in Topics
           /\ msg[s].version \in Nat \cup {Nothing}
  BY VersionFacts DEF TypeOK, Message
<1>1. ASSUME NEW t \in Topics, Change(t), UNCHANGED <<best, msg>>
      PROVE  NothingNewer'
  <2>1. \A u \in Topics : version[u] <= version'[u] /\ version'[u] \in Nat
    BY <1>1, ChangeTypes, VersionFacts
  <2>2. QED
    BY <1>0, <1>1, <2>1 DEF Nothing
<1>2. CASE UNCHANGED <<version, best, msg>>
  BY <1>2
<1>3. CASE UNCHANGED vars \/ Tick \/ FolderChanges
  BY <1>1, <1>2, <1>3
  DEF vars, Tick, FolderChanges, clientVars, sendVars, Topics
<1>4. ASSUME NEW w \in Writers, UpdateResult(w) \/ AppendLog(w)
      PROVE  NothingNewer'
  BY <1>1, <1>4 DEF UpdateResult, AppendLog, clientVars, Topics
<1>5. ASSUME NEW s \in Senders, Inform(s) PROVE NothingNewer'
  <2>1. CASE Copy(s)
    <3>1. UNCHANGED <<version, best>>
      BY <2>1 DEF Copy, clientVars
    <3>2. msg'[s].version <= version[msg'[s].topic]
      BY <1>0, <2>1, CopyTypes DEF Nothing
    <3>3. QED
      BY <2>1, <3>1, <3>2, CopyTypes
  <2>2. CASE Address(s)
    <3>1. PICK C \in SUBSET Clients : SendTo(s, C)
      BY <2>2 DEF Address, TypeOK
    <3>2. UNCHANGED <<version, best>> /\ msg[s] # Idle
      BY <2>2 DEF Address, clientVars
    <3>3. QED
      BY <3>1, <3>2, SendToTypes
  <2>3. QED
    BY <1>5, <2>1, <2>2 DEF Inform
<1>6. ASSUME NEW s \in Senders, NEW c \in Clients, Arrive(s, c)
      PROVE  NothingNewer'
  <2>1. /\ UNCHANGED version /\ msg[s] # Idle
        /\ SendTo(s, msg[s].to \ {c})
    BY <1>6 DEF Arrive, Deliver, Undelivered, Sending
  <2>2. msg[s].to \ {c} \in SUBSET Clients
    BY <2>1 DEF TypeOK, Message
  <2>3. \A r \in Senders :
          msg'[r] # Idle => /\ msg'[r].version <= version[msg'[r].topic]
                            /\ ~msg'[r].addressed => msg'[r].to = {}
    BY <2>1, <2>2, SendToTypes
  <2>4. \A d \in Clients, t \in Topics : best'[d][t] <= version[t]
    <3>1. CASE Deliver(s, c)
      BY <2>1, <3>1, DeliverTypes
    <3>2. CASE Undelivered(s, c)
      BY <3>2 DEF Undelivered, clientVars
    <3>3. QED
      BY <1>6, <3>1, <3>2 DEF Arrive
  <2>5. QED
    BY <2>1, <2>3, <2>4
<1>7. ASSUME NEW c \in Clients, Connect(c) \/ Break(c) \/ Leave(c)
      PROVE  NothingNewer'
  BY <1>2, <1>7 DEF Connect, Break, Leave, sendVars
<1>8. QED
  BY Steps, <1>3, <1>4, <1>5, <1>6, <1>7

-----------------------------------------------------------------------------
(* Covered.                                                                 *)

(* Who keeps its queue and its message goes on to bring what it brings.     *)
LEMMA BringsStays ==
  ASSUME NEW s \in Senders, NEW c \in Clients, NEW t \in Pushed, Brings(s, c, t),
         queue'[s] = queue[s], msg'[s] = msg[s], version'[t] = version[t]
  PROVE  Brings(s, c, t)'
  BY DEF Brings

LEMMA FreeBringsNothing ==
  ASSUME NEW s \in Senders, Free(s), NEW c \in Clients, NEW t \in Pushed
  PROVE  ~Brings(s, c, t)
<1>1. ~Has(<<>>, t)
  BY DEF Has
<1>2. QED
  BY <1>1 DEF Free, Brings, Idle, Pushed

(* A sender between two copies has only its queue to bring from.            *)
LEMMA IdleBringsQueue ==
  ASSUME NEW s \in Senders, msg[s] = Idle, NEW c \in Clients, NEW t \in Pushed,
         Brings(s, c, t)
  PROVE  Has(queue[s], t)
  BY DEF Brings, Idle, Pushed

LEMMA WriteCovered ==
  ASSUME TypeOK, Covered, NEW w \in Writers, UpdateResult(w) \/ AppendLog(w)
  PROVE  Covered'
<1> SUFFICES ASSUME NEW c \in Clients, NEW t \in Pushed, link'[c] = "up"
             PROVE  \/ best'[c][t] = version'[t]
                    \/ \E s \in Senders : Brings(s, c, t)'
  BY DEF Covered
<1>0. w \in Senders /\ w \notin Clients
  BY SendersAssumption DEF Senders, Broadcasters
<1>1. /\ Free(w) /\ UNCHANGED <<link, best, msg>>
      /\ \A s \in Senders \ {w} : queue'[s] = queue[s]
  BY <1>0 DEF UpdateResult, AppendLog, Broadcast, clientVars, TypeOK
<1>2. CASE Has(queue'[w], t)
  BY <1>0, <1>2 DEF Brings
<1>3. CASE version'[t] = version[t]
  BY <1>1, <1>3, BringsStays, FreeBringsNothing DEF Covered
<1>4. Has(queue'[w], t) \/ version'[t] = version[t]
  <2>1. CASE UpdateResult(w)
    <3>1. queue'[w] = <<"status", "backups">>
      BY <1>0, <2>1 DEF UpdateResult, Broadcast, TypeOK
    <3>2. t # "status" => version'[t] = version[t]
      BY <2>1, ChangeTypes DEF UpdateResult, Topics, Pushed
    <3>3. Has(<<"status", "backups">>, "status")
      <4> DEFINE q == <<"status", "backups">>
      <4>1. q[1] = "status" /\ 1 \in DOMAIN q
        OBVIOUS
      <4>2. QED
        BY <4>1 DEF Has
    <3>4. QED
      BY <3>1, <3>2, <3>3
  <2>2. CASE AppendLog(w)
    <3>1. queue'[w] = <<"logs">>
      BY <1>0, <2>2 DEF AppendLog, Broadcast, TypeOK
    <3>2. t # "logs" => version'[t] = version[t]
      BY <2>2, ChangeTypes DEF AppendLog, Topics, Pushed
    <3>3. Has(<<"logs">>, "logs")
      BY DEF Has
    <3>4. QED
      BY <3>1, <3>2, <3>3
  <2>3. QED
    BY <2>1, <2>2
<1>5. QED
  BY <1>2, <1>3, <1>4

LEMMA InformCovered ==
  ASSUME TypeOK, Registered, Covered, NEW x \in Senders, Inform(x)
  PROVE  Covered'
<1> SUFFICES ASSUME NEW c \in Clients, NEW t \in Pushed, link'[c] = "up"
             PROVE  \/ best'[c][t] = version'[t]
                    \/ \E s \in Senders : Brings(s, c, t)'
  BY DEF Covered
<1>0. UNCHANGED <<version, conns, link, best>>
  BY DEF Inform, Copy, Address, clientVars
<1>1. \A s \in Senders \ {x} : queue'[s] = queue[s] /\ msg'[s] = msg[s]
  BY DEF Inform, Copy, Address, SendTo, TypeOK
<1> SUFFICES ASSUME Brings(x, c, t) PROVE Brings(x, c, t)'
  BY <1>0, <1>1, BringsStays DEF Covered
<1>2. CASE Copy(x)
  <2>1. Has(queue[x], t)
    BY <1>2, CopyTypes, IdleBringsQueue
  <2>2. CASE t = Head(queue[x])
    BY <1>0, <1>2, <2>2, CopyTypes DEF Brings, Pushed
  <2>3. CASE t # Head(queue[x])
    BY <1>2, <2>1, <2>3, CopyTypes DEF Brings
  <2>4. QED
    BY <2>2, <2>3
<1>3. CASE Address(x)
  <2>1. CASE Has(queue[x], t)
    BY <1>3, <2>1 DEF Address, Brings
  <2>2. CASE ~Has(queue[x], t)
    <3>1. PICK C \in SUBSET Clients : c \in C /\ SendTo(x, C)
      BY <1>0, <1>3 DEF Address, Brings, Registered, TypeOK
    <3>2. msg[x] # Idle
      BY <1>3 DEF Address
    <3>3. QED
      BY <1>0, <2>2, <3>1, <3>2, SendToTypes DEF Brings
  <2>3. QED
    BY <2>1, <2>2
<1>4. QED
  BY <1>2, <1>3 DEF Inform

LEMMA ArriveCovered ==
  ASSUME TypeOK, NothingNewer, Covered,
         NEW x \in Senders, NEW d \in Clients, Arrive(x, d)
  PROVE  Covered'
<1> SUFFICES ASSUME NEW c \in Clients, NEW t \in Pushed, link'[c] = "up"
             PROVE  \/ best'[c][t] = version'[t]
                    \/ \E s \in Senders : Brings(s, c, t)'
  BY DEF Covered
<1>0. /\ UNCHANGED <<version, link, queue>>
      /\ msg[x] # Idle /\ d \in msg[x].to
      /\ SendTo(x, msg[x].to \ {d})
  BY DEF Arrive, Deliver, Undelivered, Sending, clientVars
<1>1. msg[x] \in Message /\ msg[x].to \ {d} \in SUBSET Clients
  BY <1>0 DEF TypeOK, Message
<1>2. \A s \in Senders \ {x} : msg'[s] = msg[s]
  BY <1>0, <1>1, SendToTypes
<1>3. t \in Topics /\ version[t] \in Nat
  BY VersionFacts DEF TypeOK, Pushed, Topics
<1>4. /\ best'[c][t] \in Nat /\ best'[c][t] <= version[t]
      /\ best[c][t] = version[t] => best'[c][t] = version[t]
  <2>1. best[c][t] \in Nat /\ best[c][t] <= version[t]
    BY <1>3, VersionFacts DEF NothingNewer, TypeOK
  <2>2. CASE Deliver(x, d)
    <3>1. \/ best'[c][t] = best[c][t]
          \/ /\ t = msg[x].topic /\ c = d
             /\ best'[c][t] = msg[x].version
      BY <1>3, <2>2, DeliverTypes
    <3>2. best' \in [Clients -> [Topics -> Versions]]
      BY <2>2, DeliverTypes
    <3>3. best'[c][t] \in Nat
      BY <1>3, <3>2, VersionFacts
    <3>4. t = msg[x].topic => msg[x].version <= version[t]
      BY <1>0 DEF NothingNewer
    <3>5. CASE best'[c][t] = best[c][t]
      BY <2>1, <3>5
    <3>6. CASE t = msg[x].topic /\ c = d /\ best'[c][t] = msg[x].version
      <4>1. best'[c][t] >= best[c][t]
        BY <2>2, <3>3, <3>6, DeliverTypes DEF Nothing
      <4>2. QED
        BY <1>3, <2>1, <3>3, <3>4, <3>6, <4>1
    <3>7. QED
      BY <3>1, <3>5, <3>6
  <2>3. CASE Undelivered(x, d)
    BY <2>1, <2>3 DEF Undelivered, clientVars
  <2>4. QED
    BY <2>2, <2>3 DEF Arrive
<1>5. ASSUME NEW s \in Senders, s # x, Brings(s, c, t) PROVE Brings(s, c, t)'
  BY <1>0, <1>2, <1>5, BringsStays
<1>6. ASSUME Brings(x, c, t)
      PROVE  best'[c][t] = version[t] \/ Brings(x, c, t)'
  <2>1. CASE Has(queue[x], t)
    BY <1>0, <1>6, <2>1 DEF Brings
  <2>2. CASE ~Has(queue[x], t)
    <3>1. /\ msg[x].topic = t /\ msg[x].version = version[t]
          /\ c \in msg[x].to
      BY <1>0, <1>6, <2>2 DEF Brings, NothingNewer
    <3>2. CASE c = d
      <4>1. Deliver(x, d)
        BY <1>0, <3>2 DEF Arrive, Undelivered
      <4>2. best'[c][t] >= version[t]
        BY <1>3, <3>1, <3>2, <4>1, DeliverTypes DEF Nothing
      <4>3. QED
        BY <1>3, <1>4, <4>2
    <3>3. CASE c # d
      BY <1>0, <1>1, <1>6, <3>1, <3>3, SendToTypes DEF Brings
    <3>4. QED
      BY <3>2, <3>3
  <2>3. QED
    BY <2>1, <2>2
<1>7. QED
  BY <1>0, <1>4, <1>5, <1>6 DEF Covered

LEMMA ClientCovered ==
  ASSUME TypeOK, Covered, NEW d \in Clients, Connect(d) \/ Break(d) \/ Leave(d)
  PROVE  Covered'
<1> SUFFICES ASSUME NEW c \in Clients, NEW t \in Pushed, link'[c] = "up"
             PROVE  \/ best'[c][t] = version'[t]
                    \/ \E s \in Senders : Brings(s, c, t)'
  BY DEF Covered
<1>0. UNCHANGED <<version, best, msg>> /\ d \in Senders
  BY DEF Connect, Break, Leave, sendVars, Senders
<1>1. CASE Connect(d) /\ c = d
  <2>1. queue'[d] = <<"status", "logs", "backups">>
    BY <1>0, <1>1 DEF Connect, Broadcast, TypeOK
  <2>2. Has(<<"status", "logs", "backups">>, t)
    <3> DEFINE q == <<"status", "logs", "backups">>
    <3>1. q[1] = "status" /\ q[2] = "logs" /\ DOMAIN q = 1 .. 3
      OBVIOUS
    <3>2. QED
      BY <3>1 DEF Has, Pushed
  <2>3. QED
    BY <1>0, <1>1, <2>1, <2>2 DEF Brings
<1>2. CASE Connect(d) /\ c # d
  <2>1. link[c] = "up" /\ \A s \in Senders \ {d} : queue'[s] = queue[s]
    BY <1>2 DEF Connect, Broadcast, TypeOK
  <2>2. ~Brings(d, c, t)
    BY <1>2 DEF Brings
  <2>3. QED
    BY <1>0, <2>1, <2>2, BringsStays DEF Covered
<1>3. CASE Break(d) \/ Leave(d)
  BY <1>0, <1>3, BringsStays DEF Break, Leave, sendVars, TypeOK, Covered
<1>4. QED
  BY <1>1, <1>2, <1>3

LEMMA StepCovered ==
  ASSUME IInv, [Next]_vars
  PROVE  Covered'
<1> USE DEF IInv
<1>1. CASE UNCHANGED vars
  BY <1>1, BringsStays DEF vars, clientVars, sendVars, Covered
<1>2. CASE Tick \/ FolderChanges
  <2> SUFFICES ASSUME NEW c \in Clients, NEW t \in Pushed, link'[c] = "up"
               PROVE  \/ best'[c][t] = version'[t]
                      \/ \E s \in Senders : Brings(s, c, t)'
    BY DEF Covered
  <2>1. /\ UNCHANGED <<link, best, msg>> /\ version'[t] = version[t]
        /\ \A s \in Senders : queue'[s] = queue[s] \/ Free(s)
    BY <1>2, ChangeTypes
    DEF Tick, FolderChanges, Broadcast, clientVars, sendVars, TypeOK, Pushed, Topics
  <2>2. QED
    BY <2>1, BringsStays, FreeBringsNothing DEF Covered
<1>3. QED
  BY Steps, <1>1, <1>2, WriteCovered, InformCovered, ArriveCovered, ClientCovered

THEOREM Invariance == Spec => []IInv
<1>1. Init => IInv
  <2> SUFFICES ASSUME Init PROVE IInv
    OBVIOUS
  <2>1. Registered /\ Covered
    BY DEF Init, Registered, Covered
  <2>2. NothingNewer
    BY DEF Init, NothingNewer
  <2>3. QED
    BY <2>1, <2>2, InitTypes DEF IInv
<1>2. IInv /\ [Next]_vars => IInv'
  BY StepTypes, StepRegistered, StepNothingNewer, StepCovered DEF IInv
<1>3. QED
  BY <1>1, <1>2, PTL DEF Spec

(* Every variable of the monitor keeps its type.                            *)
THEOREM TypeCorrect == Spec => []TypeOK
<1>1. IInv => TypeOK
  BY DEF IInv
<1>2. QED
  BY <1>1, Invariance, PTL

(* However connections, changes and broadcasts interleave, no status and no *)
(* log entry falls between the first messages of a page and the broadcasts. *)
THEOREM NoChangeIsMissed == Spec => []NothingMissed
<1>1. IInv => NothingMissed
  <2> SUFFICES ASSUME IInv, NEW c \in Clients, NEW t \in Pushed, Connected(c),
                      \A s \in Senders : ~Concerns(s, t)
               PROVE  best[c][t] = version[t]
    BY DEF NothingMissed, Pushed
  <2>1. \A s \in Senders : ~Brings(s, c, t)
    BY DEF Concerns, Brings, Has
  <2>2. QED
    BY <2>1 DEF IInv, Covered, Connected
<1>2. QED
  BY <1>1, Invariance, PTL
=============================================================================
