------------------------------- MODULE Monitor -------------------------------
(***************************************************************************)
(* The monitor of the dashboard: the WebSocket connections and broadcasts  *)
(* of internal/web/websocket.go, and the changes of internal/web/status.go *)
(* and internal/logger that are broadcast.                                 *)
(*                                                                         *)
(* There are three topics.  What is known of one is a version: each change *)
(* of the status, each log entry and each change of the Drive folder makes *)
(* the next.  The fields that only tell the time are left out.             *)
(*                                                                         *)
(* A sender takes a copy under the lock of the topic, then a copy of the   *)
(* set of connections under its lock, and then sends to one connection     *)
(* after the other with no lock but that of the connection: senders        *)
(* overtake each other between any two of these steps.                     *)
(***************************************************************************)
EXTENDS Integers, Sequences

CONSTANTS Clients,      \* connections; a page that comes back is a new one
          Writers,      \* goroutines that log, and report results of backups
          ticker,       \* the goroutine of StartTicker
          MaxStatus,    \* bounds on the versions of the three topics
          MaxLogs,
          MaxBackups

ASSUME SendersAssumption ==
  /\ Clients \cap Writers = {}
  /\ ticker \notin Clients \cup Writers
ASSUME VersionAssumption ==
  MaxStatus \in Nat /\ MaxLogs \in Nat /\ MaxBackups \in Nat

Topics == {"status", "logs", "backups"}
Last == [t \in Topics |-> CASE t = "status" -> MaxStatus
                            [] t = "logs" -> MaxLogs
                            [] t = "backups" -> MaxBackups]
Versions == UNION {0 .. Last[t] : t \in Topics}
Nothing == -1           \* what a message without a list has to say

Broadcasters == Writers \cup {ticker}
Senders == Broadcasters \cup Clients   \* a client stands for its handler too

VARIABLES version,      \* the current version of each topic
          conns,        \* s.wsConns
          hand,         \* handleWebSocket of each client: none, open, gone
          link,         \* each connection: up, down
          queue,        \* the topics each sender has still to send
          msg,          \* the message each sender is sending
          seen,         \* what each page shows
          best          \* the newest it has been sent, for the properties

clientVars == <<hand, link, seen, best>>
sendVars == <<queue, msg>>
vars == <<version, conns, clientVars, sendVars>>

Message == [topic : Topics, version : Versions \cup {Nothing},
            addressed : BOOLEAN, to : SUBSET Clients]
Idle == [topic |-> "none"]

TypeOK ==
  /\ version \in [Topics -> Versions]
  /\ conns \subseteq Clients
  /\ hand \in [Clients -> {"none", "open", "gone"}]
  /\ link \in [Clients -> {"up", "down"}]
  /\ queue \in [Senders -> {<<>>, <<"status">>, <<"logs">>, <<"backups">>,
                            <<"status", "backups">>, <<"logs", "backups">>,
                            <<"status", "logs", "backups">>}]
  /\ msg \in [Senders -> Message \cup {Idle}]
  /\ seen \in [Clients -> [Topics -> Versions]]
  /\ best \in [Clients -> [Topics -> Versions]]

Init ==
  /\ version = [t \in Topics |-> 0]
  /\ conns = {}
  /\ hand = [c \in Clients |-> "none"]
  /\ link = [c \in Clients |-> "down"]
  /\ queue = [s \in Senders |-> <<>>]
  /\ msg = [s \in Senders |-> Idle]
  /\ seen = [c \in Clients |-> [t \in Topics |-> 0]]
  /\ best = [c \in Clients |-> [t \in Topics |-> 0]]

Free(s) == queue[s] = <<>> /\ msg[s] = Idle

Broadcast(s, topics) == queue' = [queue EXCEPT ![s] = topics]

Change(t) ==
  /\ version[t] < Last[t]
  /\ version' = [version EXCEPT ![t] = @ + 1]

-----------------------------------------------------------------------------
(* What is broadcast.                                                       *)

(* UpdateBackupResult broadcasts the status and then the backups.           *)
UpdateResult(w) ==
  /\ Free(w)
  /\ Change("status")
  /\ Broadcast(w, <<"status", "backups">>)
  /\ UNCHANGED <<conns, clientVars, msg>>

(* The hook of the logger.                                                  *)
AppendLog(w) ==
  /\ Free(w)
  /\ Change("logs")
  /\ Broadcast(w, <<"logs">>)
  /\ UNCHANGED <<conns, clientVars, msg>>

(* Mutant: the ticker sets the time and tells nobody.                       *)
TickQuietly ==
  /\ Free(ticker)
  /\ UNCHANGED vars

(* The ticker sets the time and the countdown: the version stays.           *)
Tick ==
  /\ Free(ticker)
  /\ Broadcast(ticker, <<"status">>)
  /\ UNCHANGED <<version, conns, clientVars, msg>>

(* Somebody uploads to the folder, or removes from it.                      *)
FolderChanges ==
  /\ Change("backups")
  /\ UNCHANGED <<conns, clientVars, sendVars>>

-----------------------------------------------------------------------------
(* A send.                                                                  *)

(* The topic is copied; the backups are listed, or cannot be.  A list that  *)
(* is empty is left out of the message (omitempty, status.go:41): a listing *)
(* that failed and one of a folder without backups say the same, nothing.   *)
Copy(s) ==
  /\ msg[s] = Idle
  /\ queue[s] # <<>>
  /\ LET t == Head(queue[s])
         known == {version[t]} \cup (IF t = "backups" THEN {Nothing} ELSE {})
     IN  \E v \in known :
           msg' = [msg EXCEPT ![s] = [topic |-> t, version |-> v,
                                      addressed |-> FALSE, to |-> {}]]
  /\ queue' = [queue EXCEPT ![s] = Tail(@)]
  /\ UNCHANGED <<version, conns, clientVars>>

(* What is left to do with a message that goes to the clients of C.         *)
SendTo(s, C) ==
  msg' = [msg EXCEPT ![s] =
            IF C = {} THEN Idle ELSE [@ EXCEPT !.addressed = TRUE, !.to = C]]

(* A broadcast goes to who is connected now, a handler sends to its client. *)
Address(s) ==
  /\ msg[s] # Idle
  /\ ~msg[s].addressed
  /\ SendTo(s, IF s \in Clients THEN {s} ELSE conns)
  /\ UNCHANGED <<version, conns, clientVars, queue>>

Sending(s, c) == msg[s] # Idle /\ c \in msg[s].to

(* Mutant: a page shows a listing that failed.                              *)
DeliverAnything(s, c) ==
  /\ Sending(s, c)
  /\ link[c] = "up"
  /\ seen' = [seen EXCEPT ![c][msg[s].topic] = msg[s].version]
  /\ SendTo(s, msg[s].to \ {c})
  /\ UNCHANGED <<version, conns, hand, link, best, queue>>

(* A message that says nothing leaves the page as it is: one of an emptied  *)
(* folder shows the backups that were there.                                *)
Deliver(s, c) ==
  /\ Sending(s, c)
  /\ link[c] = "up"
  /\ LET t == msg[s].topic
         v == msg[s].version
     IN  IF v = Nothing
           THEN UNCHANGED <<seen, best>>
           ELSE /\ seen' = [seen EXCEPT ![c][t] = v]
                /\ best' = [best EXCEPT ![c][t] = IF v > @ THEN v ELSE @]
  /\ SendTo(s, msg[s].to \ {c})
  /\ UNCHANGED <<version, conns, hand, link, queue>>

(* An error closes the connection, unless it is the handler that sends.     *)
Undelivered(s, c) ==
  /\ Sending(s, c)
  /\ link[c] = "down"
  /\ conns' = IF s \in Clients THEN conns ELSE conns \ {c}
  /\ SendTo(s, msg[s].to \ {c})
  /\ UNCHANGED <<version, clientVars, queue>>

-----------------------------------------------------------------------------
(* A client.                                                                *)

(* Mutant: the connection gets the first messages and no others.            *)
ConnectUnregistered(c) ==
  /\ hand[c] = "none"
  /\ hand' = [hand EXCEPT ![c] = "open"]
  /\ link' = [link EXCEPT ![c] = "up"]
  /\ Broadcast(c, <<"status", "logs", "backups">>)
  /\ UNCHANGED <<version, conns, seen, best, msg>>

(* The handler registers the connection before it takes its first copy.     *)
Connect(c) ==
  /\ hand[c] = "none"
  /\ hand' = [hand EXCEPT ![c] = "open"]
  /\ link' = [link EXCEPT ![c] = "up"]
  /\ conns' = conns \cup {c}
  /\ Broadcast(c, <<"status", "logs", "backups">>)
  /\ UNCHANGED <<version, seen, best, msg>>

Break(c) ==
  /\ link[c] = "up"
  /\ link' = [link EXCEPT ![c] = "down"]
  /\ UNCHANGED <<version, conns, hand, seen, best, sendVars>>

(* Mutant: the error of Read is ignored.                                    *)
KeepsReading(c) ==
  /\ hand[c] = "open"
  /\ link[c] = "down"
  /\ Free(c)
  /\ UNCHANGED vars

(* Once the first messages are sent, Read finds the connection broken.      *)
Leave(c) ==
  /\ hand[c] = "open"
  /\ link[c] = "down"
  /\ Free(c)
  /\ hand' = [hand EXCEPT ![c] = "gone"]
  /\ conns' = conns \ {c}
  /\ UNCHANGED <<version, link, seen, best, sendVars>>

Write(w) == UpdateResult(w) \/ AppendLog(w)

Send(s) ==
  \/ Copy(s) \/ Address(s)
  \/ \E c \in Clients : Deliver(s, c) \/ Undelivered(s, c)

Next ==
  \/ Tick \/ FolderChanges
  \/ \E w \in Writers : Write(w)
  \/ \E s \in Senders : Send(s)
  \/ \E c \in Clients : Connect(c) \/ Break(c) \/ Leave(c)

Spec == Init /\ [][Next]_vars

(* The ticker ticks, in the scheduled mode: main starts none with --once    *)
(* (main.go:300-323), which is not modelled.  A send goes on: a client      *)
(* takes what it is sent, or its connection breaks.  (A client that does    *)
(* neither would hold its senders up for ever: no send has a deadline.)     *)
Fairness ==
  /\ WF_vars(Tick)
  /\ \A s \in Senders : WF_vars(Send(s))
  /\ \A c \in Clients : WF_vars(Leave(c))

FairSpec == Spec /\ Fairness
-----------------------------------------------------------------------------
(* Properties.                                                              *)

Concerns(s, t) ==
  msg[s].topic = t \/ \E i \in DOMAIN queue[s] : queue[s][i] = t

Connected(c) == hand[c] = "open" /\ link[c] = "up"

(* No change falls between the handler's first copy and the broadcasts      *)
(* (websocket.go:45-59): when no send of a topic is under way, every page   *)
(* has been sent its current version.                                       *)
NothingMissed ==
  \A c \in Clients, t \in {"status", "logs"} :
    Connected(c) /\ (\A s \in Senders : ~Concerns(s, t))
      => best[c][t] = version[t]

(* Broadcasts that overtake each other may leave a page with an old status, *)
(* but not for long: the ticker sends it again (status.go:140-178).         *)
StatusConverges ==
  <>[](\A c \in Clients : Connected(c) /\ Free(c)
         => seen[c]["status"] = version["status"])

(* A page that is gone is forgotten, whoever notices it first, and its      *)
(* handler ends (websocket.go:17-24 and 45-66).                             *)
GoneIsForgotten ==
  \A c \in Clients :
    (hand[c] = "open" /\ link[c] = "down")
      ~> (hand[c] = "gone" /\ c \notin conns)
=============================================================================
