------------------------------ MODULE OAuthFlow ------------------------------
(***************************************************************************)
(* The OAuth authorization: the uploader of internal/drive/drive.go, which *)
(* waits for an authorization code whenever it finds no token, the check   *)
(* of cmd/backup/main.go before the service starts, and the handlers of    *)
(* internal/web/oauth_handlers.go, which start such a wait and hand over   *)
(* the code.                                                               *)
(*                                                                         *)
(* Whoever finds no token waits by itself.  With a dashboard there is one  *)
(* channel of one code for all, and the waiters differ in what ends their  *)
(* wait: a click on "Authorize Google Drive" waits in the background for   *)
(* ever, and so does the download of a restore, an upload waits until the  *)
(* context of its backup is done, a listing 30 seconds.  Without one the   *)
(* code is typed at the terminal, first for the check, and nothing else    *)
(* ends the wait.                                                          *)
(*                                                                         *)
(* The token file is "none", "torn" (truncated by os.Create and not yet    *)
(* written) or "good"; a torn file is read as no token.  The inline token  *)
(* of GOOGLE_OAUTH_TOKEN_JSON is "empty", "malformed", "lacking" (without  *)
(* a refresh token) or "good"; a save overwrites it in memory.             *)
(***************************************************************************)
CONSTANTS Clicks,     \* goroutines of handleOAuthStart
          Uploads,    \* uploads of backups
          Lists,      \* listings of the folder
          Downloads,  \* downloads of restores
          preflight,  \* ensureOAuthIfNeeded without a dashboard
          Inlines,    \* what GOOGLE_OAUTH_TOKEN_JSON may hold
          Codes,      \* the codes Google hands out
          Refusals    \* may Google refuse, or not answer for, a fresh code?

ASSUME WaitersAssumption ==
  /\ Clicks \cap Uploads = {} /\ Clicks \cap Lists = {} /\ Uploads \cap Lists = {}
  /\ Downloads \cap (Clicks \cup Uploads \cup Lists) = {}
  /\ preflight \notin Clicks \cup Uploads \cup Lists \cup Downloads
ASSUME InlineAssumption == Inlines \subseteq {"empty", "malformed", "lacking", "good"}
ASSUME RefusalsAssumption == Refusals \in BOOLEAN

Waiters == Clicks \cup Uploads \cup Lists \cup Downloads \cup {preflight}

VARIABLES
  pc,         \* where each waiter is
  got,        \* the codes each waiter has received and not yet exchanged
  chan,       \* oauthCodeCh: no code or one
  accepted,   \* codes the callback has answered with "successful"
  spent,      \* codes that have been exchanged
  file,       \* the token file
  broken,     \* a save has been cut short
  stopped,    \* the context of the backups is done
  inline,     \* the inline token, as it is in memory
  given,      \* the inline token, as it is in the environment
  saved,      \* has this process saved a token?
  ready,      \* has the service got past its check?
  dashboard   \* is there one?

flow == <<pc, got, chan>>
codes == <<accepted, spent>>
disk == <<file, broken>>
memory == <<inline, saved, ready>>
config == <<given, dashboard>>
vars == <<flow, codes, disk, memory, stopped, config>>

TypeOK ==
  /\ pc \in [Waiters -> {"idle", "waiting", "exchanging", "saving", "writing",
                         "calling", "gone"}]
  /\ got \in [Waiters -> SUBSET Codes]
  /\ chan \subseteq Codes /\ \A c, d \in chan : c = d
  /\ accepted \subseteq Codes
  /\ spent \subseteq Codes
  /\ file \in {"none", "torn", "good"}
  /\ broken \in BOOLEAN
  /\ stopped \in BOOLEAN
  /\ inline \in Inlines \cup {"good"} /\ given \in Inlines
  /\ saved \in BOOLEAN /\ ready \in BOOLEAN /\ dashboard \in BOOLEAN

Init ==
  /\ pc = [w \in Waiters |-> "idle"]
  /\ got = [w \in Waiters |-> {}]
  /\ chan = {} /\ accepted = {} /\ spent = {}
  /\ file = "none"
  /\ broken = FALSE
  /\ stopped = FALSE
  /\ given \in Inlines /\ inline = given
  /\ saved = FALSE
  /\ dashboard \in BOOLEAN /\ ready = dashboard

Goto(w, place) == pc' = [pc EXCEPT ![w] = place]

(* tokenFromData: an inline token that cannot be read is an error, and one  *)
(* that lacks a refresh token leaves it to the file; a file that is missing *)
(* or cannot be read is no token.                                           *)
HasToken ==
  \/ inline = "good"
  \/ inline \in {"empty", "lacking"} /\ file = "good"

(* What a reader of the token finds.  tokenJSON is a string of two words    *)
(* without a lock: one that is being assigned may be read as neither the    *)
(* old nor the new one.                                                     *)
Finds(token) ==
  \/ token = HasToken
  \/ /\ token = FALSE
     /\ inline # "empty"
     /\ \E w \in Waiters : pc[w] = "saving"

(* Where a waiter goes that gets no token.  A check that fails ends the     *)
(* process.                                                                 *)
Away(w) == IF w = preflight THEN "gone" ELSE "idle"

(* The context of a wait is done.                                           *)
CtxDone(w) == w \in Lists \/ (w \in Uploads \cup {preflight} /\ stopped)

-----------------------------------------------------------------------------
(* Mutant: the channel takes every code.                                    *)
CallbackUnbounded(c) ==
  /\ dashboard
  /\ chan' = chan \cup {c}
  /\ accepted' = accepted \cup {c}
  /\ UNCHANGED <<pc, got, spent, disk, memory, stopped, config>>

(* The browser comes back with a code, perhaps again, perhaps with nobody   *)
(* waiting.  With the channel full the answer is 503, and nothing changes.  *)
Callback(c) ==
  /\ dashboard
  /\ chan = {}
  /\ chan' = {c}
  /\ accepted' = accepted \cup {c}
  /\ UNCHANGED <<pc, got, spent, disk, memory, stopped, config>>

(* handleOAuthStart: refused when there is a token (409).                   *)
Click(w) ==
  /\ w \in Clicks
  /\ dashboard
  /\ pc[w] = "idle"
  /\ Finds(FALSE)
  /\ Goto(w, "waiting")
  /\ UNCHANGED <<got, chan, codes, disk, memory, stopped, config>>

(* newService: with a token the caller goes on to Drive.                    *)
NewService(w) ==
  /\ w \in Uploads \/ (w \in Lists \cup Downloads /\ dashboard)
  /\ ready
  /\ pc[w] = "idle"
  /\ \E token \in BOOLEAN :
       Finds(token) /\ Goto(w, IF token THEN "calling" ELSE "waiting")
  /\ UNCHANGED <<got, chan, codes, disk, memory, stopped, config>>

(* ensureOAuthIfNeeded: with a dashboard the authorization is left to it.   *)
Check(w) ==
  /\ w = preflight
  /\ ~ready
  /\ pc[w] = "idle"
  /\ IF HasToken THEN ready' = TRUE /\ UNCHANGED pc
                 ELSE Goto(w, "waiting") /\ UNCHANGED ready
  /\ UNCHANGED <<got, chan, codes, disk, inline, saved, stopped, config>>

CallReturns(w) ==
  /\ pc[w] = "calling"
  /\ Goto(w, "idle")
  /\ UNCHANGED <<got, chan, codes, disk, memory, stopped, config>>

-----------------------------------------------------------------------------
(* WaitForToken.                                                            *)

Receive(w) ==
  /\ pc[w] = "waiting"
  /\ chan # {}
  /\ got' = [got EXCEPT ![w] = chan]
  /\ chan' = {}
  /\ Goto(w, "exchanging")
  /\ UNCHANGED <<codes, disk, memory, stopped, config>>

(* fmt.Scan reads a code, or fails: the context does not end it.            *)
Scan(w) ==
  /\ ~dashboard
  /\ pc[w] = "waiting"
  /\ \/ /\ \E c \in Codes : got' = [got EXCEPT ![w] = {c}]
        /\ Goto(w, "exchanging")
     \/ /\ Goto(w, Away(w))
        /\ UNCHANGED got
  /\ UNCHANGED <<chan, codes, disk, memory, stopped, config>>

(* Mutant: uploads wait without their context.                              *)
GiveUpListings(w) ==
  /\ dashboard
  /\ pc[w] = "waiting"
  /\ w \in Lists
  /\ Goto(w, "idle")
  /\ UNCHANGED <<got, chan, codes, disk, memory, stopped, config>>

GiveUp(w) ==
  /\ dashboard
  /\ pc[w] = "waiting"
  /\ CtxDone(w)
  /\ Goto(w, "idle")
  /\ UNCHANGED <<got, chan, codes, disk, memory, stopped, config>>

(* Google exchanges a code once.  It hands out a refresh token with it:     *)
(* prompt=consent asks for one.                                             *)
Exchange(w) ==
  /\ pc[w] = "exchanging"
  /\ got[w] \cap spent = {}
  /\ spent' = spent \cup got[w]
  /\ got' = [got EXCEPT ![w] = {}]
  /\ Goto(w, "saving")
  /\ UNCHANGED <<chan, accepted, disk, memory, stopped, config>>

(* The code is spent or refused, or the context is done: the code is gone   *)
(* with it, and perhaps exchanged all the same.                             *)
ExchangeFails(w) ==
  /\ pc[w] = "exchanging"
  /\ got[w] \cap spent # {} \/ Refusals \/ CtxDone(w)
  /\ spent' \in {spent, spent \cup got[w]}
  /\ got' = [got EXCEPT ![w] = {}]
  /\ Goto(w, Away(w))
  /\ UNCHANGED <<chan, accepted, disk, memory, stopped, config>>

-----------------------------------------------------------------------------
(* SaveToken: the inline token, if there is one, is replaced in memory; and *)
(* os.Create truncates the file, then the token is written.                 *)

(* Mutant: the token goes to the file only.                                 *)
RememberNothing == UNCHANGED inline

Remember == inline' = IF inline = "empty" THEN "empty" ELSE "good"

SaveCreates(w) ==
  /\ pc[w] = "saving"
  /\ Remember
  /\ file' = "torn"
  /\ Goto(w, "writing")
  /\ UNCHANGED <<got, chan, codes, broken, saved, ready, stopped, config>>

After(w) == IF w \in Clicks \cup {preflight} THEN "idle" ELSE "calling"

(* Mutant: the error of the write is ignored.                               *)
SaveWritesPerhaps(w) ==
  /\ pc[w] = "writing"
  /\ file' \in {"torn", "good"}
  /\ saved' = TRUE
  /\ ready' = TRUE
  /\ Goto(w, After(w))
  /\ UNCHANGED <<got, chan, codes, broken, inline, stopped, config>>

(* The check is passed with it.                                             *)
SaveWrites(w) ==
  /\ pc[w] = "writing"
  /\ file' = "good"
  /\ saved' = TRUE
  /\ ready' = TRUE
  /\ Goto(w, After(w))
  /\ UNCHANGED <<got, chan, codes, broken, inline, stopped, config>>

(* The file cannot be created, or not written: the waiter returns an error. *)
SaveFails(w) ==
  /\ Refusals
  /\ pc[w] \in {"saving", "writing"}
  /\ Remember
  /\ broken' = (broken \/ pc[w] = "writing")
  /\ Goto(w, Away(w))
  /\ UNCHANGED <<got, chan, codes, file, saved, ready, stopped, config>>

-----------------------------------------------------------------------------
(* The context of the backups is cancelled.                                 *)
StopBackups ==
  /\ ~stopped
  /\ stopped' = TRUE
  /\ UNCHANGED <<flow, codes, disk, memory, config>>

(* The process ends and is started again: channel, waiters and what was in  *)
(* memory are lost.                                                         *)
Restart ==
  /\ pc' = [w \in Waiters |-> "idle"]
  /\ got' = [w \in Waiters |-> {}]
  /\ chan' = {}
  /\ broken' = (broken \/ \E w \in Waiters : pc[w] = "writing")
  /\ stopped' = FALSE
  /\ inline' = given /\ saved' = FALSE /\ ready' = dashboard
  /\ UNCHANGED <<codes, file, config>>

Enter(w) == Click(w) \/ NewService(w) \/ Check(w)
Wait(w) == Receive(w) \/ GiveUp(w)
Answer(w) == Exchange(w) \/ ExchangeFails(w) \/ CallReturns(w)
Save(w) == SaveCreates(w) \/ SaveWrites(w) \/ SaveFails(w)

Next ==
  \/ StopBackups \/ Restart
  \/ \E c \in Codes : Callback(c)
  \/ \E w \in Waiters : Enter(w) \/ Wait(w) \/ Scan(w) \/ Answer(w) \/ Save(w)

Spec == Init /\ [][Next]_vars

(* A waiter goes on when it can; Google's answers come at the latest when   *)
(* the context is done, and for a click, which has none, may never come     *)
(* unless Refusals is FALSE.  Nobody need type a code.                      *)
Fairness ==
  \A w \in Waiters :
    /\ WF_vars(Wait(w))
    /\ WF_vars(Save(w))
    /\ WF_vars((CtxDone(w) \/ ~Refusals) /\ Answer(w))

FairSpec == Spec /\ Fairness
-----------------------------------------------------------------------------
(* Properties.                                                              *)

(* The token file is unreadable only while somebody is writing it, or after *)
(* a write was cut short by an error or the end of the process: two savers  *)
(* of one file leave a token behind (drive.go:452-472).                     *)
TornOnlyWhileSaving ==
  file = "torn" => broken \/ \E w \in Waiters : pc[w] = "writing"

(* After the program has saved a token, nobody who looks for one starts to  *)
(* wait for a code, until the program is started again: whatever the        *)
(* environment holds, no place in which it looks hides the saved token      *)
(* (drive.go:423-450 with 452-472).  There are two exceptions: the token is *)
(* only in the file, and a write has torn it; or it is inline, and another  *)
(* saver is assigning that string, without a lock, at the moment of the     *)
(* look (drive.go:458).                                                     *)
SavedIsFound ==
  [][\A w \in Waiters : saved /\ pc[w] = "idle" /\ pc'[w] = "waiting" =>
       \/ inline = "empty" /\ file = "torn"
       \/ inline = "good" /\ \E v \in Waiters : pc[v] = "saving"]_vars

(* A wait with a bounded context is over when the context is: a listing     *)
(* ends, and Stop or a signal ends an upload that waits for a code that     *)
(* never comes (drive.go:524-547), if there is a dashboard.                 *)
BoundedWait ==
  \A w \in Uploads \cup Lists :
    (dashboard /\ pc[w] # "idle" /\ CtxDone(w)) ~> (pc[w] = "idle")

(* What the program says and does not do (see README.md).                   *)

(* oauth_handlers.go: the callback answers "OAuth authorization             *)
(* successful": there is a token soon, unless it could not be saved.        *)
SuccessMeansToken ==
  \A c \in Codes : c \in accepted ~> (file = "good" \/ broken)
=============================================================================
