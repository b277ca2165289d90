---------------------------- MODULE AccessToken ----------------------------
(***************************************************************************)
(* The global buffer WX_access_token: WX_GetTokenThread has a new token    *)
(* fetched and copied over it, WX_SendAlarmTemplateMsg formats it into a   *)
(* request, and there is no lock.  The copy has no terminating zero        *)
(* (TestTask.cpp:6085), so a short token leaves the end of a longer one    *)
(* standing.  The buffer is in two parts: where every token has bytes, and *)
(* where only the long ones have.  Both are copied and read in order.      *)
(* Bytes are new when they are of the token last fetched.                  *)
(***************************************************************************)

VARIABLES
  tpc,           \* where WX_GetTokenThread is
  signal,        \* WX_GetTokenEvent is set
  long,          \* the token last fetched is a long one
  front, back,   \* WX_access_token
  rpc,           \* where the reader is
  gotFront, gotBack,   \* what it has read
  disturbed      \* a copy has been under way since it began to read

threadVars == <<tpc, signal, long, front, back>>
readerVars == <<rpc, gotFront, gotBack, disturbed>>
vars == <<threadVars, readerVars>>

(* The buffer begins with a token that stands in the source                *)
(* (TestTask.cpp:22); the first fetch comes before the first wait.         *)
Init ==
  /\ tpc = "fetch" /\ signal = FALSE
  /\ long = FALSE /\ front = "new" /\ back = "none"
  /\ rpc = "idle" /\ gotFront = "none" /\ gotBack = "none" /\ disturbed = FALSE

(* The process begins again.                                               *)
Reset ==
  /\ tpc' = "fetch" /\ signal' = FALSE
  /\ long' = FALSE /\ front' = "new" /\ back' = "none"
  /\ rpc' = "idle" /\ gotFront' = "none" /\ gotBack' = "none" /\ disturbed' = FALSE

Copying == tpc \in {"copy", "copyback"}

Aged(bytes) == IF bytes = "new" THEN "old" ELSE bytes

(* WX_GetAccessTokenMsg.  recv gives a piece that has a whole token in it; *)
(* or the connection fails or ends without, and the old token stays.       *)
Fetch ==
  /\ tpc = "fetch"
  /\ \/ /\ tpc' = "copy"
        /\ long' \in BOOLEAN
        /\ front' = Aged(front) /\ back' = Aged(back)
        /\ gotFront' = Aged(gotFront) /\ gotBack' = Aged(gotBack)
        /\ disturbed' = (rpc # "idle")
     \/ tpc' = "wait" /\ UNCHANGED <<long, front, back, gotFront, gotBack, disturbed>>
  /\ UNCHANGED <<signal, rpc>>

(* Mutant: the length of a short token is taken for every token.           *)
CopyFront_Short ==
  /\ tpc = "copy"
  /\ front' = "new" /\ tpc' = "wait"
  /\ UNCHANGED <<signal, long, back, readerVars>>

(* memcpy(WX_access_token, ...)                                            *)
CopyFront ==
  /\ tpc = "copy"
  /\ front' = "new"
  /\ tpc' = IF long THEN "copyback" ELSE "wait"
  /\ UNCHANGED <<signal, long, back, readerVars>>

CopyBack ==
  /\ tpc = "copyback"
  /\ back' = "new"
  /\ tpc' = "wait"
  /\ UNCHANGED <<signal, long, front, readerVars>>

(* 30 minutes have passed: SetEvent, and the next wait returns at once.    *)
TimeOut ==
  /\ tpc = "wait" /\ ~signal
  /\ signal' = TRUE
  /\ UNCHANGED <<tpc, long, front, back, readerVars>>

Wake ==
  /\ tpc = "wait" /\ signal
  /\ signal' = FALSE /\ tpc' = "fetch"
  /\ UNCHANGED <<long, front, back, readerVars>>

Thread == Fetch \/ CopyFront \/ CopyBack \/ TimeOut \/ Wake

(* sprintf(wx_latemsg_ref, wx_send_template_ref, WX_access_token)          *)
ReadFront ==
  /\ rpc = "idle"
  /\ rpc' = "back"
  /\ gotFront' = front
  /\ disturbed' = Copying
  /\ UNCHANGED <<threadVars, gotBack>>

ReadBack ==
  /\ rpc = "back"
  /\ rpc' = "got"
  /\ gotBack' = back
  /\ UNCHANGED <<threadVars, gotFront, disturbed>>

Reader == ReadFront \/ ReadBack

(* The reader has sent its request and returns.                            *)
Sent ==
  /\ rpc = "got"
  /\ rpc' = "idle" /\ gotFront' = "none" /\ gotBack' = "none" /\ disturbed' = FALSE
  /\ UNCHANGED threadVars

-----------------------------------------------------------------------------

Bytes == {"new", "old", "none"}

TypeOK ==
  /\ tpc \in {"fetch", "copy", "copyback", "wait"}
  /\ signal \in BOOLEAN /\ long \in BOOLEAN /\ disturbed \in BOOLEAN
  /\ front \in Bytes /\ back \in Bytes
  /\ rpc \in {"idle", "back", "got"}
  /\ gotFront \in Bytes /\ gotBack \in Bytes

(* What is read while nothing is copied is the token last fetched, if that *)
(* is a long one; after a short one it may have the end of a longer.       *)
ReadIsNewest ==
  rpc = "got" /\ ~disturbed => gotFront = "new" /\ (long => gotBack = "new")
=============================================================================
