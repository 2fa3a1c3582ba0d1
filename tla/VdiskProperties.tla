-------------------------- MODULE VdiskProperties --------------------------
(***************************************************************************)
(* What is asked of the driver.                                            *)
(***************************************************************************)
EXTENDS VdiskDriver

TokenValue == {"none", "quoted", "good", "expired"}
Code       == {"none", "ok", "nondata", "error", "refused", "curl"}
Label      == {"idle", "try", "post", "parse", "authenticate", "get_token", "unquote",
               "timer", "parsed", "download", "record", "done"}
Frame      == [pc : Label, op : {"none", "get", "put", "keep"}, blk : Block \cup {0},
               data : SUBSET Data, fid : SUBSET Block, retry : 0 .. VDISK_RETRY_ON_FAIL,
               token : TokenValue, rsp : {"empty", "ok", "error", "refused"},
               ret : Code]

\* The types of the variables (static token, vdisk_errno, mapping; the locals
\* of get_block, put_block, keep_alive); no try is counted below 0.
TypeOK ==
    /\ DOMAIN file \in SUBSET Block
    /\ \A b \in DOMAIN file : file[b] \in Data
    /\ token \in TokenValue
    /\ vdisk_errno \in {"ok", "nondata"}
    /\ mapping \in [open : BOOLEAN, view : SUBSET Block, disk : SUBSET Block]
    /\ alarm \in {"on", "off"}
    /\ frame \in [Context -> Frame]
    /\ faults \in 0 .. MaxFault
    /\ expiries \in 0 .. MaxExpiry

\* An identifier in the mapping file, buffered or on disk, is that of a file
\* the server holds, however many posts were lost, refused or interrupted by
\* keep_alive; so is what a restart finds.  (put_block: record after parse.)
RecordedStored ==
    /\ mapping.disk \subseteq mapping.view
    /\ mapping.view \subseteq DOMAIN file

\* A put that meets no fault succeeds although the token has expired once, at
\* whatever moment, and whatever keep_alive has done meanwhile: the three tries
\* are enough for the first token and for one more (VDISK_RETRY_ON_FAIL).
PutSurvivesExpiry ==
    LET f == frame["call"]
    IN  f.pc = "done" /\ f.op = "put" /\ faults = 0 /\ expiries <= 1 => f.ret = "ok"

\* A put the server has served, and answered, succeeds, whatever came before.
\* But vdisk_errno, the "Error code for vdisk", is set by one malformed answer
\* and never cleared: every later parse of a good answer says it again.
ServedSucceeds ==
    LET f == frame["call"]
    IN  f.pc = "done" /\ f.op = "put" /\ f.rsp = "ok" => f.ret = "ok"

\* Every call of get_block and put_block comes to its end, with an answer or
\* with the process: the tries are counted and no handler keeps it waiting
\* for good.
CallsEnd == frame["call"].pc # "idle" ~> frame["call"].pc = "idle"

\* "Request for keep alive per 10 min": with a good token and nothing under
\* way, the timer is set.
TimerRuns ==
    token = "good" /\ (\A c \in Context : frame[c].pc = "idle") => alarm = "on"

(***************************************************************************)
(* The driver implements a store of blocks: the blocks that have an        *)
(* identifier, with the contents the server holds.                         *)
(***************************************************************************)
Stored  == [b \in mapping.view |-> file[b]]
Unsaved == mapping.view \ mapping.disk

Called ==
    LET f == frame["call"]
    IN  CASE f.op = "none" -> [op |-> "none"]
          [] f.op = "get"  -> [op |-> "get", blk |-> f.blk]
          [] f.op = "put"  -> [op |-> "put", blk |-> f.blk, data |-> Content(f)]

Answered ==
    LET f == frame["call"]
    IN  CASE f.pc # "done" -> [ret |-> "none"]
          [] f.pc = "done" /\ f.ret # "ok" -> [ret |-> "failed"]
          [] f.pc = "done" /\ f.ret = "ok" /\ f.op = "get" ->
                [ret |-> "ok", data |-> Content(f)]
          [] OTHER -> [ret |-> "ok"]

Store == INSTANCE BlockStore
         WITH store <- Stored, unsaved <- Unsaved, call <- Called, answer <- Answered

\* What SdiskFs relies on: a get answers what the last put of the block left
\* on the server; a put answered "ok" stays; a crash loses at most the one
\* block whose identifier is still in the buffer of the mapping file.
ImplementsBlockStore == Store!Spec
=============================================================================
