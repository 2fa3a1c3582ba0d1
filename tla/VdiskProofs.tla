---------------------------- MODULE VdiskProofs ----------------------------
(***************************************************************************)
(* Proofs about the driver, for any blocks, contents and bounds.           *)
(***************************************************************************)
EXTENDS VdiskProperties, TLAPS

(***************************************************************************)
(* The inductive invariant                                                 *)
(***************************************************************************)
\* What a frame of the call knows: which labels it passes, how many tries are
\* left, and that "ok" is said of an answer that was "ok".
CallOK ==
    LET f == frame["call"]
    IN  /\ f.pc = "idle" => f.op = "none"
        /\ f.pc # "idle" => f.op \in {"get", "put"} /\ f.blk \in Block
        /\ f.pc = "try" => f.op = "put" /\ f.retry > 0
        /\ f.pc = "record" => f.op = "put"
        /\ f.pc = "download" => f.op = "get"
        /\ f.pc \in {"download", "record"} => f.ret = "ok"
        /\ f.ret = "ok" => f.rsp = "ok" /\ f.pc \in {"parsed", "download", "record", "done"}

\* A put has its content; what it was answered "ok" for is on the server.  A
\* get is answered "ok" for a block that has an identifier.
ServedOK ==
    LET f == frame["call"]
    IN  /\ f.op = "put" => f.data # {}
        /\ f.op = "get" => f.fid \subseteq mapping.view \cap {f.blk}
        /\ f.rsp = "ok" => f.blk \in DOMAIN file
        /\ f.rsp = "ok" /\ f.op = "get" => f.blk \in mapping.view
        /\ f.rsp = "ok" /\ f.op = "put" => file[f.blk] = Content(f)

\* The handler has nothing to upload.
AlarmOK == frame["alarm"].op \in {"none", "keep"}

IInv == TypeOK /\ CallOK /\ ServedOK /\ AlarmOK /\ RecordedStored

(***************************************************************************)
(* Lemmas                                                                  *)
(***************************************************************************)
\* The frame without a call is one.
LEMMA IdleType == Idle \in Frame
  BY DEF Idle, Frame, Label, TokenValue, Code, VDISK_RETRY_ON_FAIL

\* A step of one context sets its frame and leaves the other.
LEMMA GotoFrame ==
  ASSUME frame \in [Context -> Frame], NEW c \in Context, NEW l \in Label, NEW f \in Frame,
         Goto(c, l, f)
  PROVE  /\ frame' \in [Context -> Frame]
         /\ frame'[c] = [f EXCEPT !.pc = l]
         /\ \A d \in Context \ {c} : frame'[d] = frame[d]
  <1>1. [f EXCEPT !.pc = l] \in Frame
    BY DEF Frame
  <1> QED
    BY <1>1 DEF Goto

\* A new process is in order, with any identifiers that were.
LEMMA GoneOK ==
  ASSUME IInv, NEW blocks \in SUBSET mapping.view, Gone(blocks)
  PROVE  IInv'
  <1>1. frame' = [c \in Context |-> Idle] /\ file' = file
    BY DEF Gone
  <1>2. frame'["call"] = Idle /\ frame'["alarm"] = Idle
    BY <1>1 DEF Context
  <1>3. TypeOK'
    <2>1. frame' \in [Context -> Frame]
      BY <1>1, IdleType
    <2>2. mapping' \in [open : BOOLEAN, view : SUBSET Block, disk : SUBSET Block]
      BY DEF Gone, IInv, TypeOK
    <2> QED
      BY <1>1, <2>1, <2>2 DEF Gone, IInv, TypeOK, TokenValue, counters
  <1>4. (CallOK /\ ServedOK /\ AlarmOK)'
    BY <1>2 DEF CallOK, ServedOK, AlarmOK, Idle
  <1>5. RecordedStored'
    BY <1>1 DEF Gone, IInv, RecordedStored
  <1> QED
    BY <1>3, <1>4, <1>5 DEF IInv

LEMMA DieOK == ASSUME IInv, Die PROVE IInv'
  BY GoneOK DEF Die, IInv, RecordedStored

\* The initial states are in order.
LEMMA InitOK == ASSUME Init PROVE IInv
  <1>1. frame \in [Context -> Frame]
    BY IdleType DEF Init
  <1>2. frame["call"] = Idle /\ frame["alarm"] = Idle
    BY DEF Init, Context
  <1>3. TypeOK
    BY <1>1, DriverAssumption DEF Init, TypeOK, TokenValue
  <1> QED
    BY <1>2, <1>3 DEF Init, IInv, CallOK, ServedOK, AlarmOK, RecordedStored, Idle

(***************************************************************************)
(* The actions                                                             *)
(***************************************************************************)
LEMMA ContentType == ASSUME NEW f \in Frame, f.data # {} PROVE Content(f) \in f.data
  BY DEF Content

\* What a put has uploaded is well typed, keeps every file and adds its own.
LEMMA UploadedType ==
  ASSUME IInv, NEW c \in Context
  PROVE  LET f == frame[c]
             new == Uploaded(f)
         IN  /\ DOMAIN new \in SUBSET Block
             /\ \A b \in DOMAIN new : new[b] \in Data
             /\ DOMAIN file \subseteq DOMAIN new
             /\ f.op # "put" => new = file
             /\ \A b \in DOMAIN file : b # f.blk => new[b] = file[b]
             /\ f.op = "put" /\ Served(f) => f.blk \in DOMAIN new /\ new[f.blk] = Content(f)
             /\ new = file \/ (f.blk \in DOMAIN new /\ new[f.blk] = Content(f))
  <1> DEFINE f == frame[c]
  <1>1. f \in Frame
    BY DEF IInv, TypeOK
  <1>2. CASE f.op = "put" /\ Served(f)
    <2>1. c = "call" /\ f.op # "none"
      BY <1>2 DEF IInv, AlarmOK, Context
    <2>2. f.blk \in Block /\ f.data # {}
      BY <1>2, <2>1 DEF IInv, CallOK, ServedOK
    <2>3. Content(f) \in Data
      BY <1>1, <2>2, ContentType DEF Frame
    <2>4. Uploaded(f) = [x \in DOMAIN file \cup {f.blk} |->
                            IF x = f.blk THEN Content(f) ELSE file[x]]
      BY <1>2 DEF Uploaded
    <2> HIDE DEF f
    <2> QED
      BY <1>2, <2>2, <2>3, <2>4 DEF IInv, TypeOK, f
  <1>3. CASE ~(f.op = "put" /\ Served(f))
    BY <1>3 DEF Uploaded, IInv, TypeOK
  <1> QED
    BY <1>2, <1>3

\* get_block: a new frame, and the mapping flushed.
LEMMA GetBlockOK ==
  ASSUME IInv, NEW b \in Block, get_block(b) PROVE IInv'
  <1>1. CASE ~mapping.open /\ Die
    BY <1>1, DieOK
  <1>2. CASE mapping.open /\ ~Die
    <2> DEFINE f == [Idle EXCEPT !.op = "get", !.blk = b, !.fid = mapping.view \cap {b},
                                 !.retry = VDISK_RETRY_ON_FAIL - 1, !.token = token]
    <2>1. /\ mapping' = Flushed /\ Goto("call", "post", f)
          /\ UNCHANGED <<file, token, vdisk_errno, alarm, faults, expiries>>
      BY <1>2 DEF get_block, counters
    <2>2. f \in Frame
      <3>1. VDISK_RETRY_ON_FAIL - 1 \in 0 .. VDISK_RETRY_ON_FAIL
        BY DEF VDISK_RETRY_ON_FAIL
      <3>2. \A k \in SUBSET Block, t \in TokenValue,
               r \in 0 .. VDISK_RETRY_ON_FAIL :
              [Idle EXCEPT !.op = "get", !.blk = b, !.fid = k, !.retry = r, !.token = t] \in Frame
        BY IdleType DEF Frame
      <3> QED
        BY <3>1, <3>2 DEF IInv, TypeOK
    <2>3. /\ frame' \in [Context -> Frame] /\ frame'["call"] = [f EXCEPT !.pc = "post"]
          /\ frame'["alarm"] = frame["alarm"]
      BY <2>1, <2>2, GotoFrame DEF IInv, TypeOK, Context, Label
    <2>4. TypeOK'
      BY <2>1, <2>3 DEF IInv, TypeOK, Flushed
    <2>5. (CallOK /\ ServedOK /\ AlarmOK)'
      BY <2>1, <2>3 DEF IInv, TypeOK, CallOK, ServedOK, AlarmOK, Idle, Flushed
    <2>6. RecordedStored'
      BY <2>1 DEF IInv, TypeOK, RecordedStored, Flushed
    <2> QED
      BY <2>4, <2>5, <2>6 DEF IInv
  <1> QED
    BY <1>1, <1>2, DieOK DEF get_block

\* put_block: a new frame.
LEMMA PutBlockOK ==
  ASSUME IInv, NEW b \in Block, NEW data \in Data, put_block(b, data) PROVE IInv'
  <1> DEFINE f == [Idle EXCEPT !.op = "put", !.blk = b, !.data = {data},
                               !.retry = VDISK_RETRY_ON_FAIL]
  <1>1. /\ Goto("call", "try", f)
        /\ UNCHANGED <<file, token, vdisk_errno, mapping, alarm, faults, expiries>>
    BY DEF put_block, counters
  <1>2. f \in Frame
    <2>1. VDISK_RETRY_ON_FAIL \in 0 .. VDISK_RETRY_ON_FAIL
      BY DEF VDISK_RETRY_ON_FAIL
    <2>2. \A d \in SUBSET Data, r \in 0 .. VDISK_RETRY_ON_FAIL :
            [Idle EXCEPT !.op = "put", !.blk = b, !.data = d, !.retry = r] \in Frame
      BY IdleType DEF Frame
    <2> QED
      BY <2>1, <2>2 DEF IInv, TypeOK
  <1>3. /\ frame' \in [Context -> Frame] /\ frame'["call"] = [f EXCEPT !.pc = "try"]
        /\ frame'["alarm"] = frame["alarm"]
    BY <1>1, <1>2, GotoFrame DEF IInv, TypeOK, Context, Label
  <1>4. TypeOK'
    BY <1>1, <1>3 DEF IInv, TypeOK
  <1>5. CallOK' /\ ServedOK'
    BY <1>1, <1>3 DEF IInv, CallOK, ServedOK, Idle, VDISK_RETRY_ON_FAIL
  <1>6. AlarmOK' /\ RecordedStored'
    BY <1>1, <1>3 DEF IInv, AlarmOK, RecordedStored, Idle
  <1> QED
    BY <1>4, <1>5, <1>6 DEF IInv

\* What a context keeps of its call while it goes on.
Keeps(f, g) ==
    /\ g.op = f.op /\ g.blk = f.blk /\ g.fid = f.fid
    /\ g.op = "put" => g.data = f.data
    /\ g.rsp = f.rsp

\* A step that leaves the files and the identifiers: what is left to show is
\* that the call is in order.
LEMMA StepOK ==
  ASSUME IInv, NEW c \in Context, NEW l \in Label, NEW f \in Frame, Goto(c, l, f),
         Keeps(frame[c], f), f.ret = "ok" => frame[c].ret = "ok" \/ vdisk_errno = "ok",
         UNCHANGED file, vdisk_errno' \in {vdisk_errno, "nondata"},
         mapping' \in [open : BOOLEAN, view : SUBSET Block, disk : SUBSET Block],
         mapping'.view = mapping.view, mapping'.disk \subseteq mapping.view,
         token' \in TokenValue, alarm' \in {"on", "off"},
         faults' \in 0 .. MaxFault, expiries' \in 0 .. MaxExpiry,
         c = "call" => CallOK'
  PROVE  IInv'
  <1>1. /\ frame' \in [Context -> Frame] /\ frame'[c] = [f EXCEPT !.pc = l]
        /\ \A d \in Context \ {c} : frame'[d] = frame[d]
    BY GotoFrame DEF IInv, TypeOK
  <1> DEFINE g == [f EXCEPT !.pc = l]
  <1>2. Keeps(frame[c], g) /\ g.ret = f.ret
    BY DEF Frame, Keeps
  <1>3. frame'[c] = g
    BY <1>1
  <1> HIDE DEF g
  <1>4. TypeOK'
    BY <1>1 DEF IInv, TypeOK
  <1>5. RecordedStored'
    BY DEF IInv, RecordedStored
  <1>6. CASE c = "call"
    <2>1. ServedOK'
      BY <1>2, <1>3, <1>6 DEF IInv, ServedOK, Content, Keeps
    <2>2. AlarmOK'
      BY <1>1, <1>6 DEF IInv, AlarmOK, Context
    <2> QED
      BY <1>4, <1>5, <1>6, <2>1, <2>2 DEF IInv
  <1>7. CASE c = "alarm"
    <2>1. frame'["call"] = frame["call"]
      BY <1>1, <1>7 DEF Context
    <2>2. CallOK' /\ ServedOK'
      BY <2>1 DEF IInv, CallOK, ServedOK, Content
    <2>3. AlarmOK'
      BY <1>2, <1>3, <1>7 DEF IInv, AlarmOK, Keeps
    <2> QED
      BY <1>4, <1>5, <2>2, <2>3 DEF IInv
  <1> QED
    BY <1>6, <1>7 DEF Context

\* A step of the call that changes nothing but its frame.
LEMMA CallStepOK ==
  ASSUME IInv, NEW l \in Label, NEW f \in Frame, Goto("call", l, f), Keeps(frame["call"], f),
         f.ret = "ok" => frame["call"].ret = "ok",
         UNCHANGED <<file, token, vdisk_errno, mapping, alarm, expiries>>,
         faults' \in 0 .. MaxFault, CallOK'
  PROVE  IInv'
  BY StepOK DEF IInv, TypeOK, RecordedStored, Context

LEMMA TryOK == ASSUME IInv, try PROVE IInv'
  <1> DEFINE f == [frame["call"] EXCEPT !.retry = @ - 1, !.token = token]
  <1>1. /\ Goto("call", "post", f) /\ frame["call"].pc = "try"
        /\ UNCHANGED <<file, token, vdisk_errno, mapping, alarm, faults, expiries>>
    BY DEF try, counters, At
  <1>2. frame["call"] \in Frame /\ frame["call"].retry > 0 /\ frame["call"].op = "put"
    BY <1>1 DEF IInv, TypeOK, CallOK, Context
  <1>3. f \in Frame
    <2>1. frame["call"].retry - 1 \in 0 .. VDISK_RETRY_ON_FAIL
      BY <1>2 DEF Frame, VDISK_RETRY_ON_FAIL
    <2> QED
      BY <1>2, <2>1 DEF Frame, IInv, TypeOK
  <1>4. Keeps(frame["call"], f) /\ f.ret = frame["call"].ret
    BY <1>2 DEF Keeps, Frame
  <1>5. frame'["call"] = [f EXCEPT !.pc = "post"]
    BY <1>1, <1>3, GotoFrame DEF IInv, TypeOK, Context, Label
  <1>6. CallOK'
    BY <1>1, <1>2, <1>5 DEF IInv, CallOK, Frame
  <1> QED
    BY <1>1, <1>3, <1>4, <1>6, CallStepOK DEF IInv, TypeOK, Label

LEMMA ParsedOK == ASSUME IInv, parsed PROVE IInv'
  <1> DEFINE f == frame["call"]
  <1>1. f \in Frame /\ f.pc = "parsed" /\ f.op \in {"get", "put"}
    BY DEF IInv, TypeOK, Context, CallOK, parsed, At
  <1>2. UNCHANGED <<file, token, vdisk_errno, mapping, alarm, faults, expiries>>
    BY DEF parsed, counters
  <1>3. CASE \E l \in {"download", "record", "done", "try"} :
               /\ Goto("call", l, f)
               /\ l \in {"download", "record"} => f.ret = "ok"
               /\ l = "download" => f.op = "get"
               /\ l \in {"record", "try"} => f.op = "put"
               /\ l \in {"done", "try"} => f.ret # "ok"
               /\ l = "try" => f.retry > 0
    <2>1. PICK l \in {"download", "record", "done", "try"} :
               /\ Goto("call", l, f)
               /\ l \in {"download", "record"} => f.ret = "ok"
               /\ l = "download" => f.op = "get"
               /\ l \in {"record", "try"} => f.op = "put"
               /\ l \in {"done", "try"} => f.ret # "ok"
               /\ l = "try" => f.retry > 0
      BY <1>3
    <2>2. l \in Label
      BY DEF Label
    <2>3. frame'["call"] = [f EXCEPT !.pc = l]
      BY <1>1, <2>1, <2>2, GotoFrame DEF IInv, TypeOK, Context
    <2>4. CallOK'
      BY <1>1, <2>1, <2>3 DEF IInv, CallOK, Frame
    <2>5. Keeps(frame["call"], f)
      BY DEF Keeps
    <2> QED
      BY <1>1, <1>2, <2>1, <2>2, <2>4, <2>5, CallStepOK DEF IInv, TypeOK
  <1>4. CASE /\ f.ret # "ok" /\ f.retry > 0 /\ f.op = "get"
             /\ Goto("call", "parse", [f EXCEPT !.retry = @ - 1])
    <2> DEFINE g == [f EXCEPT !.retry = @ - 1]
    <2>1. f.retry - 1 \in 0 .. VDISK_RETRY_ON_FAIL
      BY <1>1, <1>4 DEF Frame, VDISK_RETRY_ON_FAIL
    <2>2. g \in Frame
      BY <1>1, <2>1 DEF Frame
    <2>3. frame'["call"] = [g EXCEPT !.pc = "parse"]
      BY <1>4, <2>2, GotoFrame DEF IInv, TypeOK, Context, Label
    <2>4. CallOK'
      BY <1>1, <1>4, <2>3 DEF IInv, CallOK, Frame
    <2>5. Keeps(frame["call"], g) /\ g.ret = f.ret
      BY <1>1 DEF Keeps, Frame
    <2> QED
      BY <1>2, <1>4, <2>2, <2>4, <2>5, CallStepOK DEF IInv, TypeOK, Label
  <1> QED
    BY <1>1, <1>3, <1>4 DEF parsed

LEMMA DownloadOK == ASSUME IInv, download PROVE IInv'
  <1> DEFINE f == frame["call"]
             g == [f EXCEPT !.data = {file[f.blk]}]
             h == [f EXCEPT !.ret = "curl"]
  <1>1. /\ f \in Frame /\ f.op = "get" /\ f.ret = "ok" /\ f.rsp = "ok" /\ f.blk \in Block
        /\ f.blk \in DOMAIN file
    BY DEF IInv, TypeOK, Context, CallOK, ServedOK, download, At
  <1>2. /\ UNCHANGED <<file, token, vdisk_errno, mapping, alarm, expiries>>
        /\ faults' \in 0 .. MaxFault
    BY DriverAssumption DEF download, IInv, TypeOK
  <1>3. g \in Frame /\ h \in Frame
    <2>1. {file[f.blk]} \in SUBSET Data /\ "curl" \in Code
      BY <1>1 DEF IInv, TypeOK, Code
    <2>2. \A d \in SUBSET Data, r \in Code :
             [f EXCEPT !.data = d] \in Frame /\ [f EXCEPT !.ret = r] \in Frame
      BY <1>1 DEF Frame
    <2> QED
      BY <2>1, <2>2
  <1>4. /\ Keeps(frame["call"], g) /\ g.ret = f.ret
        /\ Keeps(frame["call"], h) /\ h.ret = "curl"
    BY <1>1 DEF Frame, Keeps
  <1>5. Goto("call", "done", g) \/ Goto("call", "done", h)
    BY DEF download
  <1>6. frame'["call"] = [g EXCEPT !.pc = "done"] \/ frame'["call"] = [h EXCEPT !.pc = "done"]
    BY <1>3, <1>5, GotoFrame DEF IInv, TypeOK, Context, Label
  <1>7. CallOK'
    BY <1>1, <1>6 DEF CallOK, Frame
  <1> QED
    BY <1>2, <1>3, <1>4, <1>5, <1>7, CallStepOK DEF Label

LEMMA RecordOK == ASSUME IInv, record PROVE IInv'
  <1> DEFINE f == frame["call"]
  <1>1. CASE ~mapping.open /\ Die
    BY <1>1, DieOK
  <1>2. CASE /\ mapping' = [Flushed EXCEPT !.view = @ \cup {f.blk}]
             /\ Goto("call", "done", f)
             /\ UNCHANGED <<file, token, vdisk_errno, alarm, faults, expiries>>
    <2>1. /\ f \in Frame /\ f.op = "put" /\ f.ret = "ok" /\ f.rsp = "ok" /\ f.blk \in Block
          /\ f.blk \in DOMAIN file
      BY DEF IInv, TypeOK, Context, CallOK, ServedOK, record, At
    <2>2. /\ frame' \in [Context -> Frame] /\ frame'["call"] = [f EXCEPT !.pc = "done"]
          /\ frame'["alarm"] = frame["alarm"]
      BY <1>2, <2>1, GotoFrame DEF IInv, TypeOK, Context, Label
    <2>3. /\ mapping' \in [open : BOOLEAN, view : SUBSET Block, disk : SUBSET Block]
          /\ mapping'.view = mapping.view \cup {f.blk} /\ mapping'.disk = mapping.view
      BY <1>2, <2>1 DEF Flushed, IInv, TypeOK
    <2>4. TypeOK'
      BY <1>2, <2>2, <2>3 DEF IInv, TypeOK
    <2>5. CallOK'
      BY <2>1, <2>2 DEF CallOK, Frame
    <2>6. ServedOK'
      BY <1>2, <2>1, <2>2, <2>3 DEF IInv, ServedOK, Frame, Content
    <2>7. AlarmOK'
      BY <1>2, <2>1, <2>2 DEF IInv, AlarmOK, Frame
    <2>8. RecordedStored'
      BY <1>2, <2>1, <2>3 DEF IInv, RecordedStored
    <2> QED
      BY <2>4, <2>5, <2>6, <2>7, <2>8 DEF IInv
  <1> QED
    BY <1>1, <1>2 DEF record, counters

LEMMA DoneOK == ASSUME IInv, done PROVE IInv'
  <1>1. /\ Goto("call", "idle", Idle)
        /\ UNCHANGED <<file, token, vdisk_errno, mapping, alarm, faults, expiries>>
    BY DEF done, counters
  <1>2. /\ frame' \in [Context -> Frame] /\ frame'["call"] = [Idle EXCEPT !.pc = "idle"]
        /\ frame'["alarm"] = frame["alarm"]
    BY <1>1, IdleType, GotoFrame DEF IInv, TypeOK, Context, Label
  <1>3. TypeOK'
    BY <1>1, <1>2 DEF IInv, TypeOK
  <1> QED
    BY <1>1, <1>2, <1>3
    DEF IInv, CallOK, ServedOK, AlarmOK, RecordedStored, Idle

\* The handler is called, and ends.
LEMMA KeepAliveOK == ASSUME IInv, keep_alive PROVE IInv'
  <1> DEFINE f == [Idle EXCEPT !.op = "keep", !.token = token]
  <1>1. /\ Goto("alarm", "post", f) /\ alarm' = "off"
        /\ UNCHANGED <<file, token, vdisk_errno, mapping, faults, expiries>>
    BY DEF keep_alive, counters
  <1>2. f \in Frame
    BY IdleType DEF Frame, IInv, TypeOK
  <1>3. /\ frame' \in [Context -> Frame] /\ frame'["alarm"] = [f EXCEPT !.pc = "post"]
        /\ frame'["call"] = frame["call"]
    BY <1>1, <1>2, GotoFrame DEF IInv, TypeOK, Context, Label
  <1>4. TypeOK'
    BY <1>1, <1>3 DEF IInv, TypeOK
  <1>5. CallOK' /\ ServedOK' /\ RecordedStored'
    BY <1>1, <1>3 DEF IInv, CallOK, ServedOK, RecordedStored
  <1>6. AlarmOK'
    BY <1>3 DEF AlarmOK, Idle
  <1> QED
    BY <1>4, <1>5, <1>6 DEF IInv

LEMMA KeptOK == ASSUME IInv, kept PROVE IInv'
  <1>1. /\ Goto("alarm", "idle", Idle) /\ alarm' \in {"on", "off"}
        /\ UNCHANGED <<file, token, vdisk_errno, mapping, faults, expiries>>
    BY DEF kept, counters
  <1>2. /\ frame' \in [Context -> Frame] /\ frame'["alarm"] = [Idle EXCEPT !.pc = "idle"]
        /\ frame'["call"] = frame["call"]
    BY <1>1, IdleType, GotoFrame DEF IInv, TypeOK, Context, Label
  <1>3. TypeOK'
    BY <1>1, <1>2 DEF IInv, TypeOK
  <1>4. CallOK' /\ ServedOK' /\ RecordedStored'
    BY <1>1, <1>2 DEF IInv, CallOK, ServedOK, RecordedStored
  <1>5. AlarmOK'
    BY <1>2 DEF AlarmOK, Idle
  <1> QED
    BY <1>3, <1>4, <1>5 DEF IInv

\* A post: the server may have taken the upload, and the answer may be any.
LEMMA PostOK == ASSUME IInv, NEW c \in Context, post(c) PROVE IInv'
  <1> DEFINE f == frame[c]
  <1>1. /\ f \in Frame /\ f.pc = "post"
        /\ UNCHANGED <<token, vdisk_errno, mapping, alarm, expiries>>
    BY DEF post, At, IInv, TypeOK
  <1>2. faults' \in 0 .. MaxFault /\ file' \in {file, Uploaded(f)}
    BY DriverAssumption DEF post, IInv, TypeOK
  <1>3. PICK r \in {"empty", "ok", "error", "refused"} :
           /\ Goto(c, "parse", [f EXCEPT !.rsp = r])
           /\ r = "ok" => f.rsp = "ok" \/ (file' = Uploaded(f) /\ Answer(f) = "ok")
    <2>1. CASE Goto(c, "parse", [f EXCEPT !.rsp = Answer(f)]) /\ file' = Uploaded(f)
      <3>1. Answer(f) \in {"ok", "error", "refused"}
        BY DEF Answer
      <3> QED
        BY <2>1, <3>1
    <2>2. CASE Goto(c, "parse", f)
      <3>1. f = [f EXCEPT !.rsp = f.rsp] /\ f.rsp \in {"empty", "ok", "error", "refused"}
        BY <1>1 DEF Frame
      <3> QED
        BY <2>2, <3>1
    <2>3. CASE Goto(c, "parse", [f EXCEPT !.rsp = "error"])
      BY <2>3
    <2> QED
      BY <2>1, <2>2, <2>3 DEF post
  <1> DEFINE g == [[f EXCEPT !.rsp = r] EXCEPT !.pc = "parse"]
  <1>4. [f EXCEPT !.rsp = r] \in Frame
    BY <1>1 DEF Frame
  <1>5. /\ frame' \in [Context -> Frame] /\ frame'[c] = g
        /\ \A d \in Context \ {c} : frame'[d] = frame[d]
    BY <1>3, <1>4, GotoFrame DEF IInv, TypeOK, Label
  <1>6. /\ g.pc = "parse" /\ g.rsp = r /\ g.op = f.op /\ g.blk = f.blk /\ g.fid = f.fid
        /\ g.data = f.data /\ g.retry = f.retry /\ g.ret = f.ret
    BY <1>1 DEF Frame
  <1> HIDE DEF g
  <1>7. /\ DOMAIN file \subseteq DOMAIN file'
        /\ \A b \in DOMAIN file : b # f.blk => file'[b] = file[b]
        /\ f.op # "put" => file' = file
        /\ file' = file \/ (f.blk \in DOMAIN file' /\ file'[f.blk] = Content(f))
    BY <1>2, UploadedType
  <1>8. TypeOK'
    BY <1>1, <1>2, <1>5, UploadedType DEF IInv, TypeOK
  <1>9. RecordedStored'
    BY <1>1, <1>7 DEF IInv, RecordedStored
  <1>10. CASE c = "alarm"
    <2>1. frame'["call"] = frame["call"] /\ file' = file
      BY <1>5, <1>7, <1>10 DEF Context, IInv, AlarmOK
    <2>2. CallOK' /\ ServedOK'
      BY <1>1, <2>1 DEF IInv, CallOK, ServedOK, Content
    <2>3. AlarmOK'
      BY <1>5, <1>6, <1>10 DEF IInv, AlarmOK
    <2> QED
      BY <1>8, <1>9, <2>2, <2>3 DEF IInv
  <1>11. CASE c = "call"
    <2>1. f.op \in {"get", "put"} /\ f.blk \in Block /\ f.ret # "ok"
      BY <1>1, <1>11 DEF IInv, CallOK
    <2>2. CallOK'
      BY <1>5, <1>6, <1>11, <2>1 DEF CallOK
    <2>3. r = "ok" => f.blk \in DOMAIN file' /\ (f.op = "put" => file'[f.blk] = Content(f))
      <3>1. CASE f.rsp = "ok"
        BY <1>7, <1>11, <3>1 DEF IInv, ServedOK
      <3>2. CASE file' = Uploaded(f) /\ Answer(f) = "ok"
        <4>1. Served(f) /\ ~(f.op = "get" /\ f.fid \cap DOMAIN file = {})
          BY <3>2 DEF Answer
        <4>2. CASE f.op = "get"
          BY <1>7, <1>11, <4>1, <4>2 DEF IInv, ServedOK
        <4>3. CASE f.op = "put"
          BY <3>2, <4>1, <4>3, UploadedType
        <4> QED
          BY <2>1, <4>2, <4>3
      <3> QED
        BY <1>3, <3>1, <3>2
    <2>4. r = "ok" /\ f.op = "get" => f.blk \in mapping.view
      <3>1. CASE f.rsp = "ok"
        BY <1>11, <3>1 DEF IInv, ServedOK
      <3>2. CASE Answer(f) = "ok" /\ f.op = "get"
        BY <1>11, <3>2 DEF Answer, IInv, ServedOK
      <3> QED
        BY <1>3, <3>1, <3>2
    <2>5. Content(g) = Content(f)
      BY <1>6 DEF Content
    <2>6. ServedOK'
      <3>1. Content(frame'["call"]) = Content(f)
        BY <1>5, <1>11, <2>5
      <3> QED
        BY <1>1, <1>5, <1>6, <1>11, <2>3, <2>4, <3>1 DEF IInv, ServedOK
    <2>7. AlarmOK'
      BY <1>1, <1>5, <1>6, <1>11 DEF IInv, AlarmOK, Context
    <2> QED
      BY <1>8, <1>9, <2>2, <2>6, <2>7 DEF IInv
  <1> QED
    BY <1>10, <1>11 DEF Context

\* A parse: the process ends, or the call knows its code.
LEMMA ParseOK == ASSUME IInv, NEW c \in Context, parse(c) PROVE IInv'
  <1> DEFINE f == frame[c]
  <1>1. f \in Frame /\ f.pc = "parse"
    BY DEF IInv, TypeOK, parse, At
  <1>2. CASE Die
    BY <1>2, DieOK
  <1>3. CASE ~Die
    <2>1. UNCHANGED <<file, token, alarm, faults, expiries, mapping>>
      BY <1>3 DEF parse, Parsed, counters
    <2>2. PICK l \in {"parsed", "authenticate"}, r \in Code :
             /\ Goto(c, l, [f EXCEPT !.ret = r])
             /\ vdisk_errno' \in {vdisk_errno, "nondata"}
             /\ c = "call" /\ r = "ok" => f.rsp = "ok" /\ l = "parsed" /\ vdisk_errno = "ok"
      <3>1. CASE f.rsp = "empty" /\ Parsed(c, "nondata")
        BY <3>1 DEF Parsed, Code
      <3>2. CASE f.rsp = "ok" /\ Parsed(c, vdisk_errno)
        BY <3>2 DEF Parsed, Code, IInv, TypeOK
      <3>3. CASE Goto(c, "parsed", [f EXCEPT !.ret = "error"]) /\ UNCHANGED vdisk_errno
        BY <3>3 DEF Code
      <3>4. CASE Goto(c, "authenticate", [f EXCEPT !.ret = "refused"]) /\ UNCHANGED vdisk_errno
        BY <3>4 DEF Code
      <3> QED
        BY <1>3, <3>1, <3>2, <3>3, <3>4 DEF parse
    <2> DEFINE g == [f EXCEPT !.ret = r]
    <2>3. g \in Frame /\ l \in Label
      BY <1>1 DEF Frame, Label
    <2>4. Keeps(frame[c], g) /\ g.ret = r
      BY <1>1 DEF Keeps, Frame
    <2>5. c = "call" => CallOK'
      <3> SUFFICES ASSUME c = "call" PROVE CallOK'
        OBVIOUS
      <3>1. f.op \in {"get", "put"} /\ f.blk \in Block
        BY <1>1 DEF IInv, CallOK
      <3>2. Goto(c, l, g) /\ (r = "ok" => f.rsp = "ok" /\ l = "parsed")
        BY <2>2
      <3>3. /\ g.op = f.op /\ g.blk = f.blk /\ g.rsp = f.rsp /\ g.ret = r
        BY <2>4 DEF Keeps, Frame
      <3> HIDE DEF g
      <3>4. frame'[c] = [g EXCEPT !.pc = l]
        BY <2>3, <3>2, GotoFrame DEF IInv, TypeOK
      <3> DEFINE h == frame'[c]
      <3>5. h.pc = l /\ h.op = f.op /\ h.blk = f.blk /\ h.rsp = f.rsp /\ h.ret = r
        BY <2>3, <3>3, <3>4 DEF Frame
      <3> QED
        BY <2>2, <3>1, <3>2, <3>5 DEF CallOK
    <2>6. c = "call" /\ g.ret = "ok" => vdisk_errno = "ok"
      BY <2>2, <2>4
    <2>7. CASE c = "call"
      BY <2>1, <2>2, <2>3, <2>4, <2>5, <2>6, <2>7, StepOK DEF IInv, TypeOK, RecordedStored
    <2>8. CASE c = "alarm"
      <3>1. /\ frame' \in [Context -> Frame] /\ frame'["alarm"] = [g EXCEPT !.pc = l]
            /\ frame'["call"] = frame["call"]
        BY <2>2, <2>3, <2>8, GotoFrame DEF IInv, TypeOK, Context
      <3>2. frame'["alarm"].op = f.op
        BY <1>1, <3>1 DEF Frame
      <3>3. TypeOK'
        BY <2>1, <2>2, <3>1 DEF IInv, TypeOK
      <3>4. CallOK' /\ ServedOK' /\ RecordedStored'
        BY <2>1, <2>2, <3>1 DEF IInv, CallOK, ServedOK, RecordedStored
      <3>5. AlarmOK'
        BY <2>8, <3>2 DEF IInv, AlarmOK
      <3> QED
        BY <3>3, <3>4, <3>5 DEF IInv
    <2> QED
      BY <2>7, <2>8 DEF Context
  <1> QED
    BY <1>2, <1>3

\* The labels of authenticate: the frame moves on, and nothing else of it.
LEMMA MoveOK ==
  ASSUME IInv, NEW c \in Context, NEW l \in {"get_token", "unquote", "timer", "parsed"},
         Goto(c, l, frame[c]), frame[c].pc \in {"authenticate", "get_token", "unquote", "timer"},
         UNCHANGED file, vdisk_errno' \in {vdisk_errno, "nondata"},
         mapping' = mapping \/ mapping' = [mapping EXCEPT !.open = TRUE],
         token' \in TokenValue, alarm' \in {"on", "off"},
         faults' \in 0 .. MaxFault, UNCHANGED expiries
  PROVE  IInv'
  <1>1. l \in Label /\ frame[c] \in Frame
    BY DEF Label, IInv, TypeOK
  <1>2. frame'[c] = [frame[c] EXCEPT !.pc = l]
    BY <1>1, GotoFrame DEF IInv, TypeOK
  <1>3. c = "call" => CallOK'
    BY <1>1, <1>2 DEF IInv, CallOK, Frame
  <1>4. /\ mapping' \in [open : BOOLEAN, view : SUBSET Block, disk : SUBSET Block]
        /\ mapping'.view = mapping.view /\ mapping'.disk = mapping.disk
    BY DEF IInv, TypeOK
  <1>5. Keeps(frame[c], frame[c])
    BY DEF Keeps
  <1>6. mapping.disk \subseteq mapping.view /\ expiries' \in 0 .. MaxExpiry
    BY DEF IInv, TypeOK, RecordedStored
  <1>7. frame[c].ret = "ok" => frame[c].ret = "ok"
    OBVIOUS
  <1> QED
    BY <1>1, <1>3, <1>4, <1>5, <1>6, <1>7, StepOK

LEMMA AuthenticateOK == ASSUME IInv, NEW c \in Context, authenticate(c) PROVE IInv'
  BY MoveOK DEF authenticate, At, counters, IInv, TypeOK

LEMMA GetTokenOK == ASSUME IInv, NEW c \in Context, get_token(c) PROVE IInv'
  <1>1. CASE Die
    BY <1>1, DieOK
  <1>2. CASE token' = "quoted" /\ Goto(c, "unquote", frame[c])
             /\ UNCHANGED <<file, vdisk_errno, mapping, alarm, faults, expiries>>
    BY <1>2, MoveOK DEF get_token, At, IInv, TypeOK, TokenValue
  <1>3. CASE /\ faults < MaxFault /\ faults' = faults + 1
             /\ vdisk_errno' \in {vdisk_errno, "nondata"}
             /\ Goto(c, "timer", frame[c])
             /\ UNCHANGED <<file, token, mapping, alarm, expiries>>
    <2>1. faults' \in 0 .. MaxFault
      BY <1>3, DriverAssumption DEF IInv, TypeOK
    <2> QED
      BY <1>3, <2>1, MoveOK DEF get_token, At, IInv, TypeOK
  <1> QED
    BY <1>1, <1>2, <1>3 DEF get_token, counters

LEMMA UnquoteOK == ASSUME IInv, NEW c \in Context, unquote(c) PROVE IInv'
  BY MoveOK DEF unquote, At, counters, IInv, TypeOK, TokenValue

LEMMA TimerOK == ASSUME IInv, NEW c \in Context, timer(c) PROVE IInv'
  BY MoveOK DEF timer, At, counters, IInv, TypeOK

\* A token that expires: nothing else of the frames changes.
LEMMA ExpireOK == ASSUME IInv, Expire PROVE IInv'
  <1>1. /\ frame' = [c \in Context |-> [frame[c] EXCEPT !.token = Old(@)]]
        /\ token' = Old(token) /\ expiries' = expiries + 1 /\ expiries < MaxExpiry
        /\ UNCHANGED <<file, vdisk_errno, mapping, alarm, faults>>
    BY DEF Expire
  <1>2. \A t \in TokenValue : Old(t) \in TokenValue
    BY DEF Old, TokenValue
  <1>3. \A c \in Context :
           LET f == frame[c]
               g == frame'[c]
           IN  /\ g \in Frame /\ g.pc = f.pc /\ g.op = f.op /\ g.blk = f.blk /\ g.fid = f.fid
               /\ g.data = f.data /\ g.rsp = f.rsp /\ g.retry = f.retry
               /\ g.ret = f.ret
    <2>1. SUFFICES ASSUME NEW c \in Context
                   PROVE  LET f == frame[c]
                              g == frame'[c]
                          IN  /\ g \in Frame /\ g.pc = f.pc /\ g.op = f.op /\ g.blk = f.blk
                              /\ g.fid = f.fid /\ g.data = f.data /\ g.rsp = f.rsp
                              /\ g.retry = f.retry /\ g.ret = f.ret
      OBVIOUS
    <2>2. frame[c] \in Frame /\ frame'[c] = [frame[c] EXCEPT !.token = Old(@)]
      BY <1>1 DEF IInv, TypeOK
    <2> QED
      BY <1>2, <2>2 DEF Frame
  <1>4. frame' \in [Context -> Frame]
    BY <1>1, <1>3
  <1>5. expiries' \in 0 .. MaxExpiry
    BY <1>1, DriverAssumption DEF IInv, TypeOK
  <1>6. TypeOK'
    BY <1>1, <1>2, <1>4, <1>5 DEF IInv, TypeOK
  <1>7. CallOK'
    BY <1>3 DEF IInv, CallOK, Context
  <1>8. ServedOK'
    BY <1>1, <1>3 DEF IInv, ServedOK, Context, Content
  <1>9. AlarmOK' /\ RecordedStored'
    BY <1>1, <1>3 DEF IInv, AlarmOK, RecordedStored, Context
  <1> QED
    BY <1>6, <1>7, <1>8, <1>9 DEF IInv

LEMMA ExitOK == ASSUME IInv, Exit PROVE IInv'
  BY GoneOK DEF Exit

LEMMA NextOK == ASSUME IInv, [Next]_vars PROVE IInv'
  <1>1. ASSUME NEW c \in Context, Transfer(c) PROVE IInv'
    BY <1>1, PostOK, ParseOK, AuthenticateOK, GetTokenOK, UnquoteOK, TimerOK DEF Transfer
  <1>2. CASE CallStep
    BY <1>1, <1>2, TryOK, ParsedOK, DownloadOK, RecordOK, DoneOK DEF CallStep, Context
  <1>3. CASE AlarmStep
    BY <1>1, <1>3, KeptOK DEF AlarmStep, Context
  <1>4. CASE \E b \in Block : get_block(b) \/ \E data \in Data : put_block(b, data)
    BY <1>4, GetBlockOK, PutBlockOK
  <1>5. CASE keep_alive \/ Expire \/ Exit \/ Die
    BY <1>5, KeepAliveOK, ExpireOK, ExitOK, DieOK
  <1>6. CASE UNCHANGED vars
    BY <1>6 DEF vars, IInv, TypeOK, CallOK, ServedOK, AlarmOK, RecordedStored, Content
  <1> QED
    BY <1>2, <1>3, <1>4, <1>5, <1>6 DEF Next

LEMMA Inductive == Spec => []IInv
  BY InitOK, NextOK, PTL DEF Spec

(***************************************************************************)
(* The theorems                                                            *)
(***************************************************************************)
\* Every variable of the driver keeps its type, and no try is counted below
\* zero (the loops of get_block and put_block), for any number of faults.
THEOREM DriverTypeCorrect == Spec => []TypeOK
  <1>1. IInv => TypeOK
    BY DEF IInv
  <1> QED
    BY <1>1, Inductive, PTL

\* An identifier in the mapping file, buffered or on disk, is that of a file
\* of the server (put_block records after a good answer only).
THEOREM RecordedCorrect == Spec => []RecordedStored
  <1>1. IInv => RecordedStored
    BY DEF IInv
  <1> QED
    BY <1>1, Inductive, PTL

(***************************************************************************)
(* The tries of a put                                                      *)
(***************************************************************************)
\* While nothing has failed and the token has expired once at most, a put has
\* a try left for a token that is not good, one for an expiry that may come,
\* and one more.  A token in its quotes will be good: the call unquotes it.
Cost(tok) == IF tok = "good" THEN 0 ELSE 1

Tries(f, tok, exp) ==
    /\ f.pc \in {"parse", "authenticate", "get_token", "unquote", "timer", "parsed"} =>
          f.rsp # "empty"
    /\ f.op = "put" =>
        /\ f.pc \in {"try", "timer"} => f.retry + exp >= 2 + Cost(tok)
        /\ f.pc = "parsed" /\ f.ret # "ok" => f.retry + exp >= 2 + Cost(tok)
        /\ f.pc = "post" => f.retry + exp >= 1 + Cost(f.token)
        /\ f.pc = "parse" => f.rsp \in {"ok", "refused"}
        /\ f.pc = "parse" /\ f.rsp = "refused" => f.retry + exp >= 2
        /\ f.pc \in {"authenticate", "get_token"} => f.retry + exp >= 2
        /\ f.pc = "unquote" => f.retry + exp >= 2 + (IF tok = "quoted" THEN 0 ELSE Cost(tok))
        /\ f.pc = "done" => f.ret = "ok"

\* keep_alive takes no token away: it authenticates for one that was refused.
Handles(h, tok) ==
    /\ h.pc = "post" => h.token = tok
    /\ h.pc = "parse" => h.rsp \in {"ok", "refused"} /\ (h.rsp = "refused" => tok # "good")
    /\ h.pc \in {"authenticate", "get_token"} => tok # "good"

TriesInv ==
    faults = 0 /\ expiries <= 1 =>
        /\ vdisk_errno = "ok"
        /\ Tries(frame["call"], token, expiries)
        /\ Handles(frame["alarm"], token)

LEMMA CostType == \A tok : Cost(tok) \in {0, 1} /\ (Cost(tok) = 0 <=> tok = "good")
  BY DEF Cost

\* The end of a process ends its calls.
LEMMA GoneTries == ASSUME TriesInv, NEW blocks, Gone(blocks) PROVE TriesInv'
  BY DEF Gone, TriesInv, Tries, Handles, Idle, Context, counters

LEMMA InitTries == ASSUME Init PROVE TriesInv
  BY DEF Init, TriesInv, Tries, Handles, Idle, Context

\* A step of a context, and what the other sees of it.
LEMMA StepTries ==
  ASSUME IInv, NEW c \in Context, NEW l \in Label, NEW f \in Frame, Goto(c, l, f),
         faults = 0 /\ expiries <= 1 =>
            LET g == [f EXCEPT !.pc = l]
            IN  /\ vdisk_errno' = "ok"
                /\ IF c = "call" THEN /\ Tries(g, token', expiries)
                                      /\ Handles(frame["alarm"], token')
                                 ELSE /\ Tries(frame["call"], token', expiries)
                                      /\ Handles(g, token'),
         faults' \in {faults, faults + 1}, UNCHANGED expiries
  PROVE  TriesInv'
  <1>1. /\ frame'[c] = [f EXCEPT !.pc = l]
        /\ \A d \in Context \ {c} : frame'[d] = frame[d]
    BY GotoFrame DEF IInv, TypeOK
  <1>2. faults' = 0 => faults = 0
    BY DriverAssumption DEF IInv, TypeOK
  <1>3. CASE c = "call"
    BY <1>1, <1>2, <1>3 DEF TriesInv, Context
  <1>4. CASE c = "alarm"
    BY <1>1, <1>2, <1>4 DEF TriesInv, Context
  <1> QED
    BY <1>3, <1>4 DEF Context

\* A step of the call that leaves the token alone: no handler is under way.
LEMMA CallTries ==
  ASSUME IInv, TriesInv, NEW l \in Label, NEW f \in Frame, Goto("call", l, f),
         frame["alarm"].pc = "idle", UNCHANGED token,
         faults = 0 /\ expiries <= 1 =>
            vdisk_errno' = "ok" /\ Tries([f EXCEPT !.pc = l], token, expiries),
         faults' \in {faults, faults + 1}, UNCHANGED expiries
  PROVE  TriesInv'
  BY StepTries DEF Handles, Context

\* The numbers of the invariant are numbers.
LEMMA TriesNat ==
  ASSUME IInv
  PROVE  /\ expiries \in Nat /\ frame["call"].retry \in 0 .. 3 /\ frame["call"] \in Frame
         /\ \A g \in Frame : g.retry \in Nat
  BY DriverAssumption DEF IInv, TypeOK, Frame, Context, VDISK_RETRY_ON_FAIL

LEMMA GetTries == ASSUME IInv, TriesInv, NEW b \in Block, get_block(b) PROVE TriesInv'
  <1>1. CASE Die
    BY <1>1, GoneTries DEF Die
  <1>2. CASE ~Die
    <2> DEFINE f == [Idle EXCEPT !.op = "get", !.blk = b, !.fid = mapping.view \cap {b},
                                 !.retry = VDISK_RETRY_ON_FAIL - 1, !.token = token]
    <2>1. /\ Goto("call", "post", f) /\ frame["alarm"].pc = "idle"
          /\ UNCHANGED <<token, vdisk_errno, faults, expiries>>
      BY <1>2 DEF get_block, counters, At
    <2>2. f \in Frame
      <3>1. VDISK_RETRY_ON_FAIL - 1 \in 0 .. VDISK_RETRY_ON_FAIL
        BY DEF VDISK_RETRY_ON_FAIL
      <3>2. \A k \in SUBSET Block, tok \in TokenValue,
               r \in 0 .. VDISK_RETRY_ON_FAIL :
              [Idle EXCEPT !.op = "get", !.blk = b, !.fid = k, !.retry = r, !.token = tok] \in Frame
        BY IdleType DEF Frame
      <3> QED
        BY <3>1, <3>2 DEF IInv, TypeOK
    <2>3. [f EXCEPT !.pc = "post"].pc = "post" /\ [f EXCEPT !.pc = "post"].op = "get"
      BY DEF Idle
    <2>4. Tries([f EXCEPT !.pc = "post"], token, expiries)
      BY <2>3 DEF Tries
    <2> HIDE DEF f
    <2> QED
      BY <2>1, <2>2, <2>4, CallTries DEF Label, TriesInv
  <1> QED
    BY <1>1, <1>2

LEMMA PutTries ==
  ASSUME IInv, TriesInv, NEW b \in Block, NEW data \in Data, put_block(b, data) PROVE TriesInv'
  <1> DEFINE f == [Idle EXCEPT !.op = "put", !.blk = b, !.data = {data},
                               !.retry = VDISK_RETRY_ON_FAIL]
             g == [f EXCEPT !.pc = "try"]
  <1>1. /\ Goto("call", "try", f) /\ frame["alarm"].pc = "idle"
        /\ UNCHANGED <<token, vdisk_errno, faults, expiries>>
    BY DEF put_block, counters, At
  <1>2. f \in Frame
    <2>1. VDISK_RETRY_ON_FAIL \in 0 .. VDISK_RETRY_ON_FAIL
      BY DEF VDISK_RETRY_ON_FAIL
    <2>2. \A d \in SUBSET Data, r \in 0 .. VDISK_RETRY_ON_FAIL :
            [Idle EXCEPT !.op = "put", !.blk = b, !.data = d, !.retry = r] \in Frame
      BY IdleType DEF Frame
    <2> QED
      BY <2>1, <2>2 DEF IInv, TypeOK
  <1>3. g.pc = "try" /\ g.op = "put" /\ g.retry = 3
    BY DEF Idle, VDISK_RETRY_ON_FAIL
  <1> HIDE DEF g
  <1>4. Tries(g, token, expiries)
    BY <1>3, CostType, TriesNat DEF Tries
  <1>5. Tries([f EXCEPT !.pc = "try"], token, expiries)
    BY <1>4 DEF g
  <1> HIDE DEF f
  <1> QED
    BY <1>1, <1>2, <1>5, CallTries DEF Label, TriesInv

LEMMA TryTries == ASSUME IInv, TriesInv, try PROVE TriesInv'
  <1> DEFINE f == frame["call"]
             h == [f EXCEPT !.retry = @ - 1, !.token = token]
             g == [h EXCEPT !.pc = "post"]
  <1>1. /\ Goto("call", "post", h) /\ frame["alarm"].pc = "idle" /\ f.pc = "try"
        /\ UNCHANGED <<token, vdisk_errno, faults, expiries>>
    BY DEF try, counters, At
  <1>2. f \in Frame /\ f.retry \in 1 .. 3 /\ f.op = "put"
    BY <1>1, TriesNat DEF IInv, CallOK
  <1>3. h \in Frame
    <2>1. f.retry - 1 \in 0 .. VDISK_RETRY_ON_FAIL
      BY <1>2 DEF VDISK_RETRY_ON_FAIL
    <2>2. \A r \in 0 .. VDISK_RETRY_ON_FAIL, tok \in TokenValue :
            [f EXCEPT !.retry = r, !.token = tok] \in Frame
      BY <1>2 DEF Frame
    <2> QED
      BY <2>1, <2>2 DEF IInv, TypeOK
  <1>4. g.pc = "post" /\ g.op = "put" /\ g.retry = f.retry - 1 /\ g.token = token
    BY <1>2 DEF Frame
  <1> HIDE DEF g, h
  <1>5. ASSUME faults = 0, expiries <= 1 PROVE Tries(g, token, expiries)
    <2>1. f.retry + expiries >= 2 + Cost(token)
      BY <1>1, <1>2, <1>5 DEF TriesInv, Tries
    <2> QED
      BY <1>2, <1>4, <2>1, CostType, TriesNat DEF Tries
  <1> QED
    BY <1>1, <1>3, <1>5, CallTries DEF Label, TriesInv, g

LEMMA ParsedTries == ASSUME IInv, TriesInv, parsed PROVE TriesInv'
  <1> DEFINE f == frame["call"]
             h == [f EXCEPT !.retry = @ - 1]
  <1>1. /\ frame["alarm"].pc = "idle" /\ f.pc = "parsed"
        /\ UNCHANGED <<token, vdisk_errno, faults, expiries>>
    BY DEF parsed, counters, At
  <1>2. f \in Frame /\ f.retry \in 0 .. 3
    BY TriesNat
  <1>3. faults = 0 /\ expiries <= 1 => vdisk_errno' = "ok"
    BY <1>1 DEF TriesInv
  <1>4. ASSUME NEW l \in {"download", "record", "done", "try"}, Goto("call", l, f),
               l = "try" => f.ret # "ok", l = "done" => f.ret # "ok" /\ f.retry = 0
        PROVE  TriesInv'
    <2> DEFINE g == [f EXCEPT !.pc = l]
    <2>1. g.pc = l /\ g.op = f.op /\ g.retry = f.retry /\ g.ret = f.ret
      BY <1>2 DEF Frame
    <2> HIDE DEF g
    <2>2. ASSUME faults = 0, expiries <= 1 PROVE Tries(g, token, expiries)
      <3>1. f.op = "put" /\ f.ret # "ok" => f.retry + expiries >= 2 + Cost(token)
        BY <1>1, <2>2 DEF TriesInv, Tries
      <3>2. l = "done" => f.op # "put"
        BY <1>4, <2>2, <3>1, CostType, TriesNat
      <3> QED
        BY <1>4, <2>1, <3>1, <3>2 DEF Tries
    <2> QED
      BY <1>1, <1>2, <1>3, <1>4, <2>2, CallTries DEF Label, g
  <1>5. CASE f.retry > 0 /\ f.op = "get" /\ Goto("call", "parse", h)
    <2> DEFINE g == [h EXCEPT !.pc = "parse"]
    <2>1. h \in Frame
      <3>1. f.retry - 1 \in 0 .. VDISK_RETRY_ON_FAIL
        BY <1>2, <1>5 DEF VDISK_RETRY_ON_FAIL
      <3>2. \A r \in 0 .. VDISK_RETRY_ON_FAIL : [f EXCEPT !.retry = r] \in Frame
        BY <1>2 DEF Frame
      <3> QED
        BY <3>1, <3>2
    <2>2. g.pc = "parse" /\ g.op = "get" /\ g.rsp = f.rsp
      BY <1>2, <1>5 DEF Frame
    <2> HIDE DEF g, h
    <2>3. ASSUME faults = 0, expiries <= 1 PROVE Tries(g, token, expiries)
      <3>1. f.rsp # "empty"
        BY <1>1, <2>3 DEF TriesInv, Tries
      <3> QED
        BY <2>2, <3>1 DEF Tries
    <2> QED
      BY <1>1, <1>3, <1>5, <2>1, <2>3, CallTries DEF Label, g
  <1> QED
    BY <1>2, <1>4, <1>5 DEF parsed

LEMMA DownloadTries == ASSUME IInv, TriesInv, download PROVE TriesInv'
  <1> DEFINE f == frame["call"]
  <1>1. /\ frame["alarm"].pc = "idle" /\ f.pc = "download" /\ f.op = "get" /\ f \in Frame
        /\ UNCHANGED <<token, vdisk_errno, expiries>> /\ faults' \in {faults, faults + 1}
    BY TriesNat DEF download, At, IInv, CallOK
  <1>2. PICK d \in SUBSET Data, r \in Code :
                Goto("call", "done", [f EXCEPT !.data = d, !.ret = r])
    <2>1. ASSUME Goto("call", "done", [f EXCEPT !.data = {file[f.blk]}])
          PROVE  Goto("call", "done", [f EXCEPT !.data = {file[f.blk]}, !.ret = f.ret])
                 /\ file[f.blk] \in Data /\ f.ret \in Code
      <3>1. f.blk \in DOMAIN file /\ f.ret \in Code
        BY <1>1 DEF IInv, CallOK, ServedOK, Frame
      <3>2. [f EXCEPT !.data = {file[f.blk]}, !.ret = f.ret] = [f EXCEPT !.data = {file[f.blk]}]
        BY <1>1 DEF Frame
      <3> QED
        BY <2>1, <3>1, <3>2 DEF IInv, TypeOK
    <2>2. ASSUME Goto("call", "done", [f EXCEPT !.ret = "curl"])
          PROVE  Goto("call", "done", [f EXCEPT !.data = f.data, !.ret = "curl"])
                 /\ f.data \in SUBSET Data
      <3>1. [f EXCEPT !.data = f.data, !.ret = "curl"] = [f EXCEPT !.ret = "curl"]
        BY <1>1 DEF Frame
      <3> QED
        BY <1>1, <2>2, <3>1 DEF Frame
    <2> QED
      BY <2>1, <2>2 DEF download, Code
  <1> DEFINE h == [f EXCEPT !.data = d, !.ret = r]
             g == [h EXCEPT !.pc = "done"]
  <1>3. h \in Frame /\ g.pc = "done" /\ g.op = "get"
    BY <1>1 DEF Frame
  <1>4. Goto("call", "done", h)
    BY <1>2
  <1> HIDE DEF g, h
  <1>5. Tries(g, token, expiries)
    BY <1>3 DEF Tries
  <1> QED
    BY <1>1, <1>3, <1>4, <1>5, CallTries DEF Label, TriesInv, g

LEMMA RecordTries == ASSUME IInv, TriesInv, record PROVE TriesInv'
  <1> DEFINE f == frame["call"]
             g == [f EXCEPT !.pc = "done"]
  <1>1. CASE Die
    BY <1>1, GoneTries DEF Die
  <1>2. CASE ~Die
    <2>1. /\ frame["alarm"].pc = "idle" /\ f.ret = "ok" /\ f \in Frame
          /\ UNCHANGED <<token, vdisk_errno, faults, expiries>> /\ Goto("call", "done", f)
      BY <1>2, TriesNat DEF record, At, IInv, CallOK, counters
    <2>2. g.pc = "done" /\ g.ret = "ok"
      BY <2>1 DEF Frame
    <2> HIDE DEF g
    <2>3. Tries(g, token, expiries)
      BY <2>2 DEF Tries
    <2> QED
      BY <2>1, <2>3, CallTries DEF Label, TriesInv, g
  <1> QED
    BY <1>1, <1>2

LEMMA DoneTries == ASSUME IInv, TriesInv, done PROVE TriesInv'
  <1> DEFINE g == [Idle EXCEPT !.pc = "idle"]
  <1>1. /\ Goto("call", "idle", Idle) /\ frame["alarm"].pc = "idle"
        /\ UNCHANGED <<token, vdisk_errno, faults, expiries>>
    BY DEF done, counters, At
  <1>2. Tries(g, token, expiries)
    BY DEF Idle, Tries
  <1> QED
    BY <1>1, <1>2, IdleType, CallTries DEF Label, TriesInv

LEMMA KeepAliveTries == ASSUME IInv, TriesInv, keep_alive PROVE TriesInv'
  <1> DEFINE f == [Idle EXCEPT !.op = "keep", !.token = token]
             g == [f EXCEPT !.pc = "post"]
  <1>1. /\ Goto("alarm", "post", f)
        /\ UNCHANGED <<token, vdisk_errno, faults, expiries>>
    BY DEF keep_alive, counters
  <1>2. f \in Frame
    <2>1. \A tok \in TokenValue : [Idle EXCEPT !.op = "keep", !.token = tok] \in Frame
      BY IdleType DEF Frame
    <2> QED
      BY <2>1 DEF IInv, TypeOK
  <1>3. Handles(g, token)
    BY DEF Idle, Handles
  <1> HIDE DEF f
  <1> QED
    BY <1>1, <1>2, <1>3, StepTries DEF Label, Context, TriesInv

LEMMA KeptTries == ASSUME IInv, TriesInv, kept PROVE TriesInv'
  <1> DEFINE g == [Idle EXCEPT !.pc = "idle"]
  <1>1. /\ Goto("alarm", "idle", Idle)
        /\ UNCHANGED <<token, vdisk_errno, faults, expiries>>
    BY DEF kept, counters
  <1>2. Handles(g, token)
    BY DEF Idle, Handles
  <1> QED
    BY <1>1, <1>2, IdleType, StepTries DEF Label, Context, TriesInv

\* The codes of the answers: with a token that is good, all but "refused".
LEMMA PostTries == ASSUME IInv, TriesInv, NEW c \in Context, post(c) PROVE TriesInv'
  <1> DEFINE f == frame[c]
  <1>1. /\ f \in Frame /\ f.pc = "post" /\ UNCHANGED <<token, vdisk_errno, expiries>>
        /\ faults' \in {faults, faults + 1} /\ faults \in Nat
        /\ c = "call" => frame["alarm"].pc = "idle"
    BY DriverAssumption DEF post, At, IInv, TypeOK
  <1>2. PICK r \in {"empty", "ok", "error", "refused"} :
           /\ Goto(c, "parse", [f EXCEPT !.rsp = r])
           /\ faults' = faults => r = Answer(f)
    <2>1. CASE Goto(c, "parse", [f EXCEPT !.rsp = Answer(f)]) /\ faults' = faults
      <3>1. Answer(f) \in {"ok", "error", "refused"}
        BY DEF Answer
      <3> QED
        BY <2>1, <3>1
    <2>2. CASE Goto(c, "parse", f) /\ faults' = faults + 1
      <3>1. f = [f EXCEPT !.rsp = f.rsp] /\ f.rsp \in {"empty", "ok", "error", "refused"}
        BY <1>1 DEF Frame
      <3> QED
        BY <1>1, <2>2, <3>1
    <2>3. CASE Goto(c, "parse", [f EXCEPT !.rsp = "error"]) /\ faults' = faults + 1
      BY <1>1, <2>3
    <2> QED
      BY <2>1, <2>2, <2>3 DEF post
  <1> DEFINE h == [f EXCEPT !.rsp = r]
             g == [h EXCEPT !.pc = "parse"]
  <1>3. h \in Frame /\ g.pc = "parse" /\ g.op = f.op /\ g.rsp = r /\ g.retry = f.retry
    BY <1>1 DEF Frame
  <1>4. Goto(c, "parse", h)
    BY <1>2
  <1> HIDE DEF g, h
  <1>5. \/ faults' # 0
        \/ /\ r # "empty" /\ faults = 0 /\ (r = "refused" <=> f.token # "good")
           /\ f.op # "get" => r # "error"
    BY <1>1, <1>2 DEF Answer, Served
  <1>6. CASE faults' # 0
    <2>1. frame'[c] = g
      BY <1>3, <1>4, GotoFrame DEF IInv, TypeOK, Label, g
    <2> QED
      BY <1>6 DEF TriesInv
  <1>7. CASE faults' = 0 /\ c = "call"
    <2>1. ASSUME faults = 0, expiries <= 1 PROVE Tries(g, token, expiries)
      <3>1. f.op = "put" => f.retry + expiries >= 1 + Cost(f.token)
        BY <1>1, <1>7, <2>1 DEF TriesInv, Tries
      <3>2. f.op = "put" /\ r = "refused" => f.retry + expiries >= 2
        BY <1>5, <1>7, <3>1 DEF Cost
      <3> QED
        BY <1>3, <1>5, <1>7, <3>2 DEF Tries
    <2> QED
      BY <1>1, <1>3, <1>4, <1>7, <2>1, CallTries DEF Label, TriesInv, g
  <1>8. CASE faults' = 0 /\ c = "alarm"
    <2>1. ASSUME faults = 0, expiries <= 1 PROVE Handles(g, token)
      <3>1. f.token = token /\ f.op # "get"
        BY <1>1, <1>8, <2>1 DEF TriesInv, Handles, IInv, AlarmOK
      <3> QED
        BY <1>3, <1>5, <1>8, <3>1 DEF Handles
    <2> QED
      BY <1>1, <1>3, <1>4, <1>8, <2>1, StepTries DEF Label, Context, TriesInv, g
  <1> QED
    BY <1>6, <1>7, <1>8 DEF Context

LEMMA ParseTries == ASSUME IInv, TriesInv, NEW c \in Context, parse(c) PROVE TriesInv'
  <1> DEFINE f == frame[c]
  <1>1. /\ f \in Frame /\ f.pc = "parse"
        /\ c = "call" => frame["alarm"].pc = "idle"
    BY DEF IInv, TypeOK, parse, At
  <1>2. CASE Die
    BY <1>2, GoneTries DEF Die
  <1>3. CASE ~Die
    <2>1. UNCHANGED <<token, faults, expiries>>
      BY <1>3 DEF parse, Parsed, counters
    <2>2. PICK l \in {"parsed", "authenticate"}, r \in Code :
             /\ Goto(c, l, [f EXCEPT !.ret = r])
             /\ f.rsp # "empty" => vdisk_errno' = vdisk_errno
             /\ f.rsp = "ok" => l = "parsed" /\ (c = "call" => r = vdisk_errno)
             /\ f.rsp = "refused" => l = "authenticate"
             /\ l = "authenticate" => f.rsp = "refused"
      <3>1. CASE f.rsp = "empty" /\ Parsed(c, "nondata")
        BY <3>1 DEF Parsed, Code
      <3>2. CASE f.rsp = "ok" /\ Parsed(c, vdisk_errno)
        BY <3>2 DEF Parsed, Code, IInv, TypeOK
      <3>3. CASE f.rsp = "error" /\ Goto(c, "parsed", [f EXCEPT !.ret = "error"])
                 /\ UNCHANGED vdisk_errno
        BY <3>3 DEF Code
      <3>4. CASE f.rsp = "refused" /\ Goto(c, "authenticate", [f EXCEPT !.ret = "refused"])
                 /\ UNCHANGED vdisk_errno
        BY <3>4 DEF Code
      <3> QED
        BY <1>3, <3>1, <3>2, <3>3, <3>4 DEF parse
    <2> DEFINE h == [f EXCEPT !.ret = r]
               g == [h EXCEPT !.pc = l]
    <2>3. /\ h \in Frame /\ l \in Label /\ g.pc = l /\ g.op = f.op /\ g.ret = r
          /\ g.retry = f.retry /\ g.rsp = f.rsp
      BY <1>1 DEF Frame, Label
    <2>4. Goto(c, l, h)
      BY <2>2
    <2> HIDE DEF g, h
    <2>5. CASE c = "call"
      <3>1. ASSUME faults = 0, expiries <= 1
            PROVE  vdisk_errno' = "ok" /\ Tries(g, token, expiries)
        <4>1. /\ vdisk_errno = "ok" /\ f.rsp # "empty"
              /\ f.op = "put" => f.rsp \in {"ok", "refused"}
              /\ f.op = "put" /\ f.rsp = "refused" => f.retry + expiries >= 2
          BY <1>1, <2>5, <3>1 DEF TriesInv, Tries
        <4> QED
          BY <2>2, <2>3, <2>5, <4>1 DEF Tries
      <3> QED
        BY <1>1, <2>1, <2>3, <2>4, <2>5, <3>1, CallTries DEF g
    <2>6. CASE c = "alarm"
      <3>1. ASSUME faults = 0, expiries <= 1
            PROVE  vdisk_errno' = "ok" /\ Handles(g, token)
        <4>1. /\ vdisk_errno = "ok" /\ f.rsp # "empty" /\ (f.rsp = "refused" => token # "good")
          BY <1>1, <2>6, <3>1 DEF TriesInv, Handles
        <4> QED
          BY <2>2, <2>3, <4>1 DEF Handles
      <3> QED
        BY <2>1, <2>3, <2>4, <2>6, <3>1, StepTries DEF g, TriesInv, Context
    <2> QED
      BY <2>5, <2>6 DEF Context
  <1> QED
    BY <1>2, <1>3

\* The frame of a context at the next label of authenticate.
LEMMA MoveFrame ==
  ASSUME IInv, NEW c \in Context, NEW l \in Label
  PROVE  LET f == frame[c]
             g == [f EXCEPT !.pc = l]
         IN  /\ f \in Frame /\ g.pc = l /\ g.op = f.op /\ g.retry = f.retry /\ g.rsp = f.rsp
             /\ g.ret = f.ret /\ g.token = f.token
  BY DEF IInv, TypeOK, Frame

LEMMA AuthenticateTries == ASSUME IInv, TriesInv, NEW c \in Context, authenticate(c) PROVE TriesInv'
  <1> DEFINE f == frame[c]
             g == [f EXCEPT !.pc = "get_token"]
  <1>1. /\ f.pc = "authenticate" /\ Goto(c, "get_token", f)
        /\ UNCHANGED <<token, vdisk_errno, faults, expiries>>
        /\ c = "call" => frame["alarm"].pc = "idle"
    BY DEF authenticate, At, counters
  <1>2. "get_token" \in Label
    BY DEF Label
  <1>3. /\ f \in Frame /\ g.pc = "get_token" /\ g.op = f.op /\ g.retry = f.retry
        /\ g.rsp = f.rsp
    BY <1>2, MoveFrame
  <1> HIDE DEF g
  <1>4. CASE c = "call"
    <2>1. faults = 0 /\ expiries <= 1 => Tries(g, token, expiries)
      BY <1>1, <1>3, <1>4 DEF TriesInv, Tries
    <2> QED
      BY <1>1, <1>2, <1>3, <1>4, <2>1, CallTries DEF TriesInv, g
  <1>5. CASE c = "alarm"
    <2>1. faults = 0 /\ expiries <= 1 => Handles(g, token)
      BY <1>1, <1>3, <1>5 DEF TriesInv, Handles
    <2> QED
      BY <1>1, <1>2, <1>3, <1>5, <2>1, StepTries DEF TriesInv, Context, g
  <1> QED
    BY <1>4, <1>5 DEF Context

\* A token in its quotes takes the place of one that is not good.
LEMMA GetTokenTries == ASSUME IInv, TriesInv, NEW c \in Context, get_token(c) PROVE TriesInv'
  <1> DEFINE f == frame[c]
             g == [f EXCEPT !.pc = "unquote"]
  <1>1. CASE Die
    BY <1>1, GoneTries DEF Die
  <1>2. CASE faults' = faults + 1 /\ ~Die
    BY <1>2, DriverAssumption DEF TriesInv, IInv, TypeOK
  <1>3. CASE ~Die /\ faults' # faults + 1
    <2>1. /\ f.pc = "get_token" /\ Goto(c, "unquote", f) /\ token' = "quoted"
          /\ UNCHANGED <<vdisk_errno, faults, expiries>>
          /\ c = "call" => frame["alarm"].pc = "idle"
      BY <1>3 DEF get_token, At, counters
    <2>2. "unquote" \in Label
      BY DEF Label
    <2>3. /\ f \in Frame /\ g.pc = "unquote" /\ g.op = f.op /\ g.retry = f.retry
          /\ g.rsp = f.rsp
      BY <2>2, MoveFrame
    <2> HIDE DEF g
    <2>4. CASE c = "call"
      <3>1. ASSUME faults = 0, expiries <= 1
            PROVE  Tries(g, token', expiries) /\ Handles(frame["alarm"], token')
        <4>1. Tries(f, token, expiries)
          BY <2>4, <3>1 DEF TriesInv
        <4>2. f.rsp # "empty" /\ (f.op = "put" => f.retry + expiries >= 2 + 0)
          BY <2>1, <2>3, <4>1, TriesNat DEF Tries
        <4>3. Tries(g, "quoted", expiries)
          BY <2>3, <4>2 DEF Tries
        <4> QED
          BY <2>1, <2>4, <4>3 DEF Handles
      <3> QED
        BY <2>1, <2>2, <2>3, <2>4, <3>1, StepTries DEF TriesInv, Context, g
    <2>5. CASE c = "alarm"
      <3>1. ASSUME faults = 0, expiries <= 1
            PROVE  Tries(frame["call"], token', expiries) /\ Handles(g, token')
        <4>1. token # "good" /\ Tries(frame["call"], token, expiries)
          BY <2>1, <2>5, <3>1 DEF TriesInv, Handles
        <4>2. Cost(token) = 1 /\ Cost("quoted") = 1
          BY <4>1 DEF Cost
        <4>3. \A r, e : r + e >= 2 + (IF token = "quoted" THEN 0 ELSE Cost(token)) /\ r \in Nat /\ e \in Nat
                          => r + e >= 2 + (IF "quoted" = "quoted" THEN 0 ELSE Cost("quoted"))
          BY <4>2
        <4>4. Tries(frame["call"], "quoted", expiries)
          BY <4>1, <4>2, <4>3, TriesNat DEF Tries
        <4>5. Handles(g, "quoted")
          BY <2>3 DEF Handles
        <4> QED
          BY <2>1, <4>4, <4>5
      <3> QED
        BY <2>1, <2>2, <2>3, <2>5, <3>1, StepTries DEF TriesInv, Context, g
    <2> QED
      BY <2>4, <2>5 DEF Context
  <1> QED
    BY <1>1, <1>2, <1>3

LEMMA UnquoteTries == ASSUME IInv, TriesInv, NEW c \in Context, unquote(c) PROVE TriesInv'
  <1> DEFINE f == frame[c]
             g == [f EXCEPT !.pc = "timer"]
  <1>1. /\ f.pc = "unquote" /\ Goto(c, "timer", f)
        /\ token' = IF token = "quoted" THEN "good" ELSE token
        /\ UNCHANGED <<vdisk_errno, faults, expiries>>
        /\ c = "call" => frame["alarm"].pc = "idle"
    BY DEF unquote, At, counters
  <1>2. "timer" \in Label
    BY DEF Label
  <1>3. /\ f \in Frame /\ g.pc = "timer" /\ g.op = f.op /\ g.retry = f.retry
        /\ g.rsp = f.rsp
    BY <1>2, MoveFrame
  <1>4. Cost(token') = IF token = "quoted" THEN 0 ELSE Cost(token)
    BY <1>1 DEF Cost
  <1> HIDE DEF g
  <1>5. CASE c = "call"
    <2>1. ASSUME faults = 0, expiries <= 1
          PROVE  Tries(g, token', expiries) /\ Handles(frame["alarm"], token')
      <3>1. /\ f.rsp # "empty"
            /\ f.op = "put" => f.retry + expiries >= 2 + Cost(token')
        BY <1>1, <1>4, <1>5, <2>1 DEF TriesInv, Tries
      <3> QED
        BY <1>1, <1>3, <1>5, <3>1 DEF Tries, Handles
    <2> QED
      BY <1>1, <1>2, <1>3, <1>5, <2>1, StepTries DEF TriesInv, Context, g
  <1>6. CASE c = "alarm"
    <2>1. ASSUME faults = 0, expiries <= 1
          PROVE  Tries(frame["call"], token', expiries) /\ Handles(g, token')
      <3>1. Tries(frame["call"], token, expiries)
        BY <2>1 DEF TriesInv
      <3>2. Tries(frame["call"], "good", expiries)
        <4>1. Cost("good") = 0 /\ Cost(token) \in {0, 1}
          BY DEF Cost
        <4>2. (IF "good" = "quoted" THEN 0 ELSE Cost("good")) = 0
              /\ (IF token = "quoted" THEN 0 ELSE Cost(token)) \in {0, 1}
          BY <4>1
        <4> QED
          BY <3>1, <4>1, <4>2, TriesNat DEF Tries
      <3>3. Tries(frame["call"], token', expiries)
        BY <1>1, <3>1, <3>2
      <3> QED
        BY <1>3, <3>3 DEF Handles
    <2> QED
      BY <1>1, <1>2, <1>3, <1>6, <2>1, StepTries DEF TriesInv, Context, g
  <1> QED
    BY <1>5, <1>6 DEF Context

LEMMA TimerTries == ASSUME IInv, TriesInv, NEW c \in Context, timer(c) PROVE TriesInv'
  <1> DEFINE f == frame[c]
             g == [f EXCEPT !.pc = "parsed"]
  <1>1. /\ f.pc = "timer" /\ Goto(c, "parsed", f)
        /\ UNCHANGED <<token, vdisk_errno, faults, expiries>>
        /\ c = "call" => frame["alarm"].pc = "idle"
    BY DEF timer, At, counters
  <1>2. "parsed" \in Label
    BY DEF Label
  <1>3. /\ f \in Frame /\ g.pc = "parsed" /\ g.op = f.op /\ g.retry = f.retry
        /\ g.rsp = f.rsp
    BY <1>2, MoveFrame
  <1> HIDE DEF g
  <1>4. CASE c = "call"
    <2>1. ASSUME faults = 0, expiries <= 1 PROVE Tries(g, token, expiries)
      <3>1. /\ f.rsp # "empty"
            /\ f.op = "put" => f.retry + expiries >= 2 + Cost(token)
        BY <1>1, <1>4, <2>1 DEF TriesInv, Tries
      <3> QED
        BY <1>3, <3>1 DEF Tries
    <2> QED
      BY <1>1, <1>2, <1>3, <1>4, <2>1, CallTries DEF TriesInv, g
  <1>5. CASE c = "alarm"
    <2>1. Handles(g, token)
      BY <1>3 DEF Handles
    <2> QED
      BY <1>1, <1>2, <1>3, <1>5, <2>1, StepTries DEF TriesInv, Context, g
  <1> QED
    BY <1>4, <1>5 DEF Context

\* An expiry takes the one spare try.
LEMMA ExpireTries == ASSUME IInv, TriesInv, Expire PROVE TriesInv'
  <1>1. /\ \A c \in Context : frame'[c] = [frame[c] EXCEPT !.token = Old(@)]
        /\ token' = Old(token) /\ expiries' = expiries + 1 /\ UNCHANGED <<vdisk_errno, faults>>
    BY DEF Expire
  <1>2. \A c \in Context :
           LET f == frame[c]
               g == frame'[c]
           IN  /\ f \in Frame /\ g.pc = f.pc /\ g.op = f.op /\ g.rsp = f.rsp /\ g.retry = f.retry
               /\ g.ret = f.ret /\ g.token = Old(f.token)
    <2> SUFFICES ASSUME NEW c \in Context
                 PROVE  LET f == frame[c]
                            g == frame'[c]
                        IN  /\ f \in Frame /\ g.pc = f.pc /\ g.op = f.op /\ g.rsp = f.rsp
                            /\ g.retry = f.retry /\ g.ret = f.ret /\ g.token = Old(f.token)
      OBVIOUS
    <2>1. frame[c] \in Frame /\ frame'[c] = [frame[c] EXCEPT !.token = Old(@)]
      BY <1>1 DEF IInv, TypeOK
    <2> QED
      BY <2>1 DEF Frame
  <1> SUFFICES ASSUME faults = 0, expiries + 1 <= 1
               PROVE  /\ vdisk_errno = "ok"
                      /\ Tries(frame'["call"], token', expiries')
                      /\ Handles(frame'["alarm"], token')
    BY <1>1 DEF TriesInv
  <1> DEFINE f == frame["call"]
             g == frame'["call"]
  <1>3. /\ vdisk_errno = "ok" /\ Tries(f, token, expiries) /\ Handles(frame["alarm"], token)
    BY TriesNat DEF TriesInv
  <1>4. /\ f \in Frame /\ g.pc = f.pc /\ g.op = f.op /\ g.rsp = f.rsp /\ g.retry = f.retry
        /\ g.ret = f.ret /\ g.token = Old(f.token)
    BY <1>2 DEF Context
  <1>5. \A tok : Cost(tok) \in {0, 1} /\ (IF tok = "quoted" THEN 0 ELSE Cost(tok)) \in {0, 1}
    BY DEF Cost
  <1>6. Tries(g, token', expiries')
    <2>1. /\ expiries' = expiries + 1 /\ expiries \in Nat /\ f.retry \in Nat
      BY <1>1, <1>4, TriesNat
    <2> HIDE DEF f, g
    <2> QED
      BY <1>3, <1>4, <1>5, <2>1 DEF Tries
  <1>7. Handles(frame'["alarm"], token')
    <2>1. token' # "good"
      BY <1>1 DEF Old
    <2> QED
      BY <1>1, <1>2, <1>3, <2>1 DEF Handles, Context
  <1> QED
    BY <1>3, <1>6, <1>7

LEMMA NextTries == ASSUME IInv, TriesInv, [Next]_vars PROVE TriesInv'
  <1>1. ASSUME NEW c \in Context, Transfer(c) PROVE TriesInv'
    BY <1>1, PostTries, ParseTries, AuthenticateTries, GetTokenTries, UnquoteTries, TimerTries
       DEF Transfer
  <1>2. CASE CallStep
    BY <1>1, <1>2, TryTries, ParsedTries, DownloadTries, RecordTries, DoneTries
       DEF CallStep, Context
  <1>3. CASE AlarmStep
    BY <1>1, <1>3, KeptTries DEF AlarmStep, Context
  <1>4. CASE \E b \in Block : get_block(b) \/ \E data \in Data : put_block(b, data)
    BY <1>4, GetTries, PutTries
  <1>5. CASE keep_alive \/ Expire \/ Exit \/ Die
    BY <1>5, KeepAliveTries, ExpireTries, GoneTries DEF Exit, Die
  <1>6. CASE UNCHANGED vars
    BY <1>6 DEF vars, TriesInv
  <1> QED
    BY <1>2, <1>3, <1>4, <1>5, <1>6 DEF Next

\* The three tries of put_block are enough for a token that expires once, at
\* whatever moment, and whatever keep_alive does meanwhile.
THEOREM PutSurvives == Spec => []PutSurvivesExpiry
  <1> DEFINE Inv == IInv /\ TriesInv
  <1>1. Init => Inv
    BY InitOK, InitTries
  <1>2. Inv /\ [Next]_vars => Inv'
    BY NextOK, NextTries
  <1>3. Inv => PutSurvivesExpiry
    BY DEF TriesInv, Tries, PutSurvivesExpiry
  <1> HIDE DEF Inv
  <1> QED
    BY <1>1, <1>2, <1>3, PTL DEF Spec

(***************************************************************************)
(* The driver implements a store of blocks.                                *)
(***************************************************************************)
\* The call under way, as far as the store sees it, is left alone.
SameCall(f, g) ==
    /\ g.op = f.op /\ g.blk = f.blk
    /\ g.op = "put" => g.data = f.data
    /\ \/ f.pc # "done" /\ g.pc # "done"
       \/ g.pc = f.pc /\ g.ret = f.ret /\ g.data = f.data

SameStore == UNCHANGED file /\ mapping'.view = mapping.view /\ mapping'.disk = mapping.disk

\* The call of the store is that of the frame.
LEMMA CallOps == ASSUME IInv PROVE frame["call"].op \in {"none", "get", "put"}
  BY DEF IInv, CallOK

LEMMA SameCalled ==
  ASSUME IInv, SameCall(frame["call"], frame'["call"])
  PROVE  Called' = Called /\ Answered' = Answered
  <1> DEFINE f == frame["call"]
             g == frame'["call"]
  <1>1. f.op \in {"none", "get", "put"} /\ g.op = f.op /\ g.blk = f.blk
    BY CallOps DEF SameCall
  <1>2. f.op = "put" => Content(g) = Content(f)
    BY <1>1 DEF SameCall, Content
  <1>3. Called' = Called
    BY <1>1, <1>2 DEF Called
  <1>4. CASE f.pc # "done" /\ g.pc # "done"
    BY <1>3, <1>4 DEF Answered
  <1>5. CASE g.pc = f.pc /\ g.ret = f.ret /\ g.data = f.data
    <2>1. Content(g) = Content(f)
      BY <1>5 DEF Content
    <2> QED
      BY <1>1, <1>3, <1>5, <2>1 DEF Answered
  <1> QED
    BY <1>3, <1>4, <1>5 DEF SameCall

\* A step that leaves files, identifiers and the call is a stutter.
LEMMA Stutters ==
  ASSUME IInv, SameStore, SameCall(frame["call"], frame'["call"])
  PROVE  UNCHANGED Store!vars
  <1>1. Stored' = Stored /\ Unsaved' = Unsaved
    BY DEF SameStore, Stored, Unsaved
  <1> QED
    BY <1>1, SameCalled DEF Store!vars

\* Of a call that is under way, and of none.
LEMMA NoneCalled ==
  ASSUME frame["call"] = Idle PROVE Called = Store!NoCall /\ Answered = Store!NoAnswer
  BY DEF Called, Answered, Idle, Store!NoCall, Store!NoAnswer

LEMMA UnderWay ==
  ASSUME IInv, frame["call"].pc \notin {"idle", "done"}
  PROVE  /\ Called # Store!NoCall /\ Called.op = frame["call"].op
         /\ Called.blk = frame["call"].blk
         /\ frame["call"].op = "put" => Called.data = Content(frame["call"])
         /\ Answered = Store!NoAnswer
  <1>1. frame["call"].op \in {"get", "put"}
    BY DEF IInv, CallOK
  <1>2. CASE frame["call"].op = "get"
    <2>1. Called = [op |-> "get", blk |-> frame["call"].blk]
      BY <1>2 DEF Called
    <2> QED
      BY <1>2, <2>1 DEF Answered, Store!NoCall, Store!NoAnswer
  <1>3. CASE frame["call"].op = "put"
    <2>1. Called = [op |-> "put", blk |-> frame["call"].blk, data |-> Content(frame["call"])]
      BY <1>3 DEF Called
    <2> QED
      BY <1>3, <2>1 DEF Answered, Store!NoCall, Store!NoAnswer
  <1> QED
    BY <1>1, <1>2, <1>3

(***************************************************************************)
(* The steps                                                               *)
(***************************************************************************)
\* A process that ends is a stop: Die loses what is in the buffer, Exit nothing.
LEMMA GoneStops ==
  ASSUME IInv, NEW lost \in {{}, Unsaved}, Gone(mapping.view \ lost)
  PROVE  Store!Stop
  <1>1. frame'["call"] = Idle
    BY DEF Gone, Context
  <1>2. Called' = Store!NoCall /\ Answered' = Store!NoAnswer
    BY <1>1 DEF Called, Answered, Idle, Store!NoCall, Store!NoAnswer
  <1>3. mapping'.view = mapping.view \ lost /\ mapping'.disk = mapping.view \ lost /\ file' = file
    BY DEF Gone
  <1>4. Unsaved' = {}
    BY <1>3 DEF Unsaved
  <1>5. Stored' = [b \in DOMAIN Stored \ lost |-> Stored[b]]
    BY <1>3 DEF Stored
  <1> QED
    BY <1>2, <1>4, <1>5 DEF Store!Stop

LEMMA DieStops == ASSUME IInv, Die PROVE Store!Stop
  <1>1. mapping.disk = mapping.view \ Unsaved
    BY DEF Unsaved, IInv, RecordedStored
  <1> QED
    BY <1>1, GoneStops DEF Die

LEMMA ExitStops == ASSUME IInv, Exit PROVE Store!Stop
  <1>1. mapping.view = mapping.view \ {}
    OBVIOUS
  <1> QED
    BY <1>1, GoneStops DEF Exit

\* The frame of the call after a step of its own.
LEMMA CallFrame ==
  ASSUME IInv, NEW l \in Label, NEW f \in Frame, Goto("call", l, f)
  PROVE  LET g == frame'["call"]
         IN  /\ g.pc = l /\ g.op = f.op /\ g.blk = f.blk /\ g.data = f.data /\ g.ret = f.ret
  <1>1. frame'["call"] = [f EXCEPT !.pc = l]
    BY GotoFrame DEF IInv, TypeOK, Context
  <1> QED
    BY <1>1 DEF Frame

\* A step of the handler leaves the frame of the call.
LEMMA AlarmSame ==
  ASSUME IInv, NEW l, NEW f, Goto("alarm", l, f)
  PROVE  SameCall(frame["call"], frame'["call"])
  <1>1. frame'["call"] = frame["call"]
    BY DEF Goto, IInv, TypeOK, Context
  <1> QED
    BY <1>1 DEF SameCall

\* get_block and put_block are requests.
LEMMA GetRequests == ASSUME IInv, NEW b \in Block, get_block(b) PROVE Store!Next
  <1>1. CASE Die
    BY <1>1, DieStops DEF Store!Next
  <1> DEFINE f == [Idle EXCEPT !.op = "get", !.blk = b, !.fid = mapping.view \cap {b},
                               !.retry = VDISK_RETRY_ON_FAIL - 1, !.token = token]
  <1>2. CASE mapping' = Flushed /\ Goto("call", "post", f) /\ UNCHANGED file
    <2>1. frame["call"].pc = "idle" /\ frame["call"].op = "none"
      BY DEF get_block, At, IInv, CallOK
    <2>2. Called = Store!NoCall /\ Answered = Store!NoAnswer
      BY <2>1 DEF Called, Answered, Store!NoCall, Store!NoAnswer
    <2>3. frame'["call"] = [f EXCEPT !.pc = "post"]
      BY <1>2 DEF Goto, IInv, TypeOK, Context
    <2>4. frame'["call"].pc = "post" /\ frame'["call"].op = "get" /\ frame'["call"].blk = b
      BY <2>3 DEF Idle
    <2>5. Called' = [op |-> "get", blk |-> b] /\ Answered' = Answered
      BY <2>1, <2>4 DEF Called, Answered
    <2>6. mapping'.view = mapping.view /\ mapping'.disk = mapping.view
      BY <1>2 DEF Flushed, IInv, TypeOK
    <2>7. Stored' = Stored /\ Unsaved' = {}
      BY <1>2, <2>6 DEF Stored, Unsaved
    <2>8. Called' \in Store!Gets
      BY <2>5 DEF Store!Gets
    <2>9. Store!Request(Called')
      BY <2>2, <2>5, <2>7 DEF Store!Request
    <2> QED
      BY <2>8, <2>9 DEF Store!Next
  <1> QED
    BY <1>1, <1>2 DEF get_block

LEMMA PutRequests ==
  ASSUME IInv, NEW b \in Block, NEW data \in Data, put_block(b, data) PROVE Store!Next
  <1> DEFINE f == [Idle EXCEPT !.op = "put", !.blk = b, !.data = {data},
                               !.retry = VDISK_RETRY_ON_FAIL]
  <1>1. frame["call"].pc = "idle" /\ frame["call"].op = "none"
    BY DEF put_block, At, IInv, CallOK
  <1>2. Called = Store!NoCall /\ Answered = Store!NoAnswer
    BY <1>1 DEF Called, Answered, Store!NoCall, Store!NoAnswer
  <1>3. frame'["call"] = [f EXCEPT !.pc = "try"]
    BY DEF put_block, Goto, IInv, TypeOK, Context
  <1> DEFINE g == frame'["call"]
  <1>4. g.pc = "try" /\ g.op = "put" /\ g.blk = b /\ g.data = {data}
    BY <1>3 DEF Idle
  <1>5. Content(g) = data
    BY <1>4 DEF Content
  <1>6. Called' = [op |-> "put", blk |-> b, data |-> data] /\ Answered' = Answered
    BY <1>1, <1>4, <1>5 DEF Called, Answered
  <1>7. Stored' = Stored /\ Unsaved' = Unsaved
    BY DEF put_block, Stored, Unsaved
  <1>8. Called' \in Store!Puts
    BY <1>6 DEF Store!Puts
  <1>9. Store!Request(Called')
    BY <1>2, <1>6, <1>7 DEF Store!Request
  <1> QED
    BY <1>8, <1>9 DEF Store!Next

\* A post changes a block that has an identifier, or nothing the store sees.
LEMMA PostWrites == ASSUME IInv, NEW c \in Context, post(c) PROVE [Store!Next]_(Store!vars)
  <1> DEFINE f == frame[c]
  <1>1. f \in Frame /\ f.pc = "post" /\ UNCHANGED mapping /\ file' \in {file, Uploaded(f)}
    BY DEF post, At, IInv, TypeOK
  <1>2. SameCall(frame["call"], frame'["call"])
    <2>1. CASE c = "alarm"
      BY <2>1, AlarmSame DEF post
    <2>2. CASE c = "call"
      <3>1. PICK r : Goto("call", "parse", [f EXCEPT !.rsp = r]) \/ Goto("call", "parse", f)
        BY <2>2 DEF post
      <3>2. \/ frame'["call"] = [[f EXCEPT !.rsp = r] EXCEPT !.pc = "parse"]
            \/ frame'["call"] = [f EXCEPT !.pc = "parse"]
        BY <3>1 DEF Goto, IInv, TypeOK, Context
      <3> DEFINE g == frame'["call"]
      <3>3. g.pc = "parse" /\ g.op = f.op /\ g.blk = f.blk /\ g.data = f.data
        BY <1>1, <3>2 DEF Frame
      <3> QED
        BY <1>1, <2>2, <3>3 DEF SameCall
    <2> QED
      BY <2>1, <2>2 DEF Context
  <1>3. Called' = Called /\ Answered' = Answered
    BY <1>2, SameCalled
  <1>4. CASE file' = file
    BY <1>1, <1>2, <1>4, Stutters DEF SameStore
  <1>5. CASE file' = Uploaded(f) /\ file' # file
    <2>1. f.op = "put" /\ Served(f) /\ c = "call"
      BY <1>5 DEF Uploaded, IInv, AlarmOK, Context
    <2>2. /\ \A b \in DOMAIN file : b # f.blk => file'[b] = file[b]
          /\ file'[f.blk] = Content(f)
      BY <1>5, <2>1, UploadedType
    <2>3. mapping.view \subseteq DOMAIN file /\ Unsaved' = Unsaved
      BY <1>1 DEF IInv, RecordedStored, Unsaved
    <2>4. /\ Called # Store!NoCall /\ Called.op = "put" /\ Called.blk = f.blk
          /\ Called.data = Content(f) /\ Answered = Store!NoAnswer
      BY <1>1, <2>1, UnderWay
    <2>5. CASE f.blk \notin mapping.view
      <3>1. Stored' = Stored
        BY <1>1, <2>2, <2>3, <2>5 DEF Stored
      <3> QED
        BY <1>3, <2>3, <3>1 DEF Store!vars
    <2>6. CASE f.blk \in mapping.view
      <3>1. Stored' = [x \in DOMAIN Stored \cup {f.blk} |->
                          IF x = f.blk THEN Content(f) ELSE Stored[x]]
        BY <1>1, <2>2, <2>3, <2>6 DEF Stored
      <3>2. f.blk \in DOMAIN Stored
        BY <2>6 DEF Stored
      <3>3. Store!PutOver
        BY <1>3, <2>3, <2>4, <3>1, <3>2 DEF Store!PutOver, Store!Pending, Store!With
      <3> QED
        BY <3>3 DEF Store!Next
    <2> QED
      BY <2>5, <2>6
  <1> QED
    BY <1>1, <1>4, <1>5

\* A parse ends the process, or does nothing the store sees.
LEMMA ParseStutters == ASSUME IInv, NEW c \in Context, parse(c) PROVE [Store!Next]_(Store!vars)
  <1> DEFINE f == frame[c]
  <1>1. CASE Die
    BY <1>1, DieStops DEF Store!Next
  <1>2. CASE ~Die
    <2>1. SameStore /\ f \in Frame /\ f.pc = "parse"
      BY <1>2 DEF parse, Parsed, At, SameStore, IInv, TypeOK
    <2>2. PICK l \in {"parsed", "authenticate"} : \E r : Goto(c, l, [f EXCEPT !.ret = r])
      BY <1>2 DEF parse, Parsed
    <2>3. CASE c = "alarm"
      BY <2>1, <2>2, <2>3, AlarmSame, Stutters
    <2>4. CASE c = "call"
      <3>1. PICK r : frame'["call"] = [[f EXCEPT !.ret = r] EXCEPT !.pc = l]
        BY <2>2, <2>4 DEF Goto, IInv, TypeOK, Context
      <3> DEFINE g == frame'["call"]
      <3>2. g.pc # "done" /\ g.op = f.op /\ g.blk = f.blk /\ g.data = f.data
        BY <2>1, <2>2, <3>1 DEF Frame
      <3>3. SameCall(frame["call"], frame'["call"])
        BY <2>1, <2>4, <3>2 DEF SameCall
      <3> QED
        BY <2>1, <3>3, Stutters
    <2> QED
      BY <2>3, <2>4 DEF Context
  <1> QED
    BY <1>1, <1>2

\* A step that goes on with the frame as it is.
LEMMA MoveStutters ==
  ASSUME IInv, NEW c \in Context, NEW l \in Label \ {"done"}, Goto(c, l, frame[c]),
         frame[c].pc # "done", SameStore
  PROVE  UNCHANGED Store!vars
  <1>1. CASE c = "alarm"
    BY <1>1, AlarmSame, Stutters
  <1>2. CASE c = "call"
    <2>1. frame["call"] \in Frame
      BY DEF IInv, TypeOK, Context
    <2>2. SameCall(frame["call"], frame'["call"])
      BY <1>2, <2>1, CallFrame DEF SameCall
    <2> QED
      BY <2>2, Stutters
  <1> QED
    BY <1>1, <1>2 DEF Context

\* The steps of authenticate but those that end the process.
LEMMA AuthenticateStutters ==
  ASSUME IInv, NEW c \in Context,
         authenticate(c) \/ get_token(c) \/ unquote(c) \/ timer(c)
  PROVE  [Store!Next]_(Store!vars)
  <1>1. CASE Die
    BY <1>1, DieStops DEF Store!Next
  <1>2. CASE ~Die
    <2>1. SameStore /\ frame[c].pc # "done"
      BY <1>2 DEF authenticate, get_token, unquote, timer, At, SameStore, IInv, TypeOK
    <2>2. \E l \in Label \ {"done"} : Goto(c, l, frame[c])
      BY <1>2 DEF authenticate, get_token, unquote, timer, Label
    <2> QED
      BY <2>1, <2>2, MoveStutters
  <1> QED
    BY <1>1, <1>2

LEMMA TryStutters == ASSUME IInv, try PROVE UNCHANGED Store!vars
  <1> DEFINE f == frame["call"]
             g == frame'["call"]
  <1>1. f \in Frame /\ f.pc = "try" /\ SameStore
    BY DEF try, At, IInv, TypeOK, Context, SameStore
  <1>2. g = [[f EXCEPT !.retry = @ - 1, !.token = token] EXCEPT !.pc = "post"]
    BY DEF try, Goto, IInv, TypeOK, Context
  <1>3. g.pc = "post" /\ g.op = f.op /\ g.blk = f.blk /\ g.data = f.data
    BY <1>1, <1>2 DEF Frame
  <1> QED
    BY <1>1, <1>3, Stutters DEF SameCall

\* A call that gives up has failed; one that goes on is a stutter.
LEMMA ParsedFails == ASSUME IInv, parsed PROVE [Store!Next]_(Store!vars)
  <1> DEFINE f == frame["call"]
             g == frame'["call"]
  <1>1. f \in Frame /\ f.pc = "parsed" /\ SameStore
    BY DEF parsed, At, IInv, TypeOK, Context, SameStore
  <1>2. CASE \E l \in Label \ {"done"} : Goto("call", l, f)
    BY <1>1, <1>2, MoveStutters DEF Context
  <1>3. CASE Goto("call", "done", f) /\ f.ret # "ok"
    <2>1. g.pc = "done" /\ g.op = f.op /\ g.blk = f.blk /\ g.data = f.data /\ g.ret = f.ret
      BY <1>1, <1>3, CallFrame DEF Label
    <2>2. Answered' = Store!Failed
      BY <1>3, <2>1 DEF Answered, Store!Failed
    <2>3. Called' = Called
      BY <2>1, CallOps DEF Called, Content
    <2>4. Stored' = Stored /\ Unsaved' = Unsaved
      BY <1>1 DEF SameStore, Stored, Unsaved
    <2>5. Called # Store!NoCall /\ Answered = Store!NoAnswer
      BY <1>1, UnderWay
    <2> QED
      BY <2>2, <2>3, <2>4, <2>5 DEF Store!Fail, Store!Next
  <1>4. CASE Goto("call", "parse", [f EXCEPT !.retry = @ - 1])
    <2>1. g = [[f EXCEPT !.retry = @ - 1] EXCEPT !.pc = "parse"]
      BY <1>4 DEF Goto, IInv, TypeOK, Context
    <2>2. g.pc = "parse" /\ g.op = f.op /\ g.blk = f.blk /\ g.data = f.data
      BY <1>1, <2>1 DEF Frame
    <2> QED
      BY <1>1, <2>2, Stutters DEF SameCall
  <1> QED
    BY <1>2, <1>3, <1>4 DEF parsed, Label

\* A download answers what the server holds, or fails.
LEMMA DownloadAnswers == ASSUME IInv, download PROVE Store!Next
  <1> DEFINE f == frame["call"]
             g == frame'["call"]
  <1>1. /\ f \in Frame /\ f.pc = "download" /\ f.op = "get" /\ f.ret = "ok"
        /\ f.blk \in mapping.view /\ SameStore
    BY DEF download, At, IInv, TypeOK, CallOK, ServedOK, Context, SameStore
  <1>2. /\ Called # Store!NoCall /\ Called.op = "get" /\ Called.blk = f.blk
        /\ Answered = Store!NoAnswer
    BY <1>1, UnderWay
  <1>3. Stored' = Stored /\ Unsaved' = Unsaved
    BY <1>1 DEF SameStore, Stored, Unsaved
  <1>4. CASE Goto("call", "done", [f EXCEPT !.data = {file[f.blk]}])
    <2>1. g = [[f EXCEPT !.data = {file[f.blk]}] EXCEPT !.pc = "done"]
      BY <1>4 DEF Goto, IInv, TypeOK, Context
    <2>2. /\ g.pc = "done" /\ g.op = "get" /\ g.blk = f.blk /\ g.ret = "ok"
          /\ g.data = {file[f.blk]}
      BY <1>1, <2>1 DEF Frame
    <2>3. Content(g) = file[f.blk]
      BY <2>2 DEF Content
    <2>4. Called' = Called
      BY <1>1, <2>2 DEF Called
    <2>5. Answered' = [ret |-> "ok", data |-> Stored[f.blk]]
      BY <1>1, <2>2, <2>3 DEF Answered, Stored
    <2>6. f.blk \in DOMAIN Stored
      BY <1>1 DEF Stored
    <2>7. Store!GetOk
      BY <1>2, <1>3, <2>4, <2>5, <2>6 DEF Store!GetOk, Store!Pending
    <2> QED
      BY <2>7 DEF Store!Next
  <1>5. CASE Goto("call", "done", [f EXCEPT !.ret = "curl"])
    <2>1. g = [[f EXCEPT !.ret = "curl"] EXCEPT !.pc = "done"]
      BY <1>5 DEF Goto, IInv, TypeOK, Context
    <2>2. g.pc = "done" /\ g.op = "get" /\ g.blk = f.blk /\ g.ret = "curl"
      BY <1>1, <2>1 DEF Frame
    <2>3. Called' = Called /\ Answered' = Store!Failed
      BY <1>1, <2>2 DEF Called, Answered, Store!Failed
    <2> QED
      BY <1>2, <1>3, <2>3 DEF Store!Fail, Store!Next
  <1> QED
    BY <1>4, <1>5 DEF download

\* A record makes the block one of the store's: the new one is unsaved, and
\* what was unsaved before is not.
LEMMA RecordPuts == ASSUME IInv, record PROVE Store!Next
  <1> DEFINE f == frame["call"]
             g == frame'["call"]
  <1>1. CASE Die
    BY <1>1, DieStops DEF Store!Next
  <1>2. CASE /\ mapping' = [Flushed EXCEPT !.view = @ \cup {f.blk}]
             /\ Goto("call", "done", f)
             /\ UNCHANGED file
    <2>1. /\ f \in Frame /\ f.pc = "record" /\ f.op = "put" /\ f.ret = "ok"
          /\ f.blk \in Block /\ file[f.blk] = Content(f)
      BY DEF record, At, IInv, TypeOK, CallOK, ServedOK, Context
    <2>2. /\ Called # Store!NoCall /\ Called.op = "put" /\ Called.blk = f.blk
          /\ Called.data = Content(f) /\ Answered = Store!NoAnswer
      BY <2>1, UnderWay
    <2>3. /\ g.pc = "done" /\ g.op = f.op /\ g.blk = f.blk /\ g.data = f.data /\ g.ret = f.ret
      BY <1>2, <2>1, CallFrame DEF Label
    <2>4. Called' = Called
      BY <2>1, <2>3 DEF Called, Content
    <2>5. Answered' = [ret |-> "ok"]
      BY <2>1, <2>3 DEF Answered
    <2>6. mapping'.view = mapping.view \cup {f.blk} /\ mapping'.disk = mapping.view
      BY <1>2 DEF Flushed, IInv, TypeOK
    <2>7. Unsaved' = {f.blk} \ mapping.view
      BY <2>6 DEF Unsaved
    <2>8. CASE f.blk \in mapping.view
      <3>1. Stored' = Stored /\ Unsaved' = {}
        BY <1>2, <2>6, <2>7, <2>8 DEF Stored
      <3>2. f.blk \in DOMAIN Stored /\ Stored[f.blk] = Content(f)
        BY <2>1, <2>8 DEF Stored
      <3>3. Store!PutDone
        BY <2>2, <2>4, <2>5, <3>1, <3>2 DEF Store!PutDone, Store!Pending
      <3> QED
        BY <3>3 DEF Store!Next
    <2>9. CASE f.blk \notin mapping.view
      <3>1. Unsaved' = {f.blk} /\ f.blk \notin DOMAIN Stored
        BY <2>7, <2>9 DEF Stored
      <3>2. Stored' = [x \in DOMAIN Stored \cup {f.blk} |->
                          IF x = f.blk THEN Content(f) ELSE Stored[x]]
        BY <1>2, <2>1, <2>6, <2>9 DEF Stored
      <3>3. Store!PutNew
        BY <2>2, <2>4, <2>5, <3>1, <3>2 DEF Store!PutNew, Store!Pending, Store!With
      <3> QED
        BY <3>3 DEF Store!Next
    <2> QED
      BY <2>8, <2>9
  <1> QED
    BY <1>1, <1>2 DEF record

LEMMA DoneReturns == ASSUME IInv, done PROVE Store!Next
  <1>1. frame["call"].pc = "done" /\ SameStore /\ frame["call"].ret \in Code
    BY DEF done, At, SameStore, IInv, TypeOK, Context, Frame
  <1>2. frame'["call"] = [Idle EXCEPT !.pc = "idle"]
    BY DEF done, Goto, IInv, TypeOK, Context
  <1>3. Called' = Store!NoCall /\ Answered' = Store!NoAnswer
    BY <1>2 DEF Called, Answered, Idle, Store!NoCall, Store!NoAnswer
  <1>4. Stored' = Stored /\ Unsaved' = Unsaved
    BY <1>1 DEF SameStore, Stored, Unsaved
  <1>5. Answered # Store!NoAnswer
    BY <1>1 DEF Answered, Store!NoAnswer
  <1> QED
    BY <1>3, <1>4, <1>5 DEF Store!Return, Store!Next

\* The handler's first and last step, and a token that expires.
LEMMA OthersStutter ==
  ASSUME IInv, keep_alive \/ kept \/ Expire PROVE UNCHANGED Store!vars
  <1>1. SameStore
    BY DEF keep_alive, kept, Expire, SameStore
  <1>2. CASE keep_alive \/ kept
    BY <1>1, <1>2, AlarmSame, Stutters DEF keep_alive, kept
  <1>3. CASE Expire
    <2>1. frame["call"] \in Frame /\ frame'["call"] = [frame["call"] EXCEPT !.token = Old(@)]
      BY <1>3 DEF Expire, IInv, TypeOK, Context
    <2>2. SameCall(frame["call"], frame'["call"])
      BY <2>1 DEF SameCall, Frame
    <2> QED
      BY <1>1, <2>2, Stutters
  <1> QED
    BY <1>2, <1>3

LEMMA NextRefines == ASSUME IInv, [Next]_vars PROVE [Store!Next]_(Store!vars)
  <1>1. ASSUME NEW c \in Context, Transfer(c) PROVE [Store!Next]_(Store!vars)
    BY <1>1, PostWrites, ParseStutters, AuthenticateStutters DEF Transfer
  <1>2. CASE CallStep
    BY <1>1, <1>2, TryStutters, ParsedFails, DownloadAnswers, RecordPuts, DoneReturns
    DEF CallStep, Context
  <1>3. CASE AlarmStep
    BY <1>1, <1>3, OthersStutter DEF AlarmStep, Context
  <1>4. CASE \E b \in Block : get_block(b) \/ \E data \in Data : put_block(b, data)
    BY <1>4, GetRequests, PutRequests
  <1>5. CASE keep_alive \/ Expire
    BY <1>5, OthersStutter
  <1>6. CASE Exit \/ Die
    BY <1>6, ExitStops, DieStops DEF Store!Next
  <1>7. CASE UNCHANGED vars
    <2>1. SameStore /\ SameCall(frame["call"], frame'["call"])
      BY <1>7 DEF vars, SameStore, SameCall
    <2> QED
      BY <2>1, Stutters
  <1> QED
    BY <1>2, <1>3, <1>4, <1>5, <1>6, <1>7 DEF Next

LEMMA InitRefines == ASSUME Init PROVE Store!Init
  <1>1. Stored = [b \in {} |-> b] /\ Unsaved = {}
    BY DEF Init, Stored, Unsaved
  <1>2. frame["call"] = Idle
    BY DEF Init, Context
  <1> QED
    BY <1>1, <1>2, NoneCalled DEF Store!Init

(***************************************************************************)
(* The theorem                                                             *)
(***************************************************************************)
\* get_block and put_block implement BlockStore, with any number of lost
\* messages, errors, expiries, restarts and signals: a get answers what the
\* last put left, a put answered "ok" stays, a crash loses at most the block
\* whose identifier is in the buffer of the mapping file.
THEOREM DriverImplements == Spec => ImplementsBlockStore
  BY InitRefines, NextRefines, Inductive, PTL DEF Spec, Store!Spec, ImplementsBlockStore
=============================================================================
