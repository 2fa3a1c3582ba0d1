---------------------------- MODULE VdiskDriver ----------------------------
(***************************************************************************)
(* The driver of vdisk: get_block and put_block for one caller, the token  *)
(* with its authentication in the middle of a transfer, and keep_alive,    *)
(* the handler of SIGALRM that may interrupt all of it and posts itself.   *)
(*                                                                         *)
(* While the handler runs the call it interrupted stands still.  A request *)
(* or its answer may be lost, and the server may answer any error; a token *)
(* may expire at any time.  The server is external: it knows a file by the *)
(* number of its block, and a block's identifier is that number.           *)
(***************************************************************************)
EXTENDS Naturals

CONSTANTS
  Block,      \* block numbers
  Data,       \* contents of a block
  MaxFault,   \* bound: requests and answers lost, errors of the server
  MaxExpiry   \* bound: times the token expires

ASSUME DriverAssumption == MaxFault \in Nat /\ MaxExpiry \in Nat

VARIABLES
  file,         \* the server's files: block number -> content
  token,        \* static char token[]
  vdisk_errno,  \* static int vdisk_errno
  mapping,      \* static FILE *mapping: open or not, blocks with an identifier
                \* as read back (view) and as a restart finds them (disk)
  alarm,        \* whether SIGALRM is set
  frame,        \* the call under way and the handler
  faults,       \* faults so far
  expiries      \* times the token has expired

vars == <<file, token, vdisk_errno, mapping, alarm, frame, faults, expiries>>
counters == <<faults, expiries>>

Context == {"call", "alarm"}
VDISK_RETRY_ON_FAIL == 3

\* data is a set: what a get has downloaded, or a put has to upload.  fid is the
\* identifier that was read, if there was one.
Idle == [pc |-> "idle", op |-> "none", blk |-> 0, data |-> {}, fid |-> {},
         retry |-> 0, token |-> "none", rsp |-> "empty", ret |-> "none"]

\* A step of context c: the call steps only while no handler runs.
At(c, l) == /\ frame[c].pc = l
            /\ c = "call" => frame["alarm"].pc = "idle"
Goto(c, l, f) == frame' = [frame EXCEPT ![c] = [f EXCEPT !.pc = l]]

\* Another process begins where this one has ended.
Gone(blocks) ==
    /\ token' = "none"
    /\ vdisk_errno' = "ok"
    /\ mapping' = [open |-> FALSE, view |-> blocks, disk |-> blocks]
    /\ alarm' = "off"
    /\ frame' = [c \in Context |-> Idle]
    /\ UNCHANGED <<file, counters>>

Die == Gone(mapping.disk)

(***************************************************************************)
(* The calls                                                               *)
(***************************************************************************)
\* fseek in the mapping file flushes what was written to it.
Flushed == [mapping EXCEPT !.disk = mapping.view]

\* map_blk_to_fid answers 1 whatever it has read: an identifier that is not
\* there is sent as an empty one.
get_block(b) ==
    /\ At("call", "idle")
    /\ \/ ~mapping.open /\ Die
       \/ /\ mapping.open
          /\ mapping' = Flushed
          /\ Goto("call", "post",
                  [Idle EXCEPT !.op = "get", !.blk = b, !.fid = mapping.view \cap {b},
                               !.retry = VDISK_RETRY_ON_FAIL - 1, !.token = token])
          /\ UNCHANGED <<file, token, vdisk_errno, alarm, counters>>

\* Mutated: two tries.
put_block_two(b, data) ==
    /\ At("call", "idle")
    /\ Goto("call", "try", [Idle EXCEPT !.op = "put", !.blk = b, !.data = {data},
                                        !.retry = VDISK_RETRY_ON_FAIL - 1])
    /\ UNCHANGED <<file, token, vdisk_errno, mapping, alarm, counters>>

put_block(b, data) ==
    /\ At("call", "idle")
    /\ Goto("call", "try", [Idle EXCEPT !.op = "put", !.blk = b, !.data = {data},
                                        !.retry = VDISK_RETRY_ON_FAIL])
    /\ UNCHANGED <<file, token, vdisk_errno, mapping, alarm, counters>>

\* Mutated: the tries are not counted.
try_on ==
    /\ At("call", "try")
    /\ Goto("call", "post", [frame["call"] EXCEPT !.token = token])
    /\ UNCHANGED <<file, token, vdisk_errno, mapping, alarm, counters>>

\* Each try reads the token anew; the response buffer keeps the last answer.
try ==
    /\ At("call", "try")
    /\ Goto("call", "post", [frame["call"] EXCEPT !.retry = @ - 1, !.token = token])
    /\ UNCHANGED <<file, token, vdisk_errno, mapping, alarm, counters>>

\* SIGALRM is delivered.
keep_alive ==
    /\ alarm = "on" /\ At("alarm", "idle")
    /\ alarm' = "off"
    /\ Goto("alarm", "post", [Idle EXCEPT !.op = "keep", !.token = token])
    /\ UNCHANGED <<file, token, vdisk_errno, mapping, counters>>

(***************************************************************************)
(* post and multipart_post.  They answer 0 whatever curl says; of an       *)
(* answer that is lost the response buffer shows nothing.                  *)
(***************************************************************************)
Served(f) == f.token = "good"

Answer(f) == CASE ~Served(f) -> "refused"
               [] Served(f) /\ f.op = "get" /\ f.fid \cap DOMAIN file = {} -> "error"
               [] OTHER -> "ok"

Content(f) == CHOOSE d \in f.data : TRUE

Uploaded(f) ==
    IF f.op = "put" /\ Served(f)
    THEN [x \in DOMAIN file \cup {f.blk} |-> IF x = f.blk THEN Content(f) ELSE file[x]]
    ELSE file

post(c) ==
    LET f == frame[c]
    IN  /\ At(c, "post")
        /\ \/ /\ file' = Uploaded(f)
              /\ Goto(c, "parse", [f EXCEPT !.rsp = Answer(f)])
              /\ UNCHANGED faults
           \/ /\ faults < MaxFault /\ faults' = faults + 1
              /\ \/ file' \in {file, Uploaded(f)} /\ Goto(c, "parse", f)
                 \/ UNCHANGED file /\ Goto(c, "parse", [f EXCEPT !.rsp = "error"])
        /\ UNCHANGED <<token, vdisk_errno, mapping, alarm, expiries>>

(***************************************************************************)
(* parse_json_string.  Of an empty text the JSON library makes no object;  *)
(* older ones return a pointer that must not be used, and it is.  Without  *)
(* an object the error code reads as 0 and the data as missing.            *)
(***************************************************************************)
\* What the parser answers: get_fid_from_json, get_url_from_json; keep_alive has none.
Parsed(c, errno) ==
    /\ vdisk_errno' = IF c = "alarm" THEN vdisk_errno ELSE errno
    /\ Goto(c, "parsed", [frame[c] EXCEPT !.ret = IF c = "alarm" THEN "ok" ELSE errno])
    /\ UNCHANGED mapping

parse(c) ==
    LET f == frame[c]
    IN  /\ At(c, "parse")
        /\ \/ f.rsp = "empty" /\ Die
           \/ /\ \/ f.rsp = "empty" /\ Parsed(c, "nondata")
                 \/ f.rsp = "ok" /\ Parsed(c, vdisk_errno)
                 \/ /\ f.rsp = "error"
                    /\ Goto(c, "parsed", [f EXCEPT !.ret = "error"])
                    /\ UNCHANGED <<vdisk_errno, mapping>>
                 \/ /\ f.rsp = "refused"
                    /\ Goto(c, "authenticate", [f EXCEPT !.ret = "refused"])
                    /\ UNCHANGED <<vdisk_errno, mapping>>
              /\ UNCHANGED <<file, token, alarm, counters>>

(***************************************************************************)
(* authenticate: the mapping file is opened, a token asked for, copied to  *)
(* its place with its quotes, unquoted there, the timer set.               *)
(***************************************************************************)
authenticate(c) ==
    /\ At(c, "authenticate")
    /\ mapping' = [mapping EXCEPT !.open = TRUE]
    /\ Goto(c, "get_token", frame[c])
    /\ UNCHANGED <<file, token, vdisk_errno, alarm, counters>>

get_token(c) ==
    /\ At(c, "get_token")
    /\ \/ /\ token' = "quoted"
          /\ Goto(c, "unquote", frame[c])
          /\ UNCHANGED <<file, vdisk_errno, mapping, alarm, counters>>
       \/ /\ faults < MaxFault /\ faults' = faults + 1
          /\ vdisk_errno' \in {vdisk_errno, "nondata"}     \* an error, or no answer
          /\ Goto(c, "timer", frame[c])
          /\ UNCHANGED <<file, token, mapping, alarm, expiries>>
       \/ faults < MaxFault /\ Die                         \* no answer

unquote(c) ==
    /\ At(c, "unquote")
    /\ token' = IF token = "quoted" THEN "good" ELSE token
    /\ Goto(c, "timer", frame[c])
    /\ UNCHANGED <<file, vdisk_errno, mapping, alarm, counters>>

timer(c) ==
    /\ At(c, "timer")
    /\ alarm' = "on"
    /\ Goto(c, "parsed", frame[c])
    /\ UNCHANGED <<file, token, vdisk_errno, mapping, counters>>

(***************************************************************************)
(* After parsing                                                           *)
(***************************************************************************)
\* Mutated: the identifier is recorded whatever the code.
parsed_any ==
    LET f == frame["call"]
    IN  /\ At("call", "parsed")
        /\ Goto("call", IF f.op = "get" THEN "done" ELSE "record", f)
        /\ UNCHANGED <<file, token, vdisk_errno, mapping, alarm, counters>>

\* Mutated: one try too many.
parsed_again ==
    LET f == frame["call"]
    IN  /\ At("call", "parsed")
        /\ \/ f.ret = "ok" /\ Goto("call", IF f.op = "get" THEN "download" ELSE "record", f)
           \/ f.ret # "ok" /\ f.retry < 0 /\ Goto("call", "done", f)
           \/ f.ret # "ok" /\ f.retry >= 0 /\ f.op = "put" /\ Goto("call", "try", f)
        /\ UNCHANGED <<file, token, vdisk_errno, mapping, alarm, counters>>

\* get_block parses the answer it has again; put_block tries again.
parsed ==
    LET f == frame["call"]
    IN  /\ At("call", "parsed")
        /\ \/ f.ret = "ok" /\ Goto("call", IF f.op = "get" THEN "download" ELSE "record", f)
           \/ f.ret # "ok" /\ f.retry = 0 /\ Goto("call", "done", f)
           \/ /\ f.ret # "ok" /\ f.retry > 0 /\ f.op = "get"
              /\ Goto("call", "parse", [f EXCEPT !.retry = @ - 1])
           \/ f.ret # "ok" /\ f.retry > 0 /\ f.op = "put" /\ Goto("call", "try", f)
        /\ UNCHANGED <<file, token, vdisk_errno, mapping, alarm, counters>>

\* The end of keep_alive: alarm(VDISK_CANCEL_ALARM) or alarm(VDISK_KTOK_INTERVAL).
kept ==
    /\ At("alarm", "parsed")
    /\ alarm' = IF frame["alarm"].ret = "ok" THEN "on" ELSE "off"
    /\ Goto("alarm", "idle", Idle)
    /\ UNCHANGED <<file, token, vdisk_errno, mapping, counters>>

\* get(url)
download ==
    LET f == frame["call"]
    IN  /\ At("call", "download")
        /\ \/ /\ Goto("call", "done", [f EXCEPT !.data = {file[f.blk]}])
              /\ UNCHANGED faults
           \/ /\ faults < MaxFault /\ faults' = faults + 1
              /\ Goto("call", "done", [f EXCEPT !.ret = "curl"])
        /\ UNCHANGED <<file, token, vdisk_errno, mapping, alarm, expiries>>

\* Mutated: the seek does not flush.
record_unflushed ==
    /\ At("call", "record")
    /\ mapping' = [mapping EXCEPT !.view = @ \cup {frame["call"].blk}]
    /\ Goto("call", "done", frame["call"])
    /\ UNCHANGED <<file, token, vdisk_errno, alarm, counters>>

record ==
    /\ At("call", "record")
    /\ \/ ~mapping.open /\ Die
       \/ /\ mapping.open
          /\ mapping' = [Flushed EXCEPT !.view = @ \cup {frame["call"].blk}]
          /\ Goto("call", "done", frame["call"])
          /\ UNCHANGED <<file, token, vdisk_errno, alarm, counters>>

done ==
    /\ At("call", "done")
    /\ Goto("call", "idle", Idle)
    /\ UNCHANGED <<file, token, vdisk_errno, mapping, alarm, counters>>

(***************************************************************************)
(* The environment                                                         *)
(***************************************************************************)
Old(tok) == IF tok \in {"good", "quoted"} THEN "expired" ELSE tok

Expire ==
    /\ expiries < MaxExpiry /\ expiries' = expiries + 1
    /\ token' = Old(token)
    /\ frame' = [c \in Context |-> [frame[c] EXCEPT !.token = Old(@)]]
    /\ UNCHANGED <<file, vdisk_errno, mapping, alarm, faults>>

Exit == /\ \A c \in Context : frame[c] = Idle
        /\ Gone(mapping.view)

Init ==
    /\ file = [b \in {} |-> b]
    /\ token = "none"
    /\ vdisk_errno = "ok"
    /\ mapping = [open |-> FALSE, view |-> {}, disk |-> {}]
    /\ alarm = "off"
    /\ frame = [c \in Context |-> Idle]
    /\ faults = 0
    /\ expiries = 0

Transfer(c) == post(c) \/ parse(c) \/ authenticate(c) \/ get_token(c) \/ unquote(c) \/ timer(c)

CallStep  == Transfer("call") \/ try \/ parsed \/ download \/ record \/ done
AlarmStep == Transfer("alarm") \/ kept

Next == \/ CallStep \/ AlarmStep
        \/ \E b \in Block : get_block(b) \/ \E data \in Data : put_block(b, data)
        \/ keep_alive
        \/ Expire \/ Exit \/ Die

Spec == Init /\ [][Next]_vars

\* The process runs, every transfer ends, and there are ten minutes between
\* two signals, in which a call gets on.
FairSpec == Spec /\ SF_vars(CallStep) /\ WF_vars(AlarmStep)
=============================================================================
