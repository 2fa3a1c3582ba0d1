----------------------------- MODULE BlockStore -----------------------------
(***************************************************************************)
(* What the driver promises to its one caller: a store of blocks that      *)
(* survives the process.  SdiskFs is written against it.                   *)
(*                                                                         *)
(* A put that is answered "ok" is there for the gets after it.  One that   *)
(* fails has left the store alone or has replaced a block that was there.  *)
(* A block that is new may be lost with the process until the next get or  *)
(* the next good put; nothing else is ever lost.                           *)
(***************************************************************************)
EXTENDS Naturals

CONSTANTS Block, Data

VARIABLES
  store,     \* block number -> content
  unsaved,   \* blocks a crash would lose
  call,      \* the call of the caller: op, blk, data
  answer     \* what it was answered, if it was

vars == <<store, unsaved, call, answer>>

NoCall   == [op |-> "none"]
Gets     == [op : {"get"}, blk : Block]
Puts     == [op : {"put"}, blk : Block, data : Data]
NoAnswer == [ret |-> "none"]
Failed   == [ret |-> "failed"]

With(b, data) ==
    [x \in DOMAIN store \cup {b} |-> IF x = b THEN data ELSE store[x]]

Init == /\ store = [b \in {} |-> b]
        /\ unsaved = {}
        /\ call = NoCall
        /\ answer = NoAnswer

Request(c) == /\ call = NoCall
              /\ call' = c
              /\ unsaved' = IF c.op = "get" THEN {} ELSE unsaved
              /\ UNCHANGED <<store, answer>>

Pending(op) == call # NoCall /\ call.op = op /\ answer = NoAnswer

GetOk == /\ Pending("get")
         /\ call.blk \in DOMAIN store
         /\ answer' = [ret |-> "ok", data |-> store[call.blk]]
         /\ UNCHANGED <<store, unsaved, call>>

PutNew == /\ Pending("put")
          /\ call.blk \notin DOMAIN store
          /\ store' = With(call.blk, call.data)
          /\ unsaved' = {call.blk}
          /\ answer' = [ret |-> "ok"]
          /\ UNCHANGED call

\* The content of a block that is there changes before the answer.
PutOver == /\ Pending("put")
           /\ call.blk \in DOMAIN store
           /\ store' = With(call.blk, call.data)
           /\ UNCHANGED <<unsaved, call, answer>>

PutDone == /\ Pending("put")
           /\ call.blk \in DOMAIN store
           /\ store[call.blk] = call.data
           /\ unsaved' = {}
           /\ answer' = [ret |-> "ok"]
           /\ UNCHANGED <<store, call>>

Fail == /\ call # NoCall
        /\ answer = NoAnswer
        /\ answer' = Failed
        /\ UNCHANGED <<store, unsaved, call>>

Return == /\ answer # NoAnswer
          /\ call' = NoCall
          /\ answer' = NoAnswer
          /\ UNCHANGED <<store, unsaved>>

\* The process ends, and another begins.
Stop == /\ \E lost \in {{}, unsaved} :
             store' = [b \in DOMAIN store \ lost |-> store[b]]
        /\ unsaved' = {}
        /\ call' = NoCall
        /\ answer' = NoAnswer

Next == \/ \E c \in Gets \cup Puts : Request(c)
        \/ GetOk \/ PutNew \/ PutOver \/ PutDone \/ Fail \/ Return \/ Stop

Spec == Init /\ [][Next]_vars
=============================================================================
