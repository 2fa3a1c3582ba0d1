------------------------------ MODULE DirTree ------------------------------
(***************************************************************************)
(* What the calls of a file system promise: one tree of directories and    *)
(* files, on which every call takes effect at one moment between the       *)
(* request of the kernel and the answer.  The process may stop at any      *)
(* moment: the calls under way get no answer and the tree stays.           *)
(***************************************************************************)
EXTENDS Naturals, Sequences

CONSTANTS
  Thread,   \* who serves calls
  Name,     \* names of files and directories
  Calls     \* the calls that may be sent: records [op, path]

VARIABLES
  tree,     \* path -> "dir" or "file"; the root is <<>>
  call,     \* call[t]: the call thread t serves
  answer    \* answer[t]: what the call was answered, if it was

vars == <<tree, call, answer>>

NoCall   == [op |-> "none", path |-> <<>>]
NoAnswer == [ret |-> "none", kind |-> "none", names |-> {}]
Plain(ret) == [NoAnswer EXCEPT !.ret = ret]

Parent(path)   == SubSeq(path, 1, Len(path) - 1)
Exists(path)   == path \in DOMAIN tree
Children(path) == {n \in Name : Exists(Append(path, n))}
With(path, kind) ==
    [p \in DOMAIN tree \cup {path} |-> IF p = path THEN kind ELSE tree[p]]

Init ==
    /\ tree = [p \in {<<>>} |-> "dir"]
    /\ call = [t \in Thread |-> NoCall]
    /\ answer = [t \in Thread |-> NoAnswer]

Request(t, c) ==
    /\ call[t] = NoCall
    /\ call' = [call EXCEPT ![t] = c]
    /\ UNCHANGED <<tree, answer>>

\* The call takes effect: its answer is fixed.
Effect(t, ops, ans) ==
    /\ call[t].op \in ops
    /\ answer[t] = NoAnswer
    /\ answer' = [answer EXCEPT ![t] = ans]
    /\ UNCHANGED call

Make(t, kind) ==
    /\ Effect(t, {IF kind = "dir" THEN "mkdir" ELSE "create"}, Plain("ok"))
    /\ ~Exists(call[t].path) /\ Exists(Parent(call[t].path))
    /\ tree' = With(call[t].path, kind)

\* A name is not made twice, nor in a directory that is not there.  Whether a
\* create that is refused is told so is left open.
Refused(t, ret) ==
    \/ Effect(t, {"mkdir", "create"}, Plain(ret))
    \/ Effect(t, {"create"}, Plain("ok"))

RefuseTwice(t)  == Exists(call[t].path) /\ Refused(t, "EEXIST") /\ UNCHANGED tree
RefuseOrphan(t) == ~Exists(Parent(call[t].path)) /\ Refused(t, "ENOENT") /\ UNCHANGED tree

Looks == {"getattr", "readdir", "open", "utimens", "read"}

NotThere(t) ==
    /\ Effect(t, Looks, Plain("ENOENT"))
    /\ ~Exists(call[t].path)
    /\ UNCHANGED tree

Look(t) ==
    /\ Exists(call[t].path)
    /\ Effect(t, Looks,
              [ret   |-> "ok",
               kind  |-> tree[call[t].path],
               names |-> IF call[t].op = "readdir" THEN Children(call[t].path) ELSE {}])
    /\ UNCHANGED tree

Answer(t) ==
    /\ answer[t] # NoAnswer
    /\ call' = [call EXCEPT ![t] = NoCall]
    /\ answer' = [answer EXCEPT ![t] = NoAnswer]
    /\ UNCHANGED tree

Stop ==
    /\ call' = [t \in Thread |-> NoCall]
    /\ answer' = [t \in Thread |-> NoAnswer]
    /\ UNCHANGED tree

Next == \/ \E t \in Thread : \/ \E kind \in {"dir", "file"} : Make(t, kind)
                             \/ RefuseTwice(t) \/ RefuseOrphan(t)
                             \/ NotThere(t) \/ Look(t) \/ Answer(t)
                             \/ \E c \in Calls : Request(t, c)
        \/ Stop

Spec == Init /\ [][Next]_vars
=============================================================================
