----------------------------- MODULE Configure -----------------------------
(***************************************************************************)
(* The configuration files of sdisk.c.  A file is a sequence of lines, as  *)
(* trim and strtok leave them: a comment or nothing (key "#"), or a pair   *)
(* of a key and a value, NULL when no value follows.  A result is the set  *)
(* of the states in which the program goes on: empty when it has ended.    *)
(***************************************************************************)
EXTENDS Integers, Sequences, SequencesExt

NULL == "NULL"

SYS_DISKS     == 0
SYS_BLOCKSIZE == 1
VdiskKey == [ACCOUNT |-> 0, PASSWD |-> 1, APPKEY |-> 2, APPSECRET |-> 3, ACCOUNTTYPE |-> 4]

\* Mutated: an unknown key is taken for the last.
getSysConf_last(key) == IF key = "DISKS" THEN SYS_DISKS ELSE SYS_BLOCKSIZE

\* An unknown key is taken for DISKS.
getSysConf(key) == IF key = "BLOCKSIZE" THEN SYS_BLOCKSIZE ELSE SYS_DISKS

getDiskConf(key) == IF key \in DOMAIN VdiskKey THEN VdiskKey[key] ELSE -1

strUpper(name) == CASE name = "vdisk" -> "VDISK"
                    [] name = "oss"   -> "OSS"
                    [] OTHER          -> name

getAvailDisk(name) == CASE name = "VDISK" -> 0
                        [] name = "OSS"   -> 1
                        [] OTHER          -> -1

Unset == [i \in 0 .. 4 |-> NULL]

(***************************************************************************)
(* configureDisk.  file is the set of the one sequence of lines, or empty: *)
(* without a file the program exits.                                       *)
(***************************************************************************)
DiskLine(conf, line) == [conf EXCEPT ![getSysConf(line.key)] = line.value]

Settings(lines) == SelectSeq(lines, LAMBDA line : line.key # "#")

\* A key without a value: strncpy from NULL.
Readable(lines) == \A i \in DOMAIN lines : lines[i].value # NULL

configureDisk(file) ==
    {FoldLeft(DiskLine, Unset, Settings(lines)) :
        lines \in {l \in file : Readable(Settings(l))}}

(***************************************************************************)
(* configure                                                               *)
(***************************************************************************)
\* The disk a line names is configured, once.  Index -1 is in front of the
\* array: unless the program dies there, some other pointer is changed.
Disk(state, index, files) ==
    IF index = -1 \/ state.cloudConfs[index] # Unset THEN {state}
    ELSE {[state EXCEPT !.cloudConfs[index] = conf] : conf \in configureDisk(files[index])}

\* strtok: the first name of a list, NULL when there is none.
FirstName(value) == CASE value = "vdisk:oss" -> "vdisk"
                      [] value = ":"         -> NULL
                      [] OTHER               -> value

\* Mutated: the name is compared as it is written.
SysLine_exact(state, line, files) ==
    LET index == getSysConf(line.key)
        name  == FirstName(line.value)
        set   == [state EXCEPT !.globalSettings[index] = line.value]
    IN  CASE line.value = NULL \/ (index = SYS_DISKS /\ name = NULL) -> {}
          [] index = SYS_DISKS -> Disk(set, getAvailDisk(name), files)
          [] OTHER -> {set}

\* A key or a list without a value: the program dies of NULL.
SysLine(state, line, files) ==
    LET index == getSysConf(line.key)
        name  == FirstName(line.value)
        set   == [state EXCEPT !.globalSettings[index] = line.value]
    IN  CASE line.value = NULL \/ (index = SYS_DISKS /\ name = NULL) -> {}
          [] index = SYS_DISKS -> Disk(set, getAvailDisk(strUpper(name)), files)
          [] OTHER -> {set}

Started == [globalSettings |-> [i \in 0 .. 1 |-> NULL], cloudConfs |-> [i \in 0 .. 2 |-> Unset]]

configure(lines, files) ==
    FoldLeft(LAMBDA states, line : UNION {SysLine(s, line, files) : s \in states},
             {Started}, Settings(lines))
=============================================================================
