---------------------------- MODULE FileBackend ----------------------------
(***************************************************************************)
(* The file backend of storage/backend.c. A handle keeps the whole map in  *)
(* memory, under its own mutex; every set, and every remove that finds its *)
(* key, changes the memory and then rewrites the file: open and truncate   *)
(* "<path>.tmp.<pid>", write, fsync, rename onto the path. Several handles *)
(* may be open on one path, of one process or of several; any step of the  *)
(* rewriting may fail, and a process may die between any two of them.      *)
(*                                                                         *)
(* Files are inodes, so that the handles of one process, which share the   *)
(* name of the temporary file, do to each other what they do on disk. A    *)
(* process that dies loses its memory and nothing it wrote (no power       *)
(* failure: the kernel's caches survive).                                  *)
(***************************************************************************)
EXTENDS Naturals

CONSTANTS
    Handles,
    Processes, ProcessOf,   \* ProcessOf[h]: the process that opened handle h
    Keys, NoKey, Values, Missing,
    Inodes, NoInode,
    Closed, Empty, Torn,    \* no map in memory; contents of a file
    Unknown,
    ReadsFail               \* premise: fopen of an existing file may fail

ASSUME ProcessOfAssumption == ProcessOf \in [Handles -> Processes]
ASSUME NamesAssumption ==
    /\ Missing \notin Values
    /\ Unknown \notin Values \cup {Missing}
    /\ NoInode \notin Inodes
    /\ NoKey \notin Keys
    /\ {Closed, Empty, Torn} \cap [Keys -> Values \cup {Missing}] = {}
    /\ Empty # Torn

VARIABLES
    mem,        \* mem[h]: the pairs of the handle's file_backend_state_t
    pc,         \* pc[h]: how far the rewriting under h's mutex has come
    fd,         \* fd[h]: the inode the open temporary file refers to
    key,        \* key[h]: the key of the call that holds the mutex
    path,       \* the inode file_path names
    tmp,        \* tmp[p]: the inode "<path>.tmp.<p>" names
    content,    \* content[i]: what the inode holds
    acked       \* history: what the last call on a key that returned SUCCESS
                \* made of it; Unknown once a later call on it began, or when
                \* other handles were open, whose memory is older

vars  == <<mem, pc, fd, key, path, tmp, content, acked>>
files == <<path, tmp, content>>

Maps     == [Keys -> Values \cup {Missing}]
EmptyMap == [k \in Keys |-> Missing]

Init ==
    /\ mem = [h \in Handles |-> Closed]
    /\ pc = [h \in Handles |-> "idle"]
    /\ fd = [h \in Handles |-> NoInode]
    /\ key = [h \in Handles |-> NoKey]
    /\ path = NoInode
    /\ tmp = [p \in Processes |-> NoInode]
    /\ content = [i \in Inodes |-> Empty]
    /\ acked = [k \in Keys |-> Missing]

OpenHandles == {h \in Handles : mem[h] # Closed}

\* What knishio_file_storage_backend_create reads from a path it can open: a file
\* that is missing, or that does not parse, loads as an empty map.
Durable ==
    IF path = NoInode \/ content[path] \in {Empty, Torn} THEN EmptyMap
    ELSE content[path]

\* knishio_file_storage_backend_create. A file that is there but cannot be
\* opened (descriptors, permissions) is taken for none: SUCCESS, and no pairs.
Open(h) ==
    /\ mem[h] = Closed
    /\ \E read \in {Durable} \cup (IF ReadsFail THEN {EmptyMap} ELSE {}) :
        /\ mem' = [mem EXCEPT ![h] = read]
        /\ acked' = IF read = Durable THEN acked ELSE [k \in Keys |-> Unknown]
    /\ UNCHANGED <<pc, fd, key, files>>

\* knishio_storage_backend_free
Free(h) ==
    /\ mem[h] # Closed /\ pc[h] = "idle"
    /\ mem' = [mem EXCEPT ![h] = Closed]
    /\ UNCHANGED <<pc, fd, key, files, acked>>

\* A call on key k returns SUCCESS: that counts while no other handle is open.
Acknowledge(h, k) ==
    acked' = IF OpenHandles = {h} THEN [acked EXCEPT ![k] = mem[h][k]] ELSE acked

\* Mutant of Return: the temporary file is left open.
ReturnLeaking(h, ok) ==
    /\ pc' = [pc EXCEPT ![h] = "idle"]
    /\ key' = [key EXCEPT ![h] = NoKey]
    /\ IF ok THEN Acknowledge(h, key[h]) ELSE UNCHANGED acked
    /\ UNCHANGED fd

\* The end of a call: the mutex is released, SUCCESS or an error is returned.
Return(h, ok) ==
    /\ pc' = [pc EXCEPT ![h] = "idle"]
    /\ fd' = [fd EXCEPT ![h] = NoInode]
    /\ key' = [key EXCEPT ![h] = NoKey]
    /\ IF ok THEN Acknowledge(h, key[h]) ELSE UNCHANGED acked

-----------------------------------------------------------------------------
(* The calls. *)

\* file_set_item up to persist_file_backend_locked.
SetItem(h, k, v) ==
    /\ mem[h] # Closed /\ pc[h] = "idle"
    /\ mem' = [mem EXCEPT ![h] = [mem[h] EXCEPT ![k] = v]]
    /\ key' = [key EXCEPT ![h] = k]
    /\ acked' = [acked EXCEPT ![k] = Unknown]
    /\ pc' = [pc EXCEPT ![h] = "open"]
    /\ UNCHANGED <<fd, files>>

\* file_remove_item of a key the memory holds.
RemoveItem(h, k) ==
    /\ mem[h] # Closed /\ pc[h] = "idle"
    /\ mem[h][k] # Missing
    /\ mem' = [mem EXCEPT ![h] = [mem[h] EXCEPT ![k] = Missing]]
    /\ key' = [key EXCEPT ![h] = k]
    /\ acked' = [acked EXCEPT ![k] = Unknown]
    /\ pc' = [pc EXCEPT ![h] = "open"]
    /\ UNCHANGED <<fd, files>>

\* file_remove_item of a key it does not hold: SUCCESS, and no rewriting.
RemoveAbsent(h, k) ==
    /\ mem[h] # Closed /\ pc[h] = "idle"
    /\ mem[h][k] = Missing
    /\ Acknowledge(h, k)
    /\ UNCHANGED <<mem, pc, fd, key, files>>

-----------------------------------------------------------------------------
(* persist_file_backend_locked *)

FreeInodes ==
    Inodes \ ({path} \cup {tmp[p] : p \in Processes} \cup {fd[h] : h \in Handles})

\* open(tmp_path, O_WRONLY | O_CREAT | O_TRUNC)
OpenTmp(h) ==
    LET p == ProcessOf[h]
    IN  /\ pc[h] = "open"
        /\ \E i \in IF tmp[p] = NoInode THEN FreeInodes ELSE {tmp[p]} :
            /\ fd' = [fd EXCEPT ![h] = i]
            /\ tmp' = [tmp EXCEPT ![p] = i]
            /\ content' = [content EXCEPT ![i] = Empty]
        /\ pc' = [pc EXCEPT ![h] = "write"]
        /\ UNCHANGED <<mem, key, path, acked>>

\* The open, or the JSON, fails: the error comes back, the memory stays changed.
OpenTmpFails(h) ==
    /\ pc[h] = "open"
    /\ Return(h, FALSE)
    /\ UNCHANGED <<mem, files>>

\* Mutant of WriteTmp: the text was made before the pair was added.
WriteTmpEarly(h) ==
    /\ pc[h] = "write"
    /\ content' = [content EXCEPT
            ![fd[h]] = [mem[h] EXCEPT ![key[h]] = Missing]]
    /\ pc' = [pc EXCEPT ![h] = "rename"]
    /\ UNCHANGED <<mem, fd, key, path, tmp, acked>>

\* One write() at the start of the inode. If it already holds another handle's
\* text, the end of a longer one is left behind the new text.
WriteTmp(h) ==
    /\ pc[h] = "write"
    /\ \E after \in {mem[h]} \cup
                    (IF content[fd[h]] \in {Empty, mem[h]} THEN {} ELSE {Torn}) :
        content' = [content EXCEPT ![fd[h]] = after]
    /\ pc' = [pc EXCEPT ![h] = "rename"]
    /\ UNCHANGED <<mem, fd, key, path, tmp, acked>>

\* Mutant of WriteTmpFails: a short write is taken for a whole one.
WriteTmpShort(h) ==
    /\ pc[h] = "write"
    /\ content' = [content EXCEPT ![fd[h]] = Torn]
    /\ pc' = [pc EXCEPT ![h] = "rename"]
    /\ UNCHANGED <<mem, fd, key, path, tmp, acked>>

\* The write fails or is short: the temporary name is removed, whatever inode
\* it names by now.
WriteTmpFails(h) ==
    /\ pc[h] = "write"
    /\ \E after \in {content[fd[h]], Torn} :
        content' = [content EXCEPT ![fd[h]] = after]
    /\ tmp' = [tmp EXCEPT ![ProcessOf[h]] = NoInode]
    /\ Return(h, FALSE)
    /\ UNCHANGED <<mem, path>>

\* rename(tmp_path, file_path)
RenameTmp(h) ==
    LET p == ProcessOf[h]
    IN  /\ pc[h] = "rename"
        /\ tmp[p] # NoInode
        /\ path' = tmp[p]
        /\ tmp' = [tmp EXCEPT ![p] = NoInode]
        /\ Return(h, TRUE)
        /\ UNCHANGED <<mem, content>>

\* Mutant of RenameTmpFails: the result of rename is not looked at.
RenameTmpUnchecked(h) ==
    /\ pc[h] = "rename"
    /\ tmp' = [tmp EXCEPT ![ProcessOf[h]] = NoInode]
    /\ Return(h, TRUE)
    /\ UNCHANGED <<mem, path, content>>

\* The rename fails, as it must when the temporary name is gone.
RenameTmpFails(h) ==
    /\ pc[h] = "rename"
    /\ tmp' = [tmp EXCEPT ![ProcessOf[h]] = NoInode]
    /\ Return(h, FALSE)
    /\ UNCHANGED <<mem, path, content>>

\* A process dies: its handles are gone, its temporary file stays.
Crash(p) ==
    LET dead == {h \in Handles : ProcessOf[h] = p}
    IN  /\ \E h \in dead : mem[h] # Closed
        /\ mem' = [h \in Handles |-> IF h \in dead THEN Closed ELSE mem[h]]
        /\ pc' = [h \in Handles |-> IF h \in dead THEN "idle" ELSE pc[h]]
        /\ fd' = [h \in Handles |-> IF h \in dead THEN NoInode ELSE fd[h]]
        /\ key' = [h \in Handles |-> IF h \in dead THEN NoKey ELSE key[h]]
        /\ UNCHANGED <<files, acked>>

Calls(h) ==
    \/ \E k \in Keys, v \in Values : SetItem(h, k, v)
    \/ \E k \in Keys : RemoveItem(h, k)
    \/ \E k \in Keys : RemoveAbsent(h, k)

Persist(h) ==
    \/ OpenTmp(h) \/ OpenTmpFails(h)
    \/ WriteTmp(h) \/ WriteTmpFails(h)
    \/ RenameTmp(h) \/ RenameTmpFails(h)

Next ==
    \/ \E h \in Handles : Open(h) \/ Free(h) \/ Calls(h) \/ Persist(h)
    \/ \E p \in Processes : Crash(p)

Spec == Init /\ [][Next]_vars

-----------------------------------------------------------------------------
(* Properties. *)

Steps == {"idle", "open", "write", "rename"}

\* Types; a handle is in the middle of a rewriting only while it is open, and
\* has the temporary file open exactly between open and rename.
TypeOK ==
    /\ mem \in [Handles -> Maps \cup {Closed}]
    /\ pc \in [Handles -> Steps]
    /\ fd \in [Handles -> Inodes \cup {NoInode}]
    /\ key \in [Handles -> Keys \cup {NoKey}]
    /\ path \in Inodes \cup {NoInode}
    /\ tmp \in [Processes -> Inodes \cup {NoInode}]
    /\ content \in [Inodes -> Maps \cup {Empty, Torn}]
    /\ acked \in [Keys -> Values \cup {Missing, Unknown}]
    /\ \A h \in Handles : /\ pc[h] # "idle" => mem[h] # Closed
                          /\ key[h] = NoKey <=> pc[h] = "idle"
                          /\ fd[h] # NoInode <=> pc[h] \in {"write", "rename"}

\* The premise under which handles may share a file: each has its own process,
\* hence its own temporary file.
OneHandlePerProcess ==
    \A g, h \in Handles : ProcessOf[g] = ProcessOf[h] => g = h

\* "Persists key-value pairs atomically": the file never holds part of a map, at
\* any step of any rewriting, after any failure or crash. True of handles of
\* different processes; not of two handles of one process, which write and
\* rename one temporary file (persist_file_backend_locked).
FileIsWhole == path # NoInode => content[path] \in Maps

\* A set_item that returned SUCCESS to the only open handle survives crashes and
\* reopening, later failing calls, and what handles opened since then write
\* ("Persists key-value pairs"), up to a handle that could not read the file: its
\* next set_item replaces the file by its single pair.
SetIsDurable ==
    \A k \in Keys : acked[k] \in Values => Durable[k] = acked[k]

\* A remove_item that returned SUCCESS has removed the item (storage/types.h:
\* "Remove item by key ... KNISHIO_SUCCESS or error code"). Not after a failed
\* one: the memory has lost the key, so the retry finds nothing to persist.
RemoveIsDurable ==
    \A k \in Keys : acked[k] = Missing => Durable[k] = Missing

\* The file is a DurableMap, its map the whole text the path names.
Map == INSTANCE DurableMap WITH durable <- Durable, view <- mem

ImplementsDurableMap == Map!Spec

=============================================================================
