------------------------- MODULE FileBackend_proof -------------------------
(***************************************************************************)
(* The file of the file backend is a DurableMap, for any number of         *)
(* processes, keys and values, as long as no process opens it twice.       *)
(***************************************************************************)
EXTENDS FileBackend, TLAPS

\* Between open and rename a handle's temporary name belongs to the inode it
\* writes, that inode is nobody else's, and it holds nothing, then the map.
OwnTmp ==
    /\ \A h \in Handles : pc[h] \in {"write", "rename"} =>
            fd[h] \in Inodes /\ fd[h] = tmp[ProcessOf[h]]
    /\ \A h \in Handles : pc[h] = "write" => content[fd[h]] = Empty
    /\ \A h \in Handles : pc[h] = "rename" => content[fd[h]] = mem[h]
    /\ \A p \in Processes : tmp[p] # NoInode => tmp[p] # path
    /\ \A p, q \in Processes : tmp[p] # NoInode /\ tmp[p] = tmp[q] => p = q

Types ==
    /\ mem \in [Handles -> Maps \cup {Closed}]
    /\ pc \in [Handles -> Steps]
    /\ fd \in [Handles -> Inodes \cup {NoInode}]
    /\ path \in Inodes \cup {NoInode}
    /\ tmp \in [Processes -> Inodes \cup {NoInode}]
    /\ content \in [Inodes -> Maps \cup {Empty, Torn}]
    /\ \A h \in Handles : pc[h] # "idle" => mem[h] \in Maps

IInv == Types /\ OwnTmp /\ FileIsWhole

LEMMA InitIInv == Init => IInv
<1> SUFFICES ASSUME Init PROVE IInv
  OBVIOUS
<1>1. Types
  BY DEF Init, Types, Steps
<1>2. OwnTmp
  BY DEF Init, OwnTmp
<1>3. FileIsWhole
  BY DEF Init, FileIsWhole
<1> QED
  BY <1>1, <1>2, <1>3 DEF IInv

LEMMA DurableIsMap == IInv => Durable \in Maps
  BY DEF IInv, FileIsWhole, Durable, Maps, EmptyMap

-----------------------------------------------------------------------------
(* One lemma per action: it preserves the invariant, and what it does to the
   file and the views is a step of DurableMap or none. *)

LEMMA OpenStep ==
    ASSUME IInv, NEW h \in Handles, Open(h)
    PROVE  IInv' /\ Map!Open(h)
<1>0. EmptyMap \in Maps
  BY DEF EmptyMap, Maps
<1>1. PICK read \in {Durable, EmptyMap} :
        mem' = [mem EXCEPT ![h] = read] /\ read \in Maps
  BY <1>0, DurableIsMap DEF Open
<1>2. UNCHANGED <<pc, fd, path, tmp, content>>
  BY DEF Open, files
<1>3. Types'
  BY <1>1, <1>2 DEF IInv, Types
<1>4. pc[h] = "idle"
  BY NamesAssumption DEF IInv, Types, Open, Steps, Maps
<1>5. OwnTmp'
  BY <1>1, <1>2, <1>4 DEF IInv, Types, OwnTmp
<1>6. FileIsWhole'
  BY <1>2 DEF IInv, FileIsWhole
<1>7. Durable' = Durable
  BY <1>2 DEF Durable
<1>8. EmptyMap = Map!EmptyMap
  BY DEF EmptyMap, Map!EmptyMap
<1> QED
  BY <1>1, <1>3, <1>5, <1>6, <1>7, <1>8 DEF IInv, Open, Map!Open

LEMMA FreeStep ==
    ASSUME IInv, NEW h \in Handles, Free(h)
    PROVE  IInv' /\ Map!Leave
<1>1. mem' = [mem EXCEPT ![h] = Closed] /\ pc[h] = "idle"
  BY DEF Free
<1>2. UNCHANGED <<pc, fd, path, tmp, content>>
  BY DEF Free, files
<1>3. IInv'
  BY <1>1, <1>2 DEF IInv, Types, OwnTmp, FileIsWhole
<1>4. Durable' = Durable
  BY <1>2 DEF Durable
<1>5. mem' = [g \in Handles |-> IF g \in {h} THEN Closed ELSE mem[g]]
  BY <1>1 DEF IInv, Types
<1>6. {h} \in SUBSET Handles
  OBVIOUS
<1> QED
  BY <1>3, <1>4, <1>5, <1>6 DEF Map!Leave

\* SetItem and RemoveItem.
LEMMA EditStep ==
    ASSUME IInv, NEW h \in Handles, NEW k \in Keys,
           NEW v \in Values \cup {Missing},
           mem[h] # Closed, pc[h] = "idle",
           mem' = [mem EXCEPT ![h] = [mem[h] EXCEPT ![k] = v]],
           pc' = [pc EXCEPT ![h] = "open"],
           UNCHANGED <<fd, files>>
    PROVE  IInv' /\ Map!Edit(h)
<1>1. mem[h] \in Maps
  BY DEF IInv, Types
<1>2. [mem[h] EXCEPT ![k] = v] \in Maps
  BY <1>1 DEF Maps
<1>3. IInv'
  <2>1. Types'
    BY <1>2 DEF IInv, Types, Steps, files
  <2>2. OwnTmp'
    BY DEF IInv, Types, OwnTmp, files
  <2>3. FileIsWhole'
    BY DEF IInv, FileIsWhole, files
  <2> QED
    BY <2>1, <2>2, <2>3 DEF IInv
<1>4. Durable' = Durable
  BY DEF Durable, files
<1> QED
  BY <1>3, <1>4 DEF Map!Edit

LEMMA RemoveAbsentStep ==
    ASSUME IInv, NEW h \in Handles, NEW k \in Keys, RemoveAbsent(h, k)
    PROVE  IInv' /\ Durable' = Durable /\ mem' = mem
  BY DEF IInv, Types, OwnTmp, FileIsWhole, RemoveAbsent, files, Durable

\* The inode opened is neither the file's nor another process's.
LEMMA OpenTmpStep ==
    ASSUME OneHandlePerProcess, IInv, NEW h \in Handles, OpenTmp(h)
    PROVE  IInv' /\ Durable' = Durable /\ mem' = mem
<1> DEFINE p == ProcessOf[h]
<1>1. p \in Processes
  BY ProcessOfAssumption
<1>2. PICK i \in IF tmp[p] = NoInode THEN FreeInodes ELSE {tmp[p]} :
        /\ fd' = [fd EXCEPT ![h] = i]
        /\ tmp' = [tmp EXCEPT ![p] = i]
        /\ content' = [content EXCEPT ![i] = Empty]
  BY DEF OpenTmp
<1>3. /\ i \in Inodes
      /\ i # path
      /\ \A q \in Processes : tmp[q] = i => q = p
  BY <1>1, <1>2 DEF IInv, Types, OwnTmp, FreeInodes
<1>4. i # NoInode
  BY <1>3, NamesAssumption
<1>5. mem' = mem /\ path' = path /\ pc[h] = "open"
      /\ pc' = [pc EXCEPT ![h] = "write"]
  BY DEF OpenTmp
<1>6. Types'
  BY <1>1, <1>2, <1>3, <1>5 DEF IInv, Types, Steps
<1>7. \A g \in Handles : g # h => ProcessOf[g] # p /\ ProcessOf[g] \in Processes
  BY ProcessOfAssumption DEF OneHandlePerProcess
<1>8. \A g \in Handles : g # h /\ pc[g] \in {"write", "rename"} => fd[g] # i
  BY <1>3, <1>7 DEF IInv, OwnTmp
<1>9. OwnTmp'
  <2>1. ASSUME NEW g \in Handles
        PROVE  /\ pc'[g] \in {"write", "rename"} =>
                    fd'[g] \in Inodes /\ fd'[g] = tmp'[ProcessOf[g]]
               /\ pc'[g] = "write" => content'[fd'[g]] = Empty
               /\ pc'[g] = "rename" => content'[fd'[g]] = mem'[g]
    <3>1. CASE g = h
      BY <1>1, <1>2, <1>3, <1>5, <3>1 DEF IInv, Types
    <3>2. CASE g # h
      BY <1>1, <1>2, <1>3, <1>5, <1>7, <1>8, <3>2 DEF IInv, Types, OwnTmp
    <3> QED
      BY <3>1, <3>2
  <2>2. \A q \in Processes : tmp'[q] # NoInode => tmp'[q] # path'
    BY <1>1, <1>2, <1>3, <1>5 DEF IInv, Types, OwnTmp
  <2>3. \A q, r \in Processes : tmp'[q] # NoInode /\ tmp'[q] = tmp'[r] => q = r
    BY <1>1, <1>2, <1>3 DEF IInv, Types, OwnTmp
  <2> QED
    BY <2>1, <2>2, <2>3 DEF OwnTmp
<1>10. FileIsWhole' /\ Durable' = Durable
  BY <1>2, <1>3, <1>5 DEF IInv, Types, FileIsWhole, Durable
<1> QED
  BY <1>5, <1>6, <1>9, <1>10 DEF IInv

\* A rewriting that fails leaves the file alone.
LEMMA FailingStep ==
    ASSUME OneHandlePerProcess, IInv, NEW h \in Handles,
           OpenTmpFails(h) \/ WriteTmpFails(h) \/ RenameTmpFails(h)
    PROVE  IInv' /\ Durable' = Durable /\ mem' = mem
<1> DEFINE p == ProcessOf[h]
<1>1. p \in Processes
  BY ProcessOfAssumption
<1>2. /\ mem' = mem /\ path' = path
      /\ pc' = [pc EXCEPT ![h] = "idle"]
      /\ fd' = [fd EXCEPT ![h] = NoInode]
      /\ tmp' = tmp \/ tmp' = [tmp EXCEPT ![p] = NoInode]
  BY DEF OpenTmpFails, WriteTmpFails, RenameTmpFails, Return, files
<1>3. \/ content' = content
      \/ /\ pc[h] = "write"
         /\ content' = [content EXCEPT ![fd[h]] = Torn]
  BY DEF OpenTmpFails, WriteTmpFails, RenameTmpFails, files, IInv, Types
<1>4. pc[h] = "write" => fd[h] \in Inodes /\ fd[h] # path /\ fd[h] = tmp[p]
                         /\ fd[h] # NoInode
  BY <1>1, NamesAssumption DEF IInv, OwnTmp
<1>5. \A g \in Handles : g # h => ProcessOf[g] # p /\ ProcessOf[g] \in Processes
  BY ProcessOfAssumption DEF OneHandlePerProcess
<1>6. \A g \in Handles : g # h /\ pc[h] = "write"
            /\ pc[g] \in {"write", "rename"} => fd[g] # fd[h]
  BY <1>1, <1>4, <1>5 DEF IInv, OwnTmp
<1>7. Types'
  BY <1>1, <1>2, <1>3, <1>4 DEF IInv, Types, Steps
<1>8. OwnTmp'
  <2>1. ASSUME NEW g \in Handles
        PROVE  /\ pc'[g] \in {"write", "rename"} =>
                    fd'[g] \in Inodes /\ fd'[g] = tmp'[ProcessOf[g]]
               /\ pc'[g] = "write" => content'[fd'[g]] = Empty
               /\ pc'[g] = "rename" => content'[fd'[g]] = mem'[g]
    <3>1. CASE g = h
      BY <1>2, <3>1 DEF IInv, Types
    <3>2. CASE g # h
      <4>1. pc'[g] = pc[g] /\ fd'[g] = fd[g]
            /\ tmp'[ProcessOf[g]] = tmp[ProcessOf[g]] /\ mem'[g] = mem[g]
        BY <1>1, <1>2, <1>5, <3>2 DEF IInv, Types
      <4>2. pc[g] \in {"write", "rename"} =>
                fd[g] \in Inodes /\ content'[fd[g]] = content[fd[g]]
        BY <1>3, <1>4, <1>6, <3>2 DEF IInv, Types, OwnTmp
      <4> QED
        BY <4>1, <4>2 DEF IInv, OwnTmp
    <3> QED
      BY <3>1, <3>2
  <2>2. \A q \in Processes : tmp'[q] = tmp[q] \/ tmp'[q] = NoInode
    BY <1>1, <1>2 DEF IInv, Types
  <2>3. \A q \in Processes : tmp'[q] # NoInode => tmp'[q] # path'
    BY <1>2, <2>2 DEF IInv, OwnTmp
  <2>4. \A q, r \in Processes : tmp'[q] # NoInode /\ tmp'[q] = tmp'[r] => q = r
    BY <2>2 DEF IInv, OwnTmp
  <2> QED
    BY <2>1, <2>3, <2>4 DEF OwnTmp
<1>9. path # NoInode => content'[path] = content[path]
  BY <1>3, <1>4 DEF IInv, Types
<1>10. FileIsWhole' /\ Durable' = Durable
  BY <1>2, <1>9 DEF IInv, FileIsWhole, Durable
<1> QED
  BY <1>2, <1>7, <1>8, <1>10 DEF IInv

LEMMA WriteTmpStep ==
    ASSUME OneHandlePerProcess, IInv, NEW h \in Handles, WriteTmp(h)
    PROVE  IInv' /\ Durable' = Durable /\ mem' = mem
<1> DEFINE p == ProcessOf[h]
<1>1. p \in Processes
  BY ProcessOfAssumption
<1>2. /\ fd[h] \in Inodes /\ fd[h] = tmp[p] /\ fd[h] # path
      /\ content[fd[h]] = Empty
  BY <1>1, NamesAssumption DEF WriteTmp, IInv, OwnTmp
<1>3. content' = [content EXCEPT ![fd[h]] = mem[h]]
  BY <1>2 DEF WriteTmp
<1>4. /\ mem' = mem /\ fd' = fd /\ path' = path /\ tmp' = tmp
      /\ pc[h] = "write" /\ pc' = [pc EXCEPT ![h] = "rename"]
  BY DEF WriteTmp
<1>5. mem[h] \in Maps
  BY <1>4 DEF IInv, Types
<1>6. \A g \in Handles : g # h /\ pc[g] \in {"write", "rename"} => fd[g] # fd[h]
  BY <1>1, <1>2, ProcessOfAssumption, NamesAssumption
  DEF IInv, OwnTmp, OneHandlePerProcess
<1>7. Types'
  BY <1>2, <1>3, <1>4, <1>5 DEF IInv, Types, Steps
<1>8. OwnTmp'
  <2>1. ASSUME NEW g \in Handles
        PROVE  /\ pc'[g] \in {"write", "rename"} =>
                    fd'[g] \in Inodes /\ fd'[g] = tmp'[ProcessOf[g]]
               /\ pc'[g] = "write" => content'[fd'[g]] = Empty
               /\ pc'[g] = "rename" => content'[fd'[g]] = mem'[g]
    <3>1. CASE g = h
      BY <1>2, <1>3, <1>4, <3>1 DEF IInv, Types
    <3>2. CASE g # h
      BY <1>2, <1>3, <1>4, <1>6, <3>2 DEF IInv, Types, OwnTmp
    <3> QED
      BY <3>1, <3>2
  <2> QED
    BY <1>4, <2>1 DEF IInv, OwnTmp
<1>9. FileIsWhole' /\ Durable' = Durable
  BY <1>2, <1>3, <1>4 DEF IInv, Types, FileIsWhole, Durable
<1> QED
  BY <1>4, <1>7, <1>8, <1>9 DEF IInv

LEMMA RenameTmpStep ==
    ASSUME OneHandlePerProcess, IInv, NEW h \in Handles, RenameTmp(h)
    PROVE  IInv' /\ Map!Commit(h)
<1> DEFINE p == ProcessOf[h]
<1>1. p \in Processes
  BY ProcessOfAssumption
<1>2. /\ pc[h] = "rename" /\ mem' = mem /\ content' = content
      /\ path' = tmp[p] /\ tmp[p] # NoInode
      /\ tmp' = [tmp EXCEPT ![p] = NoInode]
      /\ pc' = [pc EXCEPT ![h] = "idle"]
      /\ fd' = [fd EXCEPT ![h] = NoInode]
  BY DEF RenameTmp, Return
<1>3. content[tmp[p]] = mem[h] /\ mem[h] \in Maps
  BY <1>2 DEF IInv, Types, OwnTmp
<1>4. Types'
  BY <1>1, <1>2 DEF IInv, Types, Steps
<1>5. OwnTmp'
  <2>1. \A g \in Handles : g # h => ProcessOf[g] # p /\ ProcessOf[g] \in Processes
    BY ProcessOfAssumption DEF OneHandlePerProcess
  <2>2. ASSUME NEW g \in Handles
        PROVE  /\ pc'[g] \in {"write", "rename"} =>
                    fd'[g] \in Inodes /\ fd'[g] = tmp'[ProcessOf[g]]
               /\ pc'[g] = "write" => content'[fd'[g]] = Empty
               /\ pc'[g] = "rename" => content'[fd'[g]] = mem'[g]
    <3>1. CASE g = h
      BY <1>2, <3>1 DEF IInv, Types
    <3>2. CASE g # h
      BY <1>1, <1>2, <2>1, <3>2 DEF IInv, Types, OwnTmp
    <3> QED
      BY <3>1, <3>2
  <2>3. \A q \in Processes : tmp'[q] # NoInode => tmp'[q] # path'
    BY <1>1, <1>2 DEF IInv, Types, OwnTmp
  <2>4. \A q, r \in Processes : tmp'[q] # NoInode /\ tmp'[q] = tmp'[r] => q = r
    BY <1>1, <1>2 DEF IInv, Types, OwnTmp
  <2> QED
    BY <2>2, <2>3, <2>4 DEF OwnTmp
<1>6. FileIsWhole'
  BY <1>2, <1>3 DEF FileIsWhole
<1>7. mem[h] \notin {Closed, Empty, Torn}
  BY <1>3, NamesAssumption DEF Maps
<1>8. Durable' = mem[h]
  BY <1>2, <1>3, <1>7 DEF Durable
<1> QED
  BY <1>2, <1>4, <1>5, <1>6, <1>7, <1>8 DEF IInv, Map!Commit

LEMMA CrashStep ==
    ASSUME IInv, NEW p \in Processes, Crash(p)
    PROVE  IInv' /\ Map!Leave
<1> DEFINE dead == {h \in Handles : ProcessOf[h] = p}
<1>1. /\ mem' = [h \in Handles |-> IF h \in dead THEN Closed ELSE mem[h]]
      /\ pc' = [h \in Handles |-> IF h \in dead THEN "idle" ELSE pc[h]]
      /\ fd' = [h \in Handles |-> IF h \in dead THEN NoInode ELSE fd[h]]
      /\ path' = path /\ tmp' = tmp /\ content' = content
  BY DEF Crash, files
<1>2. Types'
  BY <1>1 DEF IInv, Types, Steps
<1>3. OwnTmp'
  BY <1>1 DEF IInv, OwnTmp
<1>4. FileIsWhole' /\ Durable' = Durable
  BY <1>1 DEF IInv, FileIsWhole, Durable
<1>5. dead \in SUBSET Handles
  OBVIOUS
<1> QED
  BY <1>1, <1>2, <1>3, <1>4, <1>5 DEF IInv, Map!Leave

LEMMA EveryStep ==
    ASSUME OneHandlePerProcess, IInv, [Next]_vars
    PROVE  IInv' /\ [Map!Next]_Map!vars
<1>1. CASE UNCHANGED vars
  BY <1>1 DEF vars, IInv, Types, OwnTmp, FileIsWhole, Durable, Map!vars
<1>2. ASSUME NEW h \in Handles, Open(h) \/ Free(h)
      PROVE  IInv' /\ [Map!Next]_Map!vars
  BY <1>2, OpenStep, FreeStep DEF Map!Next
<1>3. ASSUME NEW h \in Handles, Calls(h)
      PROVE  IInv' /\ [Map!Next]_Map!vars
  <2>1. ASSUME NEW k \in Keys, NEW v \in Values, SetItem(h, k, v)
        PROVE  IInv' /\ Map!Edit(h)
    BY <2>1, EditStep DEF SetItem
  <2>2. ASSUME NEW k \in Keys, RemoveItem(h, k)
        PROVE  IInv' /\ Map!Edit(h)
    BY <2>2, EditStep DEF RemoveItem
  <2>3. ASSUME NEW k \in Keys, RemoveAbsent(h, k)
        PROVE  IInv' /\ UNCHANGED Map!vars
    BY <2>3, RemoveAbsentStep DEF Map!vars
  <2> QED
    BY <1>3, <2>1, <2>2, <2>3 DEF Calls, Map!Next
<1>4. ASSUME NEW h \in Handles, Persist(h)
      PROVE  IInv' /\ [Map!Next]_Map!vars
  BY <1>4, OpenTmpStep, FailingStep, WriteTmpStep, RenameTmpStep
  DEF Persist, Map!Next, Map!vars
<1>5. ASSUME NEW p \in Processes, Crash(p)
      PROVE  IInv' /\ [Map!Next]_Map!vars
  BY <1>5, CrashStep DEF Map!Next
<1> QED
  BY <1>1, <1>2, <1>3, <1>4, <1>5 DEF Next

-----------------------------------------------------------------------------
(* Types, and what was acknowledged. *)

LEMMA TypeStep == TypeOK /\ [Next]_vars => TypeOK'
<1> SUFFICES ASSUME TypeOK, [Next]_vars PROVE TypeOK'
  OBVIOUS
<1>0. Durable \in Maps /\ EmptyMap \in Maps
  BY DEF TypeOK, Durable, EmptyMap, Maps
<1>1. CASE UNCHANGED vars
  BY <1>1 DEF vars, TypeOK
<1>2. ASSUME NEW h \in Handles, Open(h) PROVE TypeOK'
  <2>1. PICK read \in {Durable, EmptyMap} :
            /\ mem' = [mem EXCEPT ![h] = read]
            /\ acked' = acked \/ acked' = [k \in Keys |-> Unknown]
    BY <1>2 DEF Open
  <2>2. read \in Maps
    BY <1>0
  <2> QED
    BY <1>2, <2>1, <2>2, NamesAssumption DEF Open, files, TypeOK, Maps
<1>3. ASSUME NEW h \in Handles, Free(h) PROVE TypeOK'
  BY <1>3 DEF Free, files, TypeOK
<1>4. ASSUME NEW h \in Handles, Calls(h) PROVE TypeOK'
  <2>1. ASSUME NEW k \in Keys, NEW v \in Values \cup {Missing},
               SetItem(h, k, v) \/ (v = Missing /\ RemoveItem(h, k))
        PROVE  TypeOK'
    <3>1. mem[h] \in Maps
      BY <2>1 DEF SetItem, RemoveItem, TypeOK
    <3>2. [mem[h] EXCEPT ![k] = v] \in Maps
      BY <3>1 DEF Maps
    <3>3. [mem[h] EXCEPT ![k] = v] # Closed
      BY <3>2, NamesAssumption DEF Maps
    <3> QED
      BY <2>1, <3>2, <3>3, NamesAssumption
      DEF SetItem, RemoveItem, TypeOK, files, Steps
  <2>2. ASSUME NEW k \in Keys, RemoveAbsent(h, k) PROVE TypeOK'
    BY <2>2 DEF RemoveAbsent, Acknowledge, files, TypeOK, Maps
  <2> QED
    BY <1>4, <2>1, <2>2 DEF Calls
<1>5. ASSUME NEW h \in Handles, Persist(h) PROVE TypeOK'
  <2>0. ProcessOf[h] \in Processes
    BY ProcessOfAssumption
  <2>1. CASE OpenTmp(h)
    <3>1. PICK i \in IF tmp[ProcessOf[h]] = NoInode THEN FreeInodes ELSE {tmp[ProcessOf[h]]} :
            /\ fd' = [fd EXCEPT ![h] = i]
            /\ tmp' = [tmp EXCEPT ![ProcessOf[h]] = i]
            /\ content' = [content EXCEPT ![i] = Empty]
      BY <2>1 DEF OpenTmp
    <3>2. i \in Inodes /\ i # NoInode
      BY <2>0, <3>1, NamesAssumption DEF TypeOK, FreeInodes
    <3> QED
      BY <2>0, <2>1, <3>1, <3>2, NamesAssumption DEF OpenTmp, TypeOK, Steps
  <2>2. CASE OpenTmpFails(h) \/ WriteTmpFails(h) \/ RenameTmpFails(h)
    <3>1. /\ mem' = mem /\ path' = path /\ acked' = acked
          /\ pc' = [pc EXCEPT ![h] = "idle"]
          /\ fd' = [fd EXCEPT ![h] = NoInode]
          /\ key' = [key EXCEPT ![h] = NoKey]
          /\ tmp' = tmp \/ tmp' = [tmp EXCEPT ![ProcessOf[h]] = NoInode]
      BY <2>2 DEF OpenTmpFails, WriteTmpFails, RenameTmpFails, Return, files
    <3>2. content' \in [Inodes -> Maps \cup {Empty, Torn}]
      <4>1. CASE WriteTmpFails(h)
        <5>1. fd[h] \in Inodes
          BY <4>1 DEF WriteTmpFails, TypeOK
        <5> QED
          BY <4>1, <5>1 DEF WriteTmpFails, TypeOK
      <4>2. CASE OpenTmpFails(h) \/ RenameTmpFails(h)
        BY <4>2 DEF OpenTmpFails, RenameTmpFails, files, TypeOK
      <4> QED
        BY <2>2, <4>1, <4>2
    <3> QED
      BY <3>1, <3>2 DEF TypeOK, Steps
  <2>3. CASE WriteTmp(h)
    <3>1. mem[h] \in Maps
      BY <2>3 DEF WriteTmp, TypeOK
    <3> QED
      BY <2>3, <3>1 DEF WriteTmp, TypeOK, Steps
  <2>4. CASE RenameTmp(h)
    <3>1. mem[h] \in Maps /\ key[h] \in Keys
      BY <2>4 DEF RenameTmp, TypeOK
    <3>2. mem[h][key[h]] \in Values \cup {Missing}
      BY <3>1 DEF Maps
    <3>3. acked' \in [Keys -> Values \cup {Missing, Unknown}]
      BY <2>4, <3>1, <3>2 DEF RenameTmp, Return, Acknowledge, TypeOK
    <3> QED
      BY <2>0, <2>4, <3>3 DEF RenameTmp, Return, TypeOK, Steps
  <2> QED
    BY <1>5, <2>1, <2>2, <2>3, <2>4 DEF Persist
<1>6. ASSUME NEW p \in Processes, Crash(p) PROVE TypeOK'
  BY <1>6 DEF Crash, files, TypeOK, Steps
<1> QED
  BY <1>1, <1>2, <1>3, <1>4, <1>5, <1>6 DEF Next

\* What was acknowledged is in the file and in every memory it may be rewritten
\* from.
AckedInv ==
    \A k \in Keys : acked[k] \in Values =>
        /\ Durable[k] = acked[k]
        /\ \A h \in Handles : mem[h] # Closed => mem[h][k] = acked[k]

AInv == IInv /\ TypeOK /\ AckedInv

LEMMA AckedStep ==
    ASSUME OneHandlePerProcess, AInv, [Next]_vars
    PROVE  AckedInv'
<1>0. IInv /\ TypeOK /\ AckedInv
  BY DEF AInv
<1>1. CASE UNCHANGED vars
  BY <1>0, <1>1 DEF vars, AckedInv, Durable
<1>2. ASSUME NEW h \in Handles, Open(h) PROVE AckedInv'
  <2>1. PICK read \in {Durable, EmptyMap} :
            /\ mem' = [mem EXCEPT ![h] = read]
            /\ acked' = IF read = Durable THEN acked ELSE [k \in Keys |-> Unknown]
    BY <1>2 DEF Open
  <2>2. Durable' = Durable
    BY <1>2 DEF Open, files, Durable
  <2>3. CASE read = Durable
    BY <1>0, <2>1, <2>2, <2>3 DEF AckedInv, TypeOK
  <2>4. CASE read # Durable
    BY <2>1, <2>4, NamesAssumption DEF AckedInv
  <2> QED
    BY <2>3, <2>4
<1>3. ASSUME NEW h \in Handles, Free(h) PROVE AckedInv'
  BY <1>0, <1>3 DEF Free, files, AckedInv, Durable, TypeOK
<1>4. ASSUME NEW h \in Handles, Calls(h) PROVE AckedInv'
  <2>1. ASSUME NEW k \in Keys, NEW v \in Values \cup {Missing},
               SetItem(h, k, v) \/ (v = Missing /\ RemoveItem(h, k))
        PROVE  AckedInv'
    <3>1. /\ Durable' = Durable
          /\ mem[h] # Closed
          /\ mem' = [mem EXCEPT ![h] = [mem[h] EXCEPT ![k] = v]]
          /\ acked' = [acked EXCEPT ![k] = Unknown]
      BY <2>1 DEF SetItem, RemoveItem, files, Durable
    <3>2. mem[h] \in Maps
      BY <1>0, <3>1 DEF TypeOK
    <3>3. ASSUME NEW j \in Keys, acked'[j] \in Values
          PROVE  j # k /\ acked'[j] = acked[j]
      BY <1>0, <3>1, <3>3, NamesAssumption DEF TypeOK
    <3> QED
      BY <1>0, <3>1, <3>2, <3>3 DEF AckedInv, TypeOK, Maps
  <2>2. ASSUME NEW k \in Keys, RemoveAbsent(h, k) PROVE AckedInv'
    <3>1. Durable' = Durable /\ mem' = mem /\ mem[h][k] = Missing
          /\ (acked' = acked \/ acked' = [acked EXCEPT ![k] = Missing])
      BY <2>2 DEF RemoveAbsent, Acknowledge, files, Durable
    <3> QED
      BY <1>0, <3>1, NamesAssumption DEF AckedInv, TypeOK
  <2> QED
    BY <1>4, <2>1, <2>2 DEF Calls
<1>5. ASSUME NEW h \in Handles, Persist(h) PROVE AckedInv'
  <2>1. CASE OpenTmp(h)
    BY <1>0, <2>1, OpenTmpStep DEF OpenTmp, AckedInv
  <2>2. CASE OpenTmpFails(h) \/ WriteTmpFails(h) \/ RenameTmpFails(h)
    <3>1. acked' = acked
      BY <2>2 DEF OpenTmpFails, WriteTmpFails, RenameTmpFails, Return
    <3> QED
      BY <1>0, <2>2, <3>1, FailingStep DEF AckedInv
  <2>3. CASE WriteTmp(h)
    BY <1>0, <2>3, WriteTmpStep DEF WriteTmp, AckedInv
  <2>4. CASE RenameTmp(h)
    <3>1. IInv' /\ Durable' = mem[h] /\ mem' = mem
      BY <1>0, <2>4, RenameTmpStep DEF Map!Commit
    <3>2. mem[h] # Closed /\ key[h] \in Keys
      BY <1>0, <2>4 DEF RenameTmp, TypeOK
    <3>3. acked' = IF OpenHandles = {h} THEN [acked EXCEPT ![key[h]] = mem[h][key[h]]]
                   ELSE acked
      BY <2>4 DEF RenameTmp, Return, Acknowledge
    <3>4. ASSUME NEW j \in Keys, acked'[j] \in Values
          PROVE  /\ mem[h][j] = acked'[j]
                 /\ \A g \in Handles : mem[g] # Closed => mem[g][j] = acked'[j]
      <4>1. CASE acked'[j] = acked[j]
        BY <1>0, <3>2, <3>4, <4>1 DEF AckedInv
      <4>2. CASE acked'[j] # acked[j]
        <5>1. OpenHandles = {h} /\ acked'[j] = mem[h][j]
          BY <1>0, <3>2, <3>3, <4>2 DEF TypeOK
        <5>2. \A g \in Handles : mem[g] # Closed => g = h
          BY <5>1 DEF OpenHandles
        <5> QED
          BY <5>1, <5>2
      <4> QED
        BY <4>1, <4>2
    <3> QED
      BY <3>1, <3>4 DEF AckedInv
  <2> QED
    BY <1>5, <2>1, <2>2, <2>3, <2>4 DEF Persist
<1>6. ASSUME NEW p \in Processes, Crash(p) PROVE AckedInv'
  BY <1>0, <1>6 DEF Crash, files, AckedInv, Durable, TypeOK
<1> QED
  BY <1>1, <1>2, <1>3, <1>4, <1>5, <1>6 DEF Next

-----------------------------------------------------------------------------
(* The theorems. *)

\* No step, failure or crash ever leaves part of a map in the file.
THEOREM FileIsAlwaysWhole ==
    ASSUME OneHandlePerProcess
    PROVE  Spec => []FileIsWhole
<1>1. IInv /\ [Next]_vars => IInv'
  BY EveryStep
<1>2. IInv => FileIsWhole
  BY DEF IInv
<1> QED
  BY <1>1, <1>2, InitIInv, PTL DEF Spec

\* Types, without any premise.
THEOREM FileTypeOK == Spec => []TypeOK
<1>1. Init => TypeOK
  BY NamesAssumption DEF Init, TypeOK, Steps
<1> QED
  BY <1>1, TypeStep, PTL DEF Spec

\* What set_item reported stored, to the only handle, stays in the file.
THEOREM SetIsAlwaysDurable ==
    ASSUME OneHandlePerProcess
    PROVE  Spec => []SetIsDurable
<1>1. Init => AInv
  <2>1. Init => AckedInv
    BY NamesAssumption DEF Init, AckedInv
  <2>2. Init => TypeOK
    BY NamesAssumption DEF Init, TypeOK, Steps
  <2> QED
    BY <2>1, <2>2, InitIInv DEF AInv
<1>2. AInv /\ [Next]_vars => AInv'
  BY EveryStep, TypeStep, AckedStep DEF AInv
<1>3. AInv => SetIsDurable
  BY DEF AInv, AckedInv, SetIsDurable
<1> QED
  BY <1>1, <1>2, <1>3, PTL DEF Spec

\* The file is replaced at one instant, by the whole map of one handle.
THEOREM FileImplementsDurableMap ==
    ASSUME OneHandlePerProcess
    PROVE  Spec => ImplementsDurableMap
<1>1. Init => Map!Init
  BY DEF Init, Durable, EmptyMap, Map!Init, Map!EmptyMap
<1>2. IInv /\ [Next]_vars => IInv' /\ [Map!Next]_Map!vars
  BY EveryStep
<1> QED
  BY <1>1, <1>2, InitIInv, PTL DEF Spec, ImplementsDurableMap, Map!Spec

=============================================================================
