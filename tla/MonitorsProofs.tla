--------------------------- MODULE MonitorsProofs ---------------------------
(***************************************************************************)
(* For every memory, every range of bytes, every offer of monitors and     *)
(* every bound on their IDs: an access reports the memory monitors it is   *)
(* one for, and those only, and what a write reports is what it does to    *)
(* the memory; a run stops when a monitored register changes, and is not   *)
(* stopped without a reason.                                               *)
(***************************************************************************)
EXTENDS MemoryMonitors, RegisterMonitors, SequenceTheorems, WellFoundedInduction, TLAPS

(* The monitors a user can set: they lie in the memory. *)
Monitors ==
  {m \in [ID : 0 .. MaxID, address : Addresses, size : 1 .. MemSize,
          mode : Modes, value : Values] : m.address + m.size <= MemSize}

Ascends(s) == \A j, k \in DOMAIN s : j < k => s[j].ID < s[k].ID

(* IDs ascend, so that one names one monitor; the flag that lets accesses  *)
(* skip the list is down only when it is empty; a report has set the flag  *)
(* that ends the run.                                                      *)
IInv ==
  /\ memory \in [Addresses -> Bytes]
  /\ memoryMonitors \in Seq(Monitors) /\ Ascends(memoryMonitors)
  /\ memoryMonitorsActive = (memoryMonitors # <<>>)
  /\ stopFlag \in BOOLEAN
  /\ phase \in {"prompt", "top", "game", "poll", "instruction"}
  /\ access.reported \subseteq 0 .. MaxID
  /\ hits \in BOOLEAN /\ ran \in BOOLEAN
  /\ phase # "prompt" /\ hits => stopFlag
-----------------------------------------------------------------------------
(* Lists of monitors. *)

(* The fields of a monitor have their types. *)
LEMMA MonitorFields ==
  ASSUME NEW m \in Monitors
  PROVE  /\ m.ID \in 0 .. MaxID /\ m.ID \in Int
         /\ m.address \in Int /\ 0 <= m.address
         /\ m.size \in Int /\ 1 <= m.size /\ m.address + m.size <= MemSize
         /\ m.mode \in Modes /\ m.value \in Values
BY MonitorAssumption DEF Monitors, Addresses, MonitorAssumption

(* The members of the list, by their places. *)
LEMMA Listed ==
  ASSUME NEW s \in Seq(Monitors)
  PROVE  /\ Len(s) \in Nat /\ DOMAIN s = 1 .. Len(s)
         /\ \A k \in 1 .. Len(s) : s[k] \in Monitors /\ s[k].ID \in Int
         /\ ToSet(s) \subseteq Monitors
BY MonitorFields DEF ToSet

(* A list with one element cut out keeps the others in their order. *)
LEMMA Cut ==
  ASSUME NEW T, NEW s \in Seq(T), NEW k \in 1 .. Len(s)
  PROVE  LET r == SubSeq(s, 1, k-1) \o SubSeq(s, k+1, Len(s))
         IN  /\ r \in Seq(T) /\ Len(r) = Len(s) - 1
             /\ \A j \in 1 .. k-1 : r[j] = s[j]
             /\ \A j \in k .. Len(s)-1 : r[j] = s[j+1]
<1> DEFINE a == SubSeq(s, 1, k-1)
           b == SubSeq(s, k+1, Len(s))
<1>0. Len(s) \in Nat /\ \A i \in 1 .. Len(s) : s[i] \in T
  OBVIOUS
<1>1. a \in Seq(T) /\ Len(a) = k-1 /\ \A j \in 1 .. k-1 : a[j] = s[j]
  BY <1>0, SubSeqProperties
<1>2. b \in Seq(T) /\ Len(b) = Len(s) - k /\ \A j \in 1 .. Len(s) - k : b[j] = s[k+j]
  BY <1>0, SubSeqProperties
<1>. HIDE DEF a, b
<1>3. a \o b \in Seq(T) /\ Len(a \o b) = Len(s) - 1
  <2>1. a \o b \in Seq(T) /\ Len(a \o b) = Len(a) + Len(b)
    BY <1>1, <1>2, ConcatProperties
  <2>. QED BY <2>1, <1>0, <1>1, <1>2
<1>4. \A j \in 1 .. k-1 : (a \o b)[j] = s[j]
  BY <1>0, <1>1, <1>2, ConcatProperties
<1>5. ASSUME NEW j \in k .. Len(s)-1 PROVE (a \o b)[j] = s[j+1]
  <2>1. (a \o b)[j] = b[j - (k-1)]
    BY <1>0, <1>1, <1>2, ConcatProperties
  <2>. QED BY <2>1, <1>0, <1>2
<1>. QED BY <1>3, <1>4, <1>5 DEF a, b

(* The elements of a list, by their places. *)
LEMMA InPlace ==
  ASSUME NEW T, \A t \in T : t.ID \in Int, NEW s \in Seq(T)
  PROVE  /\ Len(s) \in Nat /\ DOMAIN s = 1 .. Len(s)
         /\ \A k \in 1 .. Len(s) : s[k] \in T /\ s[k].ID \in Int
OBVIOUS

(* It is in the order of IDs if it was. *)
LEMMA CutAscends ==
  ASSUME NEW T, \A t \in T : t.ID \in Int, NEW s \in Seq(T), Ascends(s), NEW k \in 1 .. Len(s)
  PROVE  LET r == SubSeq(s, 1, k-1) \o SubSeq(s, k+1, Len(s))
         IN  r \in Seq(T) /\ Ascends(r)
<1> DEFINE r == SubSeq(s, 1, k-1) \o SubSeq(s, k+1, Len(s))
<1>1. /\ r \in Seq(T) /\ Len(r) = Len(s) - 1
      /\ \A j \in 1 .. k - 1 : r[j] = s[j]
      /\ \A j \in k .. Len(s) - 1 : r[j] = s[j + 1]
  BY Cut
<1>. DEFINE at(j) == IF j < k THEN j ELSE j + 1
<1>. HIDE DEF r, at
<1>2. DOMAIN r = 1 .. Len(s) - 1 /\ \A j \in 1 .. Len(s) - 1 : r[j] = s[at(j)]
  BY <1>1, InPlace DEF at
<1>3. \A j \in 1 .. Len(s) - 1 : at(j) \in 1 .. Len(s)
  BY InPlace DEF at
<1>4. \A i, j \in 1 .. Len(s) - 1 : i < j => at(i) < at(j)
  BY InPlace DEF at
<1>5. Ascends(r)
  BY InPlace, <1>2, <1>3, <1>4 DEF Ascends
<1>. QED BY <1>1, <1>5 DEF r

(* What ClearMemMonitor leaves of a list that ascends (SimControl.cpp).    *)
LEMMA Removal ==
  ASSUME NEW s \in Seq(Monitors), Ascends(s), NEW id \in Int
  PROVE  LET r == RemoveFirstMatch(s, LAMBDA m : m.ID = id)
         IN  r \in Seq(Monitors) /\ Ascends(r)
<1> DEFINE r == RemoveFirstMatch(s, LAMBDA m : m.ID = id)
           I == {i \in 1 .. Len(s) : s[i].ID = id}
<1>1. CASE I = {}
  <2>1. r = s
    BY <1>1 DEF RemoveFirstMatch
  <2>. QED BY <2>1
<1>2. CASE I # {}
  <2>1. PICK k \in 1 .. Len(s) : s[k].ID = id
    BY <1>2
  <2>2. I = {k}
    BY <2>1, Listed DEF Ascends
  <2>3. Min(I) = k
    BY <2>2 DEF Min
  <2>4. SelectInSeq(s, LAMBDA m : m.ID = id) = k
    BY <2>3, <1>2, Zenon DEF SelectInSeq
  <2>5. r = SubSeq(s, 1, k - 1) \o SubSeq(s, k + 1, Len(s))
    BY <2>4, <2>1 DEF RemoveFirstMatch, RemoveAt
  <2>. QED BY <2>5, <2>1, MonitorFields, CutAscends
<1>. QED BY <1>1, <1>2

(* What is appended to a list that ascends gets the next ID. *)
LEMMA Appending ==
  ASSUME NEW T, \A t \in T : t.ID \in Int, NEW s \in Seq(T), Ascends(s), NEW m \in T,
         m.ID = IF s = <<>> THEN 0 ELSE s[Len(s)].ID + 1
  PROVE  Append(s, m) \in Seq(T) /\ Ascends(Append(s, m))
<1> DEFINE r == Append(s, m)
<1>1. /\ r \in Seq(T) /\ DOMAIN r = 1 .. Len(s) + 1 /\ r[Len(s) + 1] = m
      /\ \A j \in 1 .. Len(s) : r[j] = s[j]
  BY InPlace, AppendProperties
<1>2. ASSUME NEW j \in 1 .. Len(s) PROVE s[j].ID < m.ID
  <2>1. m.ID = s[Len(s)].ID + 1 /\ Len(s) \in DOMAIN s /\ j \in DOMAIN s
    BY InPlace
  <2>2. j < Len(s) => s[j].ID < s[Len(s)].ID
    BY <2>1 DEF Ascends
  <2>3. j < Len(s) \/ j = Len(s)
    BY InPlace
  <2>. QED BY <2>1, <2>2, <2>3, InPlace
<1>. HIDE DEF r
<1>3. Ascends(r)
  BY <1>1, <1>2, InPlace DEF Ascends
<1>. QED BY <1>1, <1>3 DEF r

(* An ID names one monitor of the list. *)
LEMMA OneByID ==
  ASSUME IInv, NEW m \in ToSet(memoryMonitors), NEW n \in ToSet(memoryMonitors), m.ID = n.ID
  PROVE  m = n
<1>1. PICK j \in DOMAIN memoryMonitors, k \in DOMAIN memoryMonitors :
        m = memoryMonitors[j] /\ n = memoryMonitors[k]
  BY DEF ToSet
<1>2. j = k
  BY <1>1, Listed DEF IInv, Ascends
<1>. QED BY <1>1, <1>2
-----------------------------------------------------------------------------
(* Accesses. *)

(* The monitors an access tells of are those it reports; it sets the flag  *)
(* of the run when it reports one.                                         *)
LEMMA Reporting ==
  ASSUME IInv, NEW kind, NEW address, NEW size,
         NEW told, told \subseteq ToSet(memoryMonitors), Access(kind, address, size, told)
  PROVE  /\ access' = [kind |-> kind, address |-> address, size |-> size,
                       reported |-> {m.ID : m \in told}]
         /\ \A m \in ToSet(memoryMonitors) : m.ID \in access'.reported <=> m \in told
         /\ UNCHANGED <<memoryMonitors, memoryMonitorsActive, phase, ran>>
<1>1. ASSUME ~ memoryMonitorsActive PROVE told = {}
  <2>1. memoryMonitors = <<>>
    BY <1>1 DEF IInv
  <2>. QED BY <2>1 DEF ToSet
<1>2. (IF memoryMonitorsActive THEN {m.ID : m \in told} ELSE {}) = {m.ID : m \in told}
  BY <1>1
<1>3. access' = [kind |-> kind, address |-> address, size |-> size,
                 reported |-> {m.ID : m \in told}]
  BY <1>2, Zenon DEF Access
<1>4. ASSUME NEW m \in ToSet(memoryMonitors)
      PROVE  m.ID \in access'.reported <=> m \in told
  <2>1. access'.reported = {n.ID : n \in told}
    BY <1>3
  <2>2. ASSUME NEW n \in told, m.ID = n.ID PROVE m \in told
    BY <2>2, OneByID
  <2>. QED BY <2>1, <2>2
<1>. QED BY <1>3, <1>4 DEF Access, listVars

(* A write and a monitor have a byte in common just when Overlaps says so. *)
LEMMA CommonByte ==
  ASSUME NEW m \in Monitors, NEW address \in Addresses, NEW size \in {1, 2, 4}
  PROVE  Overlaps(m, address, size) <=>
           \E a \in address .. address + size - 1 : a \in m.address .. m.address + m.size - 1
<1>0. address \in Int /\ size \in Int /\ 1 <= size
  BY MonitorAssumption DEF Addresses, MonitorAssumption
<1> DEFINE larger == IF address >= m.address THEN address ELSE m.address
<1>1. ASSUME Overlaps(m, address, size)
      PROVE  /\ larger \in address .. address + size - 1
             /\ larger \in m.address .. m.address + m.size - 1
  BY <1>0, <1>1, MonitorFields DEF Overlaps
<1>2. ASSUME NEW a \in address .. address + size - 1, a \in m.address .. m.address + m.size - 1
      PROVE  Overlaps(m, address, size)
  BY <1>0, <1>2, MonitorFields DEF Overlaps
<1>. QED BY <1>1, <1>2

(* What a write within the memory leaves in it. *)
LEMMA Storing ==
  ASSUME IInv, NEW address \in Addresses, NEW size \in {1, 2, 4}, NEW value \in ValuesOf(size),
         memory' = Stored(address, size, value)
  PROVE  /\ memory' \in [Addresses -> Bytes]
         /\ \A a \in Addresses :
              memory'[a] = IF a \in address .. address + size - 1 THEN value[a - address]
                                                                  ELSE memory[a]
<1>1. address \in Int /\ value \in [0 .. 3 -> Bytes]
  BY MonitorAssumption DEF Addresses, ValuesOf, Values, MonitorAssumption
<1>2. ASSUME NEW a \in Addresses, a \in address .. address + size - 1
      PROVE  value[a - address] \in Bytes
  <2>1. a - address \in 0 .. 3
    BY <1>1, <1>2
  <2>. QED BY <1>1, <2>1
<1>. QED BY <1>2 DEF Stored, IInv

(* The bytes of a monitor are bytes of the memory. *)
LEMMA RegionBytes ==
  ASSUME NEW m \in Monitors, NEW j \in 0 .. m.size - 1
  PROVE  m.address + j \in Addresses
BY MonitorFields, MonitorAssumption DEF Addresses, MonitorAssumption

(* A write within the memory changes a monitored byte just when            *)
(* MemoryWillChange says so (SimControl.cpp).                              *)
LEMMA ChangeForeseen ==
  ASSUME IInv, NEW m \in Monitors, NEW address \in Addresses, NEW size \in {1, 2, 4},
         NEW value \in ValuesOf(size), memory' = Stored(address, size, value)
  PROVE  /\ Region(m)' # Region(m) <=> MemoryWillChange(m, address, size, value)
         /\ MemoryWillChange(m, address, size, value) => Overlaps(m, address, size)
<1>0. address \in Int /\ size \in Int /\ 1 <= size
  BY MonitorAssumption DEF Addresses, MonitorAssumption
<1>00. \A a \in Addresses :
         memory'[a] = IF a \in address .. address + size - 1 THEN value[a - address] ELSE memory[a]
  BY Storing
<1>1. Region(m)' # Region(m)
        <=> \E j \in 0 .. m.size - 1 : memory'[m.address + j] # memory[m.address + j]
  <2>1. Region(m)' = [j \in 0 .. m.size - 1 |-> memory'[m.address + j]]
    BY DEF Region
  <2>2. Region(m) = [j \in 0 .. m.size - 1 |-> memory[m.address + j]]
    BY DEF Region
  <2>. QED BY <2>1, <2>2
<1>2. ASSUME NEW j \in 0 .. m.size - 1, memory'[m.address + j] # memory[m.address + j]
      PROVE  MemoryWillChange(m, address, size, value)
  <2>1. PICK a \in Addresses : a = m.address + j
    BY RegionBytes
  <2>2. a \in address .. address + size - 1 /\ memory[a] # value[a - address]
    BY <1>00, <1>2, <2>1
  <2>3. PICK i \in 0 .. size - 1 : a = address + i /\ i = a - address
    BY <1>0, <2>2
  <2>4. a \in m.address .. m.address + m.size - 1
    BY <2>1, MonitorFields
  <2>. QED BY <2>2, <2>3, <2>4 DEF MemoryWillChange
<1>3. ASSUME NEW i \in 0 .. size - 1, address + i \in m.address .. m.address + m.size - 1,
             memory[address + i] # value[i]
      PROVE  /\ \E j \in 0 .. m.size - 1 : memory'[m.address + j] # memory[m.address + j]
             /\ Overlaps(m, address, size)
  <2>1. PICK j \in 0 .. m.size - 1 : m.address + j = address + i
    <3>1. /\ address + i - m.address \in 0 .. m.size - 1
          /\ m.address + (address + i - m.address) = address + i
      BY <1>0, <1>3, MonitorFields
    <3>. QED BY <3>1
  <2>2. PICK a \in Addresses : a = address + i
    BY <2>1, RegionBytes
  <2>3. a \in address .. address + size - 1 /\ a - address = i
    BY <1>0, <2>2
  <2>4. memory'[a] = value[i]
    BY <1>00, <2>3
  <2>5. Overlaps(m, address, size)
    BY <1>3, <2>2, <2>3, CommonByte
  <2>. QED BY <1>3, <2>1, <2>2, <2>4, <2>5
<1>. QED BY <1>1, <1>2, <1>3 DEF MemoryWillChange

(* A write within the memory that reaches to the end of a monitor makes    *)
(* its value just when MemoryWillBecome says so: the bytes past the write  *)
(* that the code takes for zero are none of the monitor's.                 *)
LEMMA BecomingForeseen ==
  ASSUME IInv, NEW m \in Monitors, NEW address \in Addresses, NEW size \in {1, 2, 4},
         NEW value \in ValuesOf(size), memory' = Stored(address, size, value),
         m.address + m.size <= address + size
  PROVE  Region(m)' = Target(m) <=> MemoryWillBecome(m, address, value)
<1>0. address \in Int /\ size \in 1 .. 4
  BY MonitorAssumption DEF Addresses, MonitorAssumption
<1>00. \A a \in Addresses :
         memory'[a] = IF a \in address .. address + size - 1 THEN value[a - address] ELSE memory[a]
  BY Storing
<1>1. Region(m)' = Target(m) <=> \A j \in 0 .. m.size - 1 : memory'[m.address + j] = m.value[j]
  <2>1. Region(m)' = [j \in 0 .. m.size - 1 |-> memory'[m.address + j]]
    BY DEF Region
  <2>. QED BY <2>1 DEF Target
<1> DEFINE after(a) == IF a \in address .. address + 3 THEN value[a - address] ELSE memory[a]
<1>2. \A a \in Addresses : a < m.address + m.size => memory'[a] = after(a)
  <2>. SUFFICES ASSUME NEW a \in Addresses, a < m.address + m.size
                PROVE  memory'[a] = after(a)
    OBVIOUS
  <2>1. a \in address .. address + size - 1 <=> a \in address .. address + 3
    BY <1>0, MonitorFields, MonitorAssumption DEF Addresses, MonitorAssumption
  <2>. QED BY <1>00, <2>1
<1>3. MemoryWillBecome(m, address, value)
        <=> \A j \in 0 .. m.size - 1 : m.value[j] = after(m.address + j)
  BY <1>0, MonitorFields DEF MemoryWillBecome
<1>. HIDE DEF after
<1>4. ASSUME NEW j \in 0 .. m.size - 1
      PROVE  memory'[m.address + j] = after(m.address + j)
  <2>1. m.address + j \in Addresses /\ m.address + j < m.address + m.size
    BY RegionBytes, MonitorFields
  <2>. QED BY <1>2, <2>1
<1>. QED BY <1>1, <1>3, <1>4
-----------------------------------------------------------------------------
(* The steps. *)

(* What a read or a write is. *)
LEMMA AccessIs ==
  ASSUME Accesses
  PROVE  \E address \in Addresses, size \in {1, 2, 4} :
           /\ phase # "prompt" /\ phase # "top"
           /\ \/ Read(address, size)
              \/ \E value \in ValuesOf(size) : Write(address, size, value)
BY DEF Accesses

(* Every other step reports nothing and, in a run, leaves the memory and   *)
(* the monitors alone.                                                     *)
LEMMA OtherSteps ==
  ASSUME Next, ~ Accesses
  PROVE  /\ access' = NoAccess
         /\ phase # "prompt" => UNCHANGED <<memory, memoryMonitors>>
<1>1. ASSUME NEW c \in Offered, SetMemMonitor(c)
      PROVE  access' = NoAccess /\ phase = "prompt"
  BY <1>1 DEF SetMemMonitor
<1>2. ASSUME NEW id \in 0 .. MaxID, ClearMemMonitor(id)
      PROVE  access' = NoAccess /\ phase = "prompt"
  BY <1>2 DEF ClearMemMonitor
<1>3. CASE ClearMemMonitors
  BY <1>3 DEF ClearMemMonitors
<1>4. ASSUME NEW address \in Addresses, NEW size \in {1, 2, 4}, NEW value \in ValuesOf(size),
             SetMemory(address, size, value)
      PROVE  access' = NoAccess /\ phase = "prompt"
  BY <1>4 DEF SetMemory
<1>5. ASSUME NEW resets \in BOOLEAN, Load(resets)
      PROVE  access' = NoAccess /\ phase = "prompt"
  BY <1>5 DEF Load
<1>6. CASE Execute \/ Iterate \/ ManualBreak \/ Poll \/ Fetch \/ Retire \/ ExecuteReturns
  BY <1>6 DEF Execute, Iterate, ManualBreak, Poll, Fetch, Retire, ExecuteReturns, Goes, listVars
<1>. QED BY <1>1, <1>2, <1>3, <1>4, <1>5, <1>6 DEF Next
-----------------------------------------------------------------------------
(* Nothing is monitored at first. *)
LEMMA IInvInit == Init => IInv
<1>. SUFFICES ASSUME Init PROVE IInv
  OBVIOUS
<1>1. memory \in [Addresses -> Bytes]
  BY MonitorAssumption DEF Init, Bytes, MonitorAssumption
<1>2. memoryMonitors \in Seq(Monitors) /\ Ascends(memoryMonitors)
  BY DEF Init, Ascends
<1>3. memoryMonitorsActive = (memoryMonitors # <<>>)
  BY DEF Init
<1>4. access.reported \subseteq 0 .. MaxID
  BY DEF Init, NoAccess
<1>. QED BY <1>1, <1>2, <1>3, <1>4 DEF Init, IInv

(* The ID that SetMemMonitor gives is within the bound, and the list stays *)
(* in order.                                                               *)
LEMMA Setting ==
  ASSUME IInv, NEW c \in Offered, SetMemMonitor(c)
  PROVE  memoryMonitors' \in Seq(Monitors) /\ Ascends(memoryMonitors') /\ memoryMonitors' # <<>>
<1> DEFINE m == [ID |-> NextID(memoryMonitors), address |-> c.address, size |-> c.size,
                 mode |-> c.mode, value |-> c.value]
<1>1. NextID(memoryMonitors) \in 0 .. MaxID
  <2>1. CASE memoryMonitors = <<>>
    BY <2>1, MonitorAssumption DEF NextID, MonitorAssumption
  <2>2. CASE memoryMonitors # <<>>
    <3>1. memoryMonitors[Len(memoryMonitors)] \in Monitors
      BY <2>2, Listed DEF IInv
    <3>2. memoryMonitors[Len(memoryMonitors)].ID \in 0 .. MaxID /\ MaxID \in Int
      BY <3>1, MonitorFields, MonitorAssumption DEF MonitorAssumption
    <3>3. NextID(memoryMonitors) = memoryMonitors[Len(memoryMonitors)].ID + 1 /\ NextID(memoryMonitors) <= MaxID
      BY <2>2 DEF NextID, Last, SetMemMonitor
    <3>. QED BY <3>2, <3>3
  <2>. QED BY <2>1, <2>2
<1>2. /\ c.address \in Addresses /\ c.size \in 1 .. MemSize /\ c.address + c.size <= MemSize
      /\ c.mode \in Modes /\ c.value \in Values
  BY MonitorAssumption DEF MonitorAssumption, Addresses
<1>3. m \in Monitors
  BY <1>1, <1>2 DEF Monitors
<1>4. m.ID = IF memoryMonitors = <<>> THEN 0 ELSE memoryMonitors[Len(memoryMonitors)].ID + 1
  BY DEF NextID, Last
<1>5. memoryMonitors' = Append(memoryMonitors, m)
  BY DEF SetMemMonitor
<1>. HIDE DEF m
<1>6. memoryMonitors' # <<>>
  BY <1>3, <1>5 DEF IInv
<1>. QED BY <1>3, <1>4, <1>5, <1>6, MonitorFields, Appending DEF IInv

(* What ClearMemMonitor leaves is a list in order. *)
LEMMA Clearing ==
  ASSUME IInv, NEW id \in Int, ClearMemMonitor(id)
  PROVE  memoryMonitors' \in Seq(Monitors) /\ Ascends(memoryMonitors')
<1>1. memoryMonitors' = RemoveFirstMatch(memoryMonitors, LAMBDA m : m.ID = id)
  BY Zenon DEF ClearMemMonitor
<1>. QED BY <1>1, Removal DEF IInv

(* An access sets the flag when it reports a monitor. *)
LEMMA AccessKeepsIInv ==
  ASSUME IInv, phase # "prompt", NEW kind, NEW address, NEW size,
         NEW told, told \subseteq ToSet(memoryMonitors), Access(kind, address, size, told),
         memory' \in [Addresses -> Bytes]
  PROVE  IInv'
<1>1. /\ access'.reported = {m.ID : m \in told}
      /\ UNCHANGED <<memoryMonitors, memoryMonitorsActive, phase, ran>>
  BY Reporting
<1>2. access'.reported \subseteq 0 .. MaxID
  <2>1. \A m \in told : m.ID \in 0 .. MaxID
    BY Listed, MonitorFields DEF IInv
  <2>. QED BY <1>1, <2>1
<1>3. /\ stopFlag' = (stopFlag \/ access'.reported # {} \/ address + size > MemSize)
      /\ hits' = (hits \/ access'.reported # {})
  BY Zenon DEF Access
<1>4. stopFlag' \in BOOLEAN /\ hits' \in BOOLEAN /\ (hits' => stopFlag')
  BY <1>3 DEF IInv
<1>5. memoryMonitorsActive' = (memoryMonitors' # <<>>)
  BY <1>1, Zenon DEF IInv
<1>. QED BY <1>1, <1>2, <1>4, <1>5 DEF IInv

(* Every command and every step of a run preserves the invariant. *)
LEMMA IInvNext == IInv /\ [Next]_vars => IInv'
<1>. SUFFICES ASSUME IInv, [Next]_vars PROVE IInv'
  OBVIOUS
<1>1. ASSUME NEW c \in Offered, SetMemMonitor(c) PROVE IInv'
  <2>1. /\ memoryMonitors' \in Seq(Monitors) /\ Ascends(memoryMonitors')
        /\ memoryMonitors' # <<>>
    BY <1>1, Setting
  <2>2. memoryMonitorsActive' = TRUE /\ access' = NoAccess /\ phase' = "prompt"
        /\ UNCHANGED <<memory, stopFlag, hits, ran>>
    BY <1>1 DEF SetMemMonitor, runVars
  <2>3. memoryMonitorsActive' = (memoryMonitors' # <<>>)
    BY <2>1, <2>2
  <2>. QED BY <2>1, <2>2, <2>3 DEF IInv, NoAccess
<1>2. ASSUME NEW id \in 0 .. MaxID, ClearMemMonitor(id) PROVE IInv'
  <2>1. memoryMonitors' = RemoveFirstMatch(memoryMonitors, LAMBDA m : m.ID = id)
    BY <1>2, Zenon DEF ClearMemMonitor
  <2>2. memoryMonitors' \in Seq(Monitors) /\ Ascends(memoryMonitors')
    BY <1>2, MonitorAssumption, Clearing DEF MonitorAssumption
  <2>3. memoryMonitorsActive' = (memoryMonitors # <<>> /\ memoryMonitors' # <<>>)
    BY <1>2, Zenon DEF ClearMemMonitor, IInv
  <2>4. memoryMonitors = <<>> => memoryMonitors' = <<>>
    <3>1. ASSUME memoryMonitors = <<>>
          PROVE  ~ \E i \in 1 .. Len(memoryMonitors) : memoryMonitors[i].ID = id
      BY <3>1
    <3>. QED BY <2>1, <3>1 DEF RemoveFirstMatch
  <2>5. memoryMonitorsActive' = (memoryMonitors' # <<>>)
    BY <2>3, <2>4
  <2>6. access' = NoAccess /\ phase' = "prompt" /\ UNCHANGED <<memory, stopFlag, hits, ran>>
    BY <1>2 DEF ClearMemMonitor, runVars
  <2>. QED BY <2>2, <2>5, <2>6 DEF IInv, NoAccess
<1>3. CASE ClearMemMonitors
  <2>1. /\ memoryMonitors' = <<>> /\ memoryMonitorsActive' = FALSE
        /\ access' = NoAccess /\ phase' = "prompt" /\ UNCHANGED <<memory, stopFlag, hits, ran>>
    BY <1>3 DEF ClearMemMonitors, runVars
  <2>2. memoryMonitors' \in Seq(Monitors) /\ Ascends(memoryMonitors')
    BY <2>1 DEF Ascends
  <2>3. memoryMonitorsActive' = (memoryMonitors' # <<>>)
    BY <2>1
  <2>. QED BY <2>1, <2>2, <2>3 DEF IInv, NoAccess
<1>4. ASSUME UNCHANGED <<memoryMonitors, memoryMonitorsActive>>,
             memory' \in [Addresses -> Bytes], stopFlag' \in BOOLEAN,
             phase' \in {"prompt", "top", "game", "poll", "instruction"},
             access'.reported \subseteq 0 .. MaxID, hits' \in BOOLEAN, ran' \in BOOLEAN,
             phase' # "prompt" /\ hits' => stopFlag'
      PROVE  IInv'
  <2>1. memoryMonitorsActive' = (memoryMonitors' # <<>>)
    BY <1>4, Zenon DEF IInv
  <2>. QED BY <1>4, <2>1 DEF IInv
<1>5. ASSUME NEW address \in Addresses, NEW size \in {1, 2, 4}, NEW value \in ValuesOf(size),
             SetMemory(address, size, value)
      PROVE  IInv'
  <2>1. memory' \in [Addresses -> Bytes]
    BY <1>5, Storing DEF SetMemory
  <2>. QED BY <1>4, <1>5, <2>1 DEF SetMemory, IInv, NoAccess, listVars, runVars
<1>6. ASSUME NEW resets \in BOOLEAN, Load(resets) PROVE IInv'
  BY <1>4, <1>6 DEF Load, IInv, NoAccess, listVars, runVars
<1>7. ASSUME UNCHANGED <<memory, memoryMonitors, memoryMonitorsActive>>, access' = NoAccess,
             phase' \in {"prompt", "top", "game", "poll", "instruction"},
             stopFlag' \in BOOLEAN, hits' \in BOOLEAN, ran' \in BOOLEAN,
             phase' # "prompt" /\ hits' => stopFlag'
      PROVE  IInv'
  BY <1>4, <1>7 DEF IInv, NoAccess
<1>8. CASE Execute \/ Iterate \/ ManualBreak \/ Poll \/ Fetch \/ Retire \/ ExecuteReturns
  <2>1. /\ UNCHANGED <<memory, memoryMonitors, memoryMonitorsActive>> /\ access' = NoAccess
        /\ phase' \in {"prompt", "top", "game", "poll", "instruction"}
    BY <1>8 DEF Execute, Iterate, ManualBreak, Poll, Fetch, Retire, ExecuteReturns, Goes, listVars
  <2>2. CASE Execute
    <3>1. hits' = FALSE /\ ran' = FALSE /\ stopFlag' = stopFlag
      BY <2>2 DEF Execute
    <3>. QED BY <1>7, <2>1, <3>1 DEF IInv
  <2>3. CASE ExecuteReturns
    <3>1. phase' = "prompt" /\ stopFlag' = FALSE /\ hits' = hits /\ ran' = ran
      BY <2>3 DEF ExecuteReturns, Goes, runVars
    <3>. QED BY <1>7, <2>1, <3>1 DEF IInv
  <2>4. CASE Iterate \/ ManualBreak \/ Poll \/ Fetch \/ Retire
    <3>1. phase # "prompt" /\ stopFlag' = stopFlag /\ hits' = hits /\ ran' \in {ran, TRUE}
      BY <2>4 DEF Iterate, ManualBreak, Poll, Fetch, Retire, Goes, runVars
    <3>. QED BY <1>7, <2>1, <3>1 DEF IInv
  <2>. QED BY <1>8, <2>2, <2>3, <2>4
<1>9. CASE Accesses
  <2>1. PICK address \in Addresses, size \in {1, 2, 4} :
          /\ phase # "prompt"
          /\ \/ Read(address, size)
             \/ \E value \in ValuesOf(size) : Write(address, size, value)
    BY <1>9, AccessIs
  <2>2. CASE Read(address, size)
    <3>1. PICK told : /\ told = {m \in ToSet(memoryMonitors) : ReadReported(m, address, size)}
                      /\ Access("read", address, size, told)
      BY <2>2 DEF Read
    <3>2. memory' \in [Addresses -> Bytes]
      BY <2>2 DEF Read, IInv
    <3>. QED BY <2>1, <3>1, <3>2, AccessKeepsIInv
  <2>3. ASSUME NEW value \in ValuesOf(size), Write(address, size, value) PROVE IInv'
    <3>1. PICK told :
            /\ told = {m \in ToSet(memoryMonitors) : WriteReported(m, address, size, value)}
            /\ Access("write", address, size, told)
      BY <2>3 DEF Write
    <3>2. memory' \in [Addresses -> Bytes]
      BY <2>3, Storing DEF Write, IInv
    <3>. QED BY <2>1, <3>1, <3>2, AccessKeepsIInv
  <2>. QED BY <2>1, <2>2, <2>3
<1>10. CASE UNCHANGED vars
  BY <1>4, <1>10 DEF vars, listVars, runVars, IInv
<1>. QED BY <1>1, <1>2, <1>3, <1>5, <1>6, <1>8, <1>9, <1>10 DEF Next

(* SimControl.cpp, sys.cpp: for every memory and every offer of monitors,  *)
(* what the program does keeps its types; IDs ascend in the list.          *)
THEOREM TypesKept == Spec => [](TypeOK /\ Ascends(memoryMonitors))
<1>1. IInv => TypeOK /\ Ascends(memoryMonitors)
  <2>. SUFFICES ASSUME IInv PROVE TypeOK /\ Ascends(memoryMonitors)
    OBVIOUS
  <2>1. \A m \in ToSet(memoryMonitors) : m.ID \in 0 .. MaxID
    BY Listed, MonitorFields DEF IInv
  <2>2. memoryMonitorsActive = (memoryMonitors # <<>>)
    BY DEF IInv
  <2>. QED BY <2>1, <2>2 DEF IInv, TypeOK
<1>. QED BY <1>1, IInvInit, IInvNext, PTL DEF Spec
-----------------------------------------------------------------------------
(* What a read and a write report. *)
LEMMA ReadReports ==
  ASSUME IInv, NEW address \in Addresses, NEW size \in {1, 2, 4}, Read(address, size)
  PROVE  /\ access'.kind = "read" /\ access'.address = address /\ access'.size = size
         /\ memoryMonitors' = memoryMonitors /\ memory' = memory
         /\ \A m \in ToSet(memoryMonitors) :
              m.ID \in access'.reported <=> ReadReported(m, address, size)
<1>1. PICK told : /\ told = {m \in ToSet(memoryMonitors) : ReadReported(m, address, size)}
                  /\ Access("read", address, size, told)
  BY DEF Read
<1>2. /\ access' = [kind |-> "read", address |-> address, size |-> size,
                    reported |-> {m.ID : m \in told}]
      /\ \A m \in ToSet(memoryMonitors) : m.ID \in access'.reported <=> m \in told
      /\ memoryMonitors' = memoryMonitors
  BY <1>1, Reporting
<1>3. memory' = memory
  BY DEF Read
<1>. QED BY <1>1, <1>2, <1>3

LEMMA WriteReports ==
  ASSUME IInv, NEW address \in Addresses, NEW size \in {1, 2, 4}, NEW value \in ValuesOf(size),
         Write(address, size, value)
  PROVE  /\ access'.kind = "write" /\ access'.address = address /\ access'.size = size
         /\ memoryMonitors' = memoryMonitors
         /\ address + size <= MemSize => memory' = Stored(address, size, value)
         /\ \A m \in ToSet(memoryMonitors) :
              m.ID \in access'.reported <=> WriteReported(m, address, size, value)
<1>1. PICK told : /\ told = {m \in ToSet(memoryMonitors) : WriteReported(m, address, size, value)}
                  /\ Access("write", address, size, told)
  BY DEF Write
<1>2. /\ access' = [kind |-> "write", address |-> address, size |-> size,
                    reported |-> {m.ID : m \in told}]
      /\ \A m \in ToSet(memoryMonitors) : m.ID \in access'.reported <=> m \in told
      /\ memoryMonitors' = memoryMonitors
  BY <1>1, Reporting
<1>3. address + size <= MemSize => memory' = Stored(address, size, value)
  <2>1. address \in Int /\ size \in Int /\ MemSize \in Int
    BY MonitorAssumption DEF MonitorAssumption, Addresses
  <2>. QED BY <2>1 DEF Write
<1>. QED BY <1>1, <1>2, <1>3
-----------------------------------------------------------------------------
(* SimControl.cpp, sys.cpp: for every memory and every offer of monitors,  *)
(* an access in a run reports a modify monitor just when it changes one of *)
(* its bytes.                                                              *)
THEOREM ModifyReportsChanges == Spec => ModifyExact
<1>1. IInv /\ [Next]_vars =>
        [\A m \in ToSet(memoryMonitors) : m.mode = "ON_MODIFY" /\ phase # "prompt" /\ InRange' =>
           (m.ID \in access'.reported <=> Region(m)' # Region(m))]_vars
  <2>. SUFFICES ASSUME IInv, Next, NEW m \in ToSet(memoryMonitors), m.mode = "ON_MODIFY",
                       phase # "prompt", InRange'
                PROVE  m.ID \in access'.reported <=> Region(m)' # Region(m)
    OBVIOUS
  <2>1. m \in Monitors
    BY Listed DEF IInv
  <2>2. CASE ~ Accesses
    <3>1. access'.reported = {} /\ memory' = memory
      BY <2>2, OtherSteps DEF NoAccess
    <3>2. Region(m)' = Region(m)
      BY <3>1 DEF Region
    <3>. QED BY <3>1, <3>2
  <2>3. CASE Accesses
    <3>1. PICK address \in Addresses, size \in {1, 2, 4} :
            Read(address, size) \/ \E value \in ValuesOf(size) : Write(address, size, value)
      BY <2>3, AccessIs
    <3>2. CASE Read(address, size)
      <4>1. m.ID \notin access'.reported /\ memory' = memory
        BY <3>2, ReadReports DEF ReadReported
      <4>2. Region(m)' = Region(m)
        BY <4>1 DEF Region
      <4>. QED BY <4>1, <4>2
    <3>3. ASSUME NEW value \in ValuesOf(size), Write(address, size, value)
          PROVE  m.ID \in access'.reported <=> Region(m)' # Region(m)
      <4>1. /\ access'.address = address /\ access'.size = size
            /\ address + size <= MemSize => memory' = Stored(address, size, value)
            /\ m.ID \in access'.reported <=> WriteReported(m, address, size, value)
        BY <3>3, WriteReports
      <4>2. memory' = Stored(address, size, value)
        BY <4>1 DEF InRange
      <4>3. /\ Region(m)' # Region(m) <=> MemoryWillChange(m, address, size, value)
            /\ MemoryWillChange(m, address, size, value) => Overlaps(m, address, size)
        BY <2>1, <4>2, ChangeForeseen
      <4>. QED BY <4>1, <4>3 DEF WriteReported
    <3>. QED BY <3>1, <3>2, <3>3
  <2>. QED BY <2>2, <2>3
<1>. QED BY <1>1, IInvInit, IInvNext, PTL DEF Spec, ModifyExact

(* SimControl.cpp: a write that reaches to the end of a become monitor     *)
(* reports it just when it leaves the monitor's value in the memory.       *)
THEOREM BecomeReportsValues == Spec => BecomeCovered
<1>1. IInv /\ [Next]_vars =>
        [access'.kind = "write" /\ InRange' =>
           \A m \in ToSet(memoryMonitors) :
             /\ m.mode = "ON_BECOME" /\ Overlaps(m, access'.address, access'.size)
             /\ m.address + m.size <= access'.address + access'.size
             => (m.ID \in access'.reported <=> Region(m)' = Target(m))]_vars
  <2>. SUFFICES ASSUME IInv, Next, access'.kind = "write", InRange',
                       NEW m \in ToSet(memoryMonitors), m.mode = "ON_BECOME",
                       Overlaps(m, access'.address, access'.size),
                       m.address + m.size <= access'.address + access'.size
                PROVE  m.ID \in access'.reported <=> Region(m)' = Target(m)
    OBVIOUS
  <2>1. m \in Monitors
    BY Listed DEF IInv
  <2>2. Accesses
    BY OtherSteps DEF NoAccess
  <2>3. PICK address \in Addresses, size \in {1, 2, 4} :
          Read(address, size) \/ \E value \in ValuesOf(size) : Write(address, size, value)
    BY <2>2, AccessIs
  <2>4. PICK value \in ValuesOf(size) : Write(address, size, value)
    BY <2>3, ReadReports
  <2>5. /\ access'.address = address /\ access'.size = size
        /\ address + size <= MemSize => memory' = Stored(address, size, value)
        /\ m.ID \in access'.reported <=> WriteReported(m, address, size, value)
    BY <2>4, WriteReports
  <2>6. /\ memory' = Stored(address, size, value) /\ Overlaps(m, address, size)
        /\ m.address + m.size <= address + size
    BY <2>5 DEF InRange
  <2>7. Region(m)' = Target(m) <=> MemoryWillBecome(m, address, value)
    BY <2>1, <2>6, BecomingForeseen
  <2>. QED BY <2>5, <2>6, <2>7 DEF WriteReported
<1>. QED BY <1>1, IInvInit, IInvNext, PTL DEF Spec, BecomeCovered

(* SimControl.cpp: reads and writes report the monitors for them that have *)
(* a byte in common with them, and no others; after a report no iteration  *)
(* of the run begins.                                                      *)
THEOREM AccessesReported == Spec => AccessExact
<1>1. IInv /\ [Next]_vars =>
        [/\ access' # NoAccess =>
              LET modes == {"ON_ACCESS", IF access'.kind = "read" THEN "ON_READ" ELSE "ON_WRITE"}
                  bytes == access'.address .. access'.address + access'.size - 1
              IN  Told(Modes \ {"ON_MODIFY", "ON_BECOME"})' =
                    {m \in ToSet(memoryMonitors) :
                       m.mode \in modes /\ \E a \in bytes : a \in m.address .. m.address + m.size - 1}
         /\ Iterate => ~ hits]_vars
  <2>. DEFINE modes == {"ON_ACCESS", IF access'.kind = "read" THEN "ON_READ" ELSE "ON_WRITE"}
              bytes == access'.address .. access'.address + access'.size - 1
              Meant(m) == m.mode \in modes /\ \E a \in bytes : a \in m.address .. m.address + m.size - 1
  <2>. SUFFICES ASSUME IInv, Next
                PROVE  /\ access' # NoAccess =>
                            Told(Modes \ {"ON_MODIFY", "ON_BECOME"})' =
                              {m \in ToSet(memoryMonitors) : Meant(m)}
                       /\ Iterate => ~ hits
    OBVIOUS
  <2>1. Iterate => ~ hits
    BY DEF Iterate, Goes, IInv
  <2>2. ASSUME access' # NoAccess
        PROVE  Told(Modes \ {"ON_MODIFY", "ON_BECOME"})' = {m \in ToSet(memoryMonitors) : Meant(m)}
    <3>1. PICK address \in Addresses, size \in {1, 2, 4} :
            Read(address, size) \/ \E value \in ValuesOf(size) : Write(address, size, value)
      BY <2>2, OtherSteps, AccessIs
    <3>2. /\ access'.address = address /\ access'.size = size /\ memoryMonitors' = memoryMonitors
          /\ \A m \in ToSet(memoryMonitors) :
               m.ID \in access'.reported /\ m.mode \in Modes \ {"ON_MODIFY", "ON_BECOME"}
                 <=> m.mode \in modes /\ Overlaps(m, address, size)
      <4>1. CASE Read(address, size)
        <5>1. /\ access'.address = address /\ access'.size = size /\ memoryMonitors' = memoryMonitors
              /\ modes = {"ON_ACCESS", "ON_READ"}
              /\ \A m \in ToSet(memoryMonitors) :
                   m.ID \in access'.reported <=> ReadReported(m, address, size)
          BY <4>1, ReadReports
        <5>. HIDE DEF modes
        <5>. QED BY <5>1 DEF ReadReported, Modes
      <4>2. CASE \E value \in ValuesOf(size) : Write(address, size, value)
        <5>1. PICK value \in ValuesOf(size) : Write(address, size, value)
          BY <4>2
        <5>2. /\ access'.address = address /\ access'.size = size /\ memoryMonitors' = memoryMonitors
              /\ modes = {"ON_ACCESS", "ON_WRITE"}
              /\ \A m \in ToSet(memoryMonitors) :
                   m.ID \in access'.reported <=> WriteReported(m, address, size, value)
          BY <5>1, WriteReports
        <5>. HIDE DEF modes
        <5>. QED BY <5>2 DEF WriteReported, Modes
      <4>. QED BY <3>1, <4>1, <4>2
    <3>3. ASSUME NEW m \in ToSet(memoryMonitors)
          PROVE  Overlaps(m, address, size) <=> \E a \in bytes : a \in m.address .. m.address + m.size - 1
      <4>1. m \in Monitors
        BY Listed DEF IInv
      <4>. QED BY <3>2, <4>1, CommonByte
    <3>4. Told(Modes \ {"ON_MODIFY", "ON_BECOME"})' =
            {m \in ToSet(memoryMonitors) :
               m.ID \in access'.reported /\ m.mode \in Modes \ {"ON_MODIFY", "ON_BECOME"}}
      BY <3>2 DEF Told, ToSet
    <3>. HIDE DEF modes, bytes
    <3>. QED BY <3>2, <3>3, <3>4
  <2>. QED BY <2>1, <2>2
<1>. QED BY <1>1, IInvInit, IInvNext, PTL DEF Spec, AccessExact
-----------------------------------------------------------------------------
(* The register monitors.  What they share with the memory monitors is the *)
(* flag that stops a run; the two kinds are stated apart.                  *)

(* A monitor in the list, with the copy of its register. *)
Watches == [ID : 0 .. MaxID, registerNum : Registers, mode : {"ON_MODIFY", "ON_BECOME"},
            value : Words, lastValue : Words \cup {Unset}]

(* What a run compares the register with next. *)
CopyOf(m) == IF fresh THEN Saved(m, x86) ELSE Content(m.registerNum, x86)

(* IDs ascend, the flag that lets a run skip the list is down only when it *)
(* is empty, a copy in a run is of its register, but for CX before the     *)
(* first instruction; and no command finds the stop flag set.              *)
RInv ==
  /\ x86 \in Contents
  /\ registerMonitors \in Seq(Watches) /\ Ascends(registerMonitors)
  /\ registerMonitorsActive = (registerMonitors # <<>>)
  /\ stopFlag \in BOOLEAN /\ fresh \in BOOLEAN
  /\ stage \in {"prompt", "run"}
  /\ reported \subseteq 0 .. MaxID
  /\ stopFlag => stage = "run"
  /\ stage = "run" => \A i \in DOMAIN registerMonitors :
       registerMonitors[i].lastValue = CopyOf(registerMonitors[i])

(* The fields of a register monitor have their types. *)
LEMMA WatchFields ==
  ASSUME NEW m \in Watches
  PROVE  /\ m.ID \in 0 .. MaxID /\ m.ID \in Int
         /\ m.registerNum \in {"CL", "CX", "CS"} /\ m.mode \in {"ON_MODIFY", "ON_BECOME"}
         /\ m.value \in Words /\ m.lastValue \in Words \cup {Unset}
BY DEF Watches, Registers

LEMMA WatchListed ==
  ASSUME NEW s \in Seq(Watches)
  PROVE  /\ Len(s) \in Nat /\ DOMAIN s = 1 .. Len(s)
         /\ \A k \in 1 .. Len(s) : s[k] \in Watches /\ s[k].ID \in Int
         /\ ToSet(s) = {s[k] : k \in 1 .. Len(s)}
BY WatchFields DEF ToSet

(* A nonempty set of numbers has a least one. *)
LEMMA LowestExists ==
  ASSUME NEW S, S \subseteq Nat, S # {}
  PROVE  \E m \in S : \A n \in S : m <= n
<1>1. PICK m \in S : \A n \in S : ~ (<<n, m>> \in OpToRel(<, Nat))
  BY WFMin, NatLessThanWellFounded
<1>2. ASSUME NEW n \in S, n < m
      PROVE  FALSE
  <2>1. <<n, m>> \in {ss \in Nat \X Nat : ss[1] < ss[2]}
    BY <1>2
  <2>. QED BY <1>1, <2>1 DEF OpToRel
<1>. QED BY <1>2

(* The contents of registers are words. *)
LEMMA ContentIsWord ==
  ASSUME NEW r \in {"CL", "CX", "CS"}, NEW c \in Contents
  PROVE  Content(r, c) \in Words
<1>1. MaxByte + 1 \in Nat \ {0} /\ (MaxByte + 1) * (MaxByte + 1) \in Nat
  BY RegisterAssumption DEF RegisterAssumption
<1>2. c.cx \in Words /\ c.cs \in Words
  BY DEF Contents
<1>3. c.cx % (MaxByte + 1) \in Words
  <2>1. PICK x \in Nat : x = c.cx
    BY <1>2 DEF Words
  <2>2. x % (MaxByte + 1) \in 0 .. MaxByte
    BY RegisterAssumption DEF RegisterAssumption
  <2>3. MaxByte <= (MaxByte + 1) * (MaxByte + 1) - 1
    BY RegisterAssumption, <1>1 DEF RegisterAssumption
  <2>. QED BY <1>1, <2>1, <2>2, <2>3 DEF Words
<1>. QED BY <1>2, <1>3 DEF Content

(* The low byte of a word can be replaced. *)
LEMMA LowByte ==
  ASSUME NEW x \in Words, NEW v \in Words
  PROVE  x - (x % (MaxByte + 1)) + (v % (MaxByte + 1)) \in Words
<1>1. PICK b \in Nat \ {0} : b = MaxByte + 1
  BY RegisterAssumption DEF RegisterAssumption
<1>2. x \in 0 .. b * b - 1 /\ v \in 0 .. b * b - 1
  BY <1>1 DEF Words
<1>3. PICK q \in Nat, r \in 0 .. b - 1 : x = b * q + r /\ r = x % b
  <2>1. x \div b \in Nat /\ x % b \in 0 .. b - 1 /\ x = (b * (x \div b)) + (x % b)
    BY <1>2
  <2>. QED BY <2>1
<1>4. q <= b - 1
  <2>. SUFFICES ASSUME q >= b PROVE FALSE
    BY <1>3
  <2>1. b * q >= b * b
    OBVIOUS
  <2>2. b * q \in Nat /\ b * b \in Nat
    OBVIOUS
  <2>. QED BY <1>2, <1>3, <2>1, <2>2
<1>5. b * q <= b * (b - 1) /\ b * (b - 1) = b * b - b
  BY <1>4
<1>6. PICK w \in 0 .. b - 1 : w = v % b
  BY <1>2
<1>7. b * q \in Nat /\ b * b \in Nat /\ b * (b - 1) \in Int
  OBVIOUS
<1>8. x - r = b * q
  BY <1>3, <1>7
<1>9. (x - r) + w \in 0 .. b * b - 1
  <2> DEFINE p == b * q  t == b * b
  <2>1. p \in Nat /\ t \in Nat /\ p <= t - b
    BY <1>5, <1>7
  <2>2. x - r = p
    BY <1>8
  <2> HIDE DEF p, t
  <2>3. p + w \in 0 .. t - 1
    BY <2>1
  <2>. QED BY <2>2, <2>3 DEF p, t
<1>. QED BY <1>1, <1>3, <1>6, <1>9 DEF Words

(* A copy of the list with new copies of the registers is in order. *)
LEMMA Copying ==
  ASSUME RInv, NEW r, r = [i \in DOMAIN registerMonitors |-> r[i]],
         \A i \in DOMAIN registerMonitors :
           \E v \in Words : r[i] = [registerMonitors[i] EXCEPT !.lastValue = v]
  PROVE  r \in Seq(Watches) /\ Ascends(r) /\ (r = <<>> <=> registerMonitors = <<>>)
<1>1. ASSUME NEW i \in DOMAIN registerMonitors
      PROVE  r[i] \in Watches /\ r[i].ID = registerMonitors[i].ID
  <2>1. registerMonitors[i] \in Watches
    BY WatchListed DEF RInv
  <2>. QED BY <2>1 DEF Watches
<1>2. PICK n \in Nat : n = Len(registerMonitors) /\ DOMAIN registerMonitors = 1 .. n
  BY WatchListed DEF RInv
<1>3. DOMAIN r = 1 .. n /\ r = [i \in 1 .. n |-> r[i]]
  BY <1>2
<1>4. r \in Seq(Watches) /\ Len(r) = n
  BY <1>1, <1>2, <1>3, WatchListed DEF RInv
<1>5. Ascends(r)
  BY <1>1, <1>3 DEF Ascends, RInv
<1>6. r = <<>> <=> n = 0
  BY <1>4
<1>7. registerMonitors = <<>> <=> n = 0
  BY <1>3, WatchListed DEF RInv
<1>. QED BY <1>4, <1>5, <1>6, <1>7

(* What ClearRegMonitor leaves is a list in order (SimControl.cpp). *)
LEMMA RegisterRemoval ==
  ASSUME NEW s \in Seq(Watches), Ascends(s), NEW id \in Int
  PROVE  LET r == RemoveFirstMatch(s, LAMBDA m : m.ID = id)
         IN  r \in Seq(Watches) /\ Ascends(r)
<1> DEFINE r == RemoveFirstMatch(s, LAMBDA m : m.ID = id)
           I == {i \in 1 .. Len(s) : s[i].ID = id}
<1>1. CASE I = {}
  <2>1. r = s
    BY <1>1 DEF RemoveFirstMatch
  <2>. QED BY <2>1
<1>2. CASE I # {}
  <2>1. PICK k \in 1 .. Len(s) : s[k].ID = id
    BY <1>2
  <2>2. I = {k}
    BY <2>1, WatchListed DEF Ascends
  <2>3. Min(I) = k
    BY <2>2 DEF Min
  <2>4. SelectInSeq(s, LAMBDA m : m.ID = id) = k
    BY <2>3, <1>2, Zenon DEF SelectInSeq
  <2>5. r = SubSeq(s, 1, k - 1) \o SubSeq(s, k + 1, Len(s))
    BY <2>4, <2>1 DEF RemoveFirstMatch, RemoveAt
  <2>. QED BY <2>5, <2>1, WatchFields, CutAscends
<1>. QED BY <1>1, <1>2

LEMMA RInvInit == RegisterInit => RInv
<1>. SUFFICES ASSUME RegisterInit PROVE RInv
  OBVIOUS
<1>1. 0 \in Words /\ 1 \in Words
  <2>1. PICK b \in Nat : b = MaxByte + 1 /\ b >= 2
    BY RegisterAssumption DEF RegisterAssumption
  <2>2. b * b >= 2 * b
    BY <2>1
  <2>. QED BY <2>1, <2>2 DEF Words
<1>2. x86 \in Contents
  BY <1>1 DEF RegisterInit, Contents
<1>3. registerMonitors \in Seq(Watches) /\ Ascends(registerMonitors)
  BY DEF RegisterInit, Ascends
<1>. QED BY <1>2, <1>3 DEF RegisterInit, RInv

(* A step at the prompt leaves the flag down, and no copies matter then. *)
LEMMA PromptKeepsRInv ==
  ASSUME RInv, AtPrompt, x86' \in Contents,
         registerMonitors' \in Seq(Watches), Ascends(registerMonitors'),
         registerMonitorsActive' = (registerMonitors' # <<>>)
  PROVE  RInv'
<1>1. stage' = "prompt" /\ stopFlag' = stopFlag /\ fresh' = fresh /\ reported' = {}
  BY DEF AtPrompt
<1>2. ~ stopFlag
  BY DEF RInv, AtPrompt
<1>3. Ascends(registerMonitors)'
  BY DEF Ascends
<1>. QED BY <1>1, <1>2, <1>3 DEF RInv

LEMMA RInvNext == RInv /\ [RegisterNext]_registerVars => RInv'
<1>. SUFFICES ASSUME RInv, [RegisterNext]_registerVars PROVE RInv'
  OBVIOUS
<1>0. /\ Len(registerMonitors) \in Nat /\ DOMAIN registerMonitors = 1 .. Len(registerMonitors)
      /\ \A k \in 1 .. Len(registerMonitors) : registerMonitors[k] \in Watches
      /\ x86 \in Contents
  BY WatchListed DEF RInv
<1>1. ASSUME NEW c \in OfferedRegisters, SetRegMonitor(c) PROVE RInv'
  <2> DEFINE m == [ID |-> NextID(registerMonitors), registerNum |-> c.registerNum, mode |-> c.mode,
                   value |-> c.value, lastValue |-> Unset]
  <2>1. NextID(registerMonitors) \in 0 .. MaxID
    <3>1. CASE registerMonitors = <<>>
      BY RegisterAssumption, <3>1 DEF NextID, RegisterAssumption
    <3>2. CASE registerMonitors # <<>>
      <4>1. registerMonitors[Len(registerMonitors)] \in Watches
        BY <3>2, <1>0 DEF RInv
      <4>2. registerMonitors[Len(registerMonitors)].ID \in 0 .. MaxID /\ MaxID \in Int
        BY RegisterAssumption, <4>1, WatchFields DEF RegisterAssumption
      <4>3. /\ NextID(registerMonitors) = registerMonitors[Len(registerMonitors)].ID + 1
            /\ NextID(registerMonitors) <= MaxID
        BY <3>2, <1>1 DEF NextID, Last, SetRegMonitor
      <4>. QED BY <4>2, <4>3
    <3>. QED BY <3>1, <3>2
  <2>2. m \in Watches
    BY RegisterAssumption, <2>1 DEF Watches, RegisterAssumption
  <2>3. m.ID = IF registerMonitors = <<>> THEN 0
               ELSE registerMonitors[Len(registerMonitors)].ID + 1
    BY DEF NextID, Last
  <2>4. /\ registerMonitors' = Append(registerMonitors, m) /\ registerMonitorsActive' = TRUE
        /\ AtPrompt /\ x86' = x86
    BY <1>1 DEF SetRegMonitor
  <2>. HIDE DEF m
  <2>5. registerMonitors' \in Seq(Watches) /\ Ascends(registerMonitors')
    BY <2>2, <2>3, <2>4, WatchFields, Appending DEF RInv
  <2>6. registerMonitors' # <<>>
    BY <2>2, <2>4 DEF RInv
  <2>. QED BY <1>0, <2>4, <2>5, <2>6, PromptKeepsRInv
<1>2. ASSUME NEW id \in 0 .. MaxID, ClearRegMonitor(id) PROVE RInv'
  <2>1. /\ registerMonitors' = RemoveFirstMatch(registerMonitors, LAMBDA m : m.ID = id)
        /\ registerMonitorsActive' = (registerMonitorsActive /\ registerMonitors' # <<>>)
        /\ AtPrompt /\ x86' = x86
    BY <1>2, Zenon DEF ClearRegMonitor
  <2>2. registerMonitors' \in Seq(Watches) /\ Ascends(registerMonitors')
    BY <2>1, id \in Int, RegisterRemoval DEF RInv
  <2>3. registerMonitors = <<>> => registerMonitors' = <<>>
    <3>. SUFFICES ASSUME registerMonitors = <<>>
                  PROVE  RemoveFirstMatch(registerMonitors, LAMBDA m : m.ID = id) = <<>>
      BY <2>1
    <3>1. {i \in 1 .. Len(registerMonitors) : registerMonitors[i].ID = id} = {}
      OBVIOUS
    <3>. QED BY <3>1 DEF RemoveFirstMatch
  <2>4. registerMonitorsActive' = (registerMonitors' # <<>>)
    BY <2>1, <2>3 DEF RInv
  <2>. QED BY <1>0, <2>1, <2>2, <2>4, PromptKeepsRInv
<1>3. ASSUME ClearRegMonitors PROVE RInv'
  <2>1. /\ registerMonitors' = <<>> /\ registerMonitorsActive' = FALSE
        /\ AtPrompt /\ x86' = x86
    BY <1>3 DEF ClearRegMonitors
  <2>2. registerMonitors' \in Seq(Watches) /\ Ascends(registerMonitors')
    BY <2>1 DEF Ascends
  <2>. QED BY <1>0, <2>1, <2>2, PromptKeepsRInv
<1>4. ASSUME NEW registerNum \in Registers, NEW value \in Words,
             Poke(registerNum, value)
      PROVE  RInv'
  <2>1. AtPrompt /\ UNCHANGED <<registerMonitors, registerMonitorsActive>>
    BY <1>4 DEF Poke
  <2>2. CASE registerNum = "CL"
    <3>1. x86' = [x86 EXCEPT !.cx = x86.cx - (x86.cx % (MaxByte + 1)) + (value % (MaxByte + 1))]
      BY <1>4, <2>2 DEF Poke
    <3>2. x86.cx \in Words
      BY <1>0 DEF Contents
    <3>3. x86' \in Contents
      BY <1>0, <3>1, <3>2, LowByte DEF Contents
    <3>. QED BY <2>1, <3>3, PromptKeepsRInv DEF RInv
  <2>3. CASE registerNum \in {"CX", "CS"}
    <3>1. x86' = [x86 EXCEPT !.cs = value]
      BY <1>4, <2>3 DEF Poke
    <3>2. x86' \in Contents
      BY <1>0, <3>1 DEF Contents
    <3>. QED BY <2>1, <3>2, PromptKeepsRInv DEF RInv
  <2>. QED BY <2>2, <2>3 DEF Registers
<1>5. ASSUME NEW segment \in Words, LoadProgram(segment) PROVE RInv'
  <2>1. /\ AtPrompt /\ UNCHANGED <<registerMonitors, registerMonitorsActive>>
        /\ x86' = [cx |-> 0, cs |-> segment]
    BY <1>5 DEF LoadProgram
  <2>2. 0 \in Words
    BY RegisterAssumption DEF Words, RegisterAssumption
  <2>3. x86' \in Contents
    BY <2>1, <2>2 DEF Contents
  <2>. QED BY <2>1, <2>3, PromptKeepsRInv DEF RInv
<1>6. ASSUME StartRun PROVE RInv'
  <2> DEFINE r == [i \in DOMAIN registerMonitors |->
                    [registerMonitors[i] EXCEPT !.lastValue = Saved(registerMonitors[i], x86)]]
  <2>1. /\ registerMonitors' = r /\ stage' = "run" /\ fresh' = TRUE /\ reported' = {}
        /\ UNCHANGED <<x86, registerMonitorsActive, stopFlag>>
    BY <1>6 DEF StartRun, Copied
  <2>2. \A i \in DOMAIN registerMonitors :
          /\ r[i] = [registerMonitors[i] EXCEPT !.lastValue = Saved(registerMonitors[i], x86)]
          /\ Saved(registerMonitors[i], x86) \in Words
    BY <1>0, WatchFields, ContentIsWord DEF Saved
  <2>3. r = [i \in DOMAIN registerMonitors |-> r[i]]
    OBVIOUS
  <2>4. DOMAIN r = DOMAIN registerMonitors
    OBVIOUS
  <2>5. ASSUME NEW i \in DOMAIN registerMonitors
        PROVE  r[i].lastValue = Saved(r[i], x86)
    <3>1. registerMonitors[i] \in Watches
      BY <1>0
    <3>2. r[i].lastValue = Saved(registerMonitors[i], x86)
          /\ r[i].registerNum = registerMonitors[i].registerNum
      BY <2>2, <3>1 DEF Watches
    <3>. QED BY <3>2 DEF Saved
  <2>. HIDE DEF r
  <2>6. r \in Seq(Watches) /\ Ascends(r) /\ (r = <<>> <=> registerMonitors = <<>>)
    BY <2>2, <2>3, Copying
  <2>7. Ascends(registerMonitors)'
    BY <2>1, <2>6 DEF Ascends
  <2>8. \A i \in DOMAIN registerMonitors' :
          registerMonitors'[i].lastValue = CopyOf(registerMonitors[i])'
    BY <2>1, <2>4, <2>5 DEF CopyOf, Saved, Content
  <2>. QED BY <2>1, <2>6, <2>7, <2>8 DEF RInv
<1>7. ASSUME NEW contents \in Contents, RunInstruction(contents) PROVE RInv'
  <2>1. /\ stage = "run" /\ stage' = "run" /\ x86' = contents /\ fresh' = FALSE
        /\ reported' = IF registerMonitorsActive THEN Reported(contents) ELSE {}
        /\ stopFlag' = (reported' # {})
        /\ registerMonitorsActive' = registerMonitorsActive
    BY <1>7 DEF RunInstruction
  <2>2. reported' \subseteq 0 .. MaxID
    BY <2>1, <1>0, WatchFields DEF Reported
  <2>3. /\ registerMonitors' \in Seq(Watches) /\ Ascends(registerMonitors')
        /\ registerMonitors' = <<>> <=> registerMonitors = <<>>
        /\ \A i \in DOMAIN registerMonitors' :
             registerMonitors'[i].lastValue = Content(registerMonitors'[i].registerNum, contents)
    <3>1. CASE ~ registerMonitorsActive
      <4>1. registerMonitors' = registerMonitors /\ registerMonitors = <<>>
        BY <1>7, <3>1 DEF RunInstruction, RInv
      <4>. QED BY <4>1 DEF RInv
    <3>2. CASE registerMonitorsActive
      <4> DEFINE new(m) == Content(m.registerNum, contents)
                 r == [i \in DOMAIN registerMonitors |->
                        [registerMonitors[i] EXCEPT !.lastValue = new(registerMonitors[i])]]
      <4>1. registerMonitors' = r
        BY <1>7, <3>2 DEF RunInstruction, Copied, Checked
      <4>2. \A i \in DOMAIN registerMonitors :
              /\ r[i] = [registerMonitors[i] EXCEPT !.lastValue = new(registerMonitors[i])]
              /\ new(registerMonitors[i]) \in Words
        BY <1>0, WatchFields, ContentIsWord
      <4>3. r = [i \in DOMAIN registerMonitors |-> r[i]] /\ DOMAIN r = DOMAIN registerMonitors
        OBVIOUS
      <4>4. ASSUME NEW i \in DOMAIN registerMonitors
            PROVE  r[i].lastValue = new(r[i])
        <5>1. registerMonitors[i] \in Watches
          BY <1>0
        <5>2. r[i].lastValue = new(registerMonitors[i])
              /\ r[i].registerNum = registerMonitors[i].registerNum
          BY <4>2, <5>1 DEF Watches
        <5>. QED BY <5>2
      <4>. HIDE DEF r
      <4>5. r \in Seq(Watches) /\ Ascends(r) /\ (r = <<>> <=> registerMonitors = <<>>)
        BY <4>2, <4>3, Copying
      <4>. QED BY <4>1, <4>3, <4>4, <4>5
    <3>. QED BY <3>1, <3>2 DEF RInv
  <2>4. Ascends(registerMonitors)'
    BY <2>3 DEF Ascends
  <2>5. \A i \in DOMAIN registerMonitors' :
          registerMonitors'[i].lastValue = CopyOf(registerMonitors[i])'
    BY <2>1, <2>3 DEF CopyOf, Content
  <2>. QED BY <2>1, <2>2, <2>3, <2>4, <2>5 DEF RInv
<1>8. ASSUME EndRun PROVE RInv'
  <2>1. /\ stage' = "prompt" /\ stopFlag' = FALSE /\ reported' = {}
        /\ UNCHANGED <<x86, registerMonitors, registerMonitorsActive, fresh>>
    BY <1>8 DEF EndRun
  <2>2. Ascends(registerMonitors)'
    BY <2>1 DEF Ascends, RInv
  <2>. QED BY <2>1, <2>2 DEF RInv
<1>9. CASE UNCHANGED registerVars
  <2>1. UNCHANGED <<x86, registerMonitors, registerMonitorsActive, stopFlag, stage, fresh, reported>>
    BY <1>9 DEF registerVars
  <2>2. Ascends(registerMonitors)'
    BY <2>1 DEF Ascends, RInv
  <2>3. \A i \in DOMAIN registerMonitors : CopyOf(registerMonitors[i])' = CopyOf(registerMonitors[i])
    BY <2>1 DEF CopyOf, Saved, Content
  <2>. QED BY <2>1, <2>2, <2>3 DEF RInv
<1>. QED BY <1>1, <1>2, <1>3, <1>4, <1>5, <1>6, <1>7, <1>8, <1>9 DEF RegisterNext

(* In a run, the copy an iteration compares with is what the register held *)
(* before it, but for CX in the first one.                                 *)
LEMMA CopyIsContent ==
  ASSUME RInv, stage = "run", NEW i \in DOMAIN registerMonitors,
         ~ Miscopied(registerMonitors[i])
  PROVE  registerMonitors[i].lastValue = Content(registerMonitors[i].registerNum, x86)
<1>1. registerMonitors[i].lastValue = CopyOf(registerMonitors[i])
  BY DEF RInv
<1>2. fresh => registerMonitors[i].registerNum # "CX"
  BY DEF Miscopied
<1>3. CASE fresh
  BY <1>1, <1>2, <1>3 DEF CopyOf, Saved
<1>4. CASE ~ fresh
  BY <1>1, <1>4 DEF CopyOf
<1>. QED BY <1>3, <1>4

(* A step of a run that changes a register is an iteration. *)
LEMMA RunSteps ==
  ASSUME RInv, [RegisterNext]_registerVars,
         (stage = "run" /\ x86' # x86) \/ (stopFlag' /\ ~ stopFlag)
  PROVE  \E contents \in Contents : RunInstruction(contents)
<1>1. \A c \in OfferedRegisters : ~ SetRegMonitor(c)
  BY DEF SetRegMonitor, AtPrompt
<1>2. \A id \in 0 .. MaxID : ~ ClearRegMonitor(id)
  BY DEF ClearRegMonitor, AtPrompt
<1>3. ~ ClearRegMonitors
  BY DEF ClearRegMonitors, AtPrompt
<1>4. \A registerNum \in Registers, value \in Words : ~ Poke(registerNum, value)
  BY DEF Poke, AtPrompt
<1>5. \A segment \in Words : ~ LoadProgram(segment)
  BY DEF LoadProgram, AtPrompt
<1>6. ~ StartRun /\ ~ EndRun
  BY DEF StartRun, EndRun
<1>7. RegisterNext
  BY DEF registerVars
<1>. QED BY <1>1, <1>2, <1>3, <1>4, <1>5, <1>6, <1>7 DEF RegisterNext

(* An iteration reports the monitors from the first that is met on.        *)
LEMMA ReportedFrom ==
  ASSUME RInv, NEW contents \in Contents, RunInstruction(contents)
  PROVE  /\ stage = "run" /\ ~ stopFlag /\ x86' = contents
         /\ stopFlag' = (reported' # {})
         /\ reported' = {registerMonitors[i].ID : i \in {j \in DOMAIN registerMonitors :
                             \E k \in 1 .. j : Met(registerMonitors[k], contents)}}
<1>1. /\ stage = "run" /\ ~ stopFlag /\ x86' = contents
      /\ reported' = IF registerMonitorsActive THEN Reported(contents) ELSE {}
      /\ stopFlag' = (reported' # {})
  BY DEF RunInstruction
<1>2. CASE registerMonitorsActive
  BY <1>1, <1>2 DEF Reported
<1>3. CASE ~ registerMonitorsActive
  <2>1. registerMonitors = <<>>
    BY <1>3 DEF RInv
  <2>2. DOMAIN registerMonitors = {}
    BY <2>1
  <2>. QED BY <1>1, <1>3, <2>2
<1>. QED BY <1>1, <1>2, <1>3

(* The register monitors keep their types and their IDs ascend, so that    *)
(* one ID names one of them (SetRegMonitor of SimControl.cpp).             *)
THEOREM RegisterTypesKept == RegisterSpec => [](RegisterTypeOK /\ Ascends(registerMonitors))
<1>1. RInv => RegisterTypeOK /\ Ascends(registerMonitors)
  <2>. SUFFICES ASSUME RInv PROVE RegisterTypeOK /\ Ascends(registerMonitors)
    OBVIOUS
  <2>1. \A m \in ToSet(registerMonitors) : m.ID \in 0 .. MaxID /\ m.lastValue \in Words \cup {Unset}
    BY WatchListed, WatchFields DEF RInv
  <2>. QED BY <2>1 DEF RInv, RegisterTypeOK
<1>. QED BY <1>1, RInvInit, RInvNext, PTL DEF RegisterSpec

(* Whatever changes a monitored register, or brings it the value waited    *)
(* for, ends the run at that instruction and reports the monitor, though   *)
(* the code compares copies (InitRegisterMonitorContents and               *)
(* CheckRegisterMonitors of SimControl.cpp); CX in the first instruction   *)
(* of a run is the exception.                                              *)
THEOREM RegisterChangesStop == RegisterSpec => ChangeStops
<1>1. RInv /\ [RegisterNext]_registerVars =>
        [\A m \in ToSet(registerMonitors) :
           stage = "run" /\ Reason(m) /\ ~ Miscopied(m)
             => stopFlag' /\ m.ID \in reported']_registerVars
  <2>. SUFFICES ASSUME RInv, [RegisterNext]_registerVars,
                       NEW m \in ToSet(registerMonitors),
                       stage = "run", Reason(m), ~ Miscopied(m)
                PROVE  stopFlag' /\ m.ID \in reported'
    OBVIOUS
  <2>1. PICK i \in DOMAIN registerMonitors : m = registerMonitors[i]
    BY WatchListed DEF RInv
  <2>2. Content(m.registerNum, x86) # Content(m.registerNum, x86')
        /\ (m.mode = "ON_BECOME" => Content(m.registerNum, x86') = m.value)
    BY DEF Reason
  <2>3. x86' # x86
    BY <2>2
  <2>4. PICK contents \in Contents : RunInstruction(contents)
    BY <2>3, RunSteps
  <2>5. x86' = contents
    BY <2>4, ReportedFrom
  <2>6. m.lastValue = Content(m.registerNum, x86)
    BY <2>1, CopyIsContent
  <2>7. m.mode \in {"ON_MODIFY", "ON_BECOME"}
    BY <2>1, WatchListed, WatchFields DEF RInv
  <2>8. Met(m, contents)
    BY <2>2, <2>5, <2>6, <2>7 DEF Met
  <2>9. i \in 1 .. i
    BY WatchListed DEF RInv
  <2>10. m.ID \in reported'
    BY <2>1, <2>4, <2>8, <2>9, ReportedFrom
  <2>11. stopFlag' = (reported' # {})
    BY <2>4, ReportedFrom
  <2>. QED BY <2>10, <2>11
<1>2. RegisterInit => RInv
  BY RInvInit
<1>3. RInv /\ [RegisterNext]_registerVars => RInv'
  BY RInvNext
<1>. QED BY <1>1, <1>2, <1>3, PTL DEF RegisterSpec, ChangeStops

(* No run is stopped for nothing: the first monitor that is reported has a *)
(* reason, CX in the first instruction and the value waited for in CL      *)
(* apart, though a report takes the monitors after it along (breakFlag of  *)
(* CheckRegisterMonitors).                                                 *)
THEOREM RegisterStopsHaveReason == RegisterSpec => StopHasReason
<1>1. RInv /\ [RegisterNext]_registerVars =>
        [stopFlag' =>
           \E m \in ToSet(registerMonitors) :
             /\ m.ID \in reported' /\ \A id \in reported' : m.ID <= id
             /\ \/ Reason(m) \/ Miscopied(m)
                \/ m.registerNum = "CL" /\ m.mode = "ON_BECOME"
                   /\ Content("CL", x86') = m.value]_registerVars
  <2>. SUFFICES ASSUME RInv, RegisterNext, stopFlag'
                PROVE  \E m \in ToSet(registerMonitors) :
                         /\ m.ID \in reported' /\ \A id \in reported' : m.ID <= id
                         /\ \/ Reason(m) \/ Miscopied(m)
                            \/ m.registerNum = "CL" /\ m.mode = "ON_BECOME"
                               /\ Content("CL", x86') = m.value
    OBVIOUS
  <2>1. PICK contents \in Contents : RunInstruction(contents)
    <3>1. CASE ~ stopFlag
      BY <3>1, RunSteps
    <3>2. CASE stopFlag
      <4>1. stage = "run"
        BY <3>2 DEF RInv
      <4>2. \A c \in OfferedRegisters : ~ SetRegMonitor(c)
        BY <4>1 DEF SetRegMonitor, AtPrompt
      <4>3. \A id \in 0 .. MaxID : ~ ClearRegMonitor(id)
        BY <4>1 DEF ClearRegMonitor, AtPrompt
      <4>4. ~ ClearRegMonitors /\ ~ StartRun
        BY <4>1 DEF ClearRegMonitors, AtPrompt, StartRun
      <4>5. \A registerNum \in Registers, value \in Words : ~ Poke(registerNum, value)
        BY <4>1 DEF Poke, AtPrompt
      <4>6. \A segment \in Words : ~ LoadProgram(segment)
        BY <4>1 DEF LoadProgram, AtPrompt
      <4>7. ~ EndRun
        BY DEF EndRun
      <4>. QED BY <4>2, <4>3, <4>4, <4>5, <4>6, <4>7 DEF RegisterNext
    <3>. QED BY <3>1, <3>2
  <2> DEFINE S == {k \in DOMAIN registerMonitors : Met(registerMonitors[k], contents)}
  <2>2. /\ Len(registerMonitors) \in Nat /\ DOMAIN registerMonitors = 1 .. Len(registerMonitors)
        /\ \A k \in 1 .. Len(registerMonitors) :
             registerMonitors[k] \in Watches /\ registerMonitors[k].ID \in Int
        /\ ToSet(registerMonitors) = {registerMonitors[k] : k \in 1 .. Len(registerMonitors)}
    BY WatchListed DEF RInv
  <2>3. /\ stage = "run" /\ x86' = contents /\ reported' # {}
        /\ reported' = {registerMonitors[i].ID : i \in {j \in DOMAIN registerMonitors :
                            \E k \in 1 .. j : Met(registerMonitors[k], contents)}}
    BY <2>1, ReportedFrom
  <2>4. S # {} /\ S \subseteq Nat
    BY <2>2, <2>3
  <2>5. PICK j \in S : \A k \in S : j <= k
    BY <2>4, LowestExists
  <2> DEFINE m == registerMonitors[j]
  <2>6. j \in 1 .. Len(registerMonitors) /\ Met(m, contents) /\ j \in 1 .. j
    BY <2>2, <2>5
  <2>7. m.ID \in reported'
    BY <2>2, <2>3, <2>6
  <2>8. ASSUME NEW id \in reported' PROVE m.ID <= id
    <3>1. PICK i \in DOMAIN registerMonitors :
            /\ id = registerMonitors[i].ID
            /\ \E k \in 1 .. i : Met(registerMonitors[k], contents)
      BY <2>3
    <3>2. PICK k \in 1 .. i : Met(registerMonitors[k], contents)
      BY <3>1
    <3>3. k \in S
      BY <2>2, <3>2
    <3>4. j <= i
      BY <2>2, <2>5, <2>6, <3>3
    <3>5. j < i => m.ID < id
      BY <2>2, <2>6, <3>1 DEF RInv, Ascends
    <3>. QED BY <2>2, <2>6, <3>1, <3>4, <3>5
  <2>9. \/ Reason(m) \/ Miscopied(m)
        \/ m.registerNum = "CL" /\ m.mode = "ON_BECOME" /\ Content("CL", x86') = m.value
    <3>. SUFFICES ASSUME ~ Miscopied(m)
                  PROVE  \/ Reason(m)
                         \/ /\ m.registerNum = "CL" /\ m.mode = "ON_BECOME"
                            /\ Content("CL", x86') = m.value
      OBVIOUS
    <3>1. m.lastValue = Content(m.registerNum, x86)
      BY <2>2, <2>3, <2>6, CopyIsContent
    <3>2. m.mode \in {"ON_MODIFY", "ON_BECOME"}
      BY <2>2, <2>6, WatchFields
    <3>. QED BY <2>3, <2>6, <3>1, <3>2 DEF Met, Reason
  <2>10. m \in ToSet(registerMonitors)
    BY <2>2, <2>6
  <2>. HIDE DEF m
  <2>. QED BY <2>7, <2>8, <2>9, <2>10
<1>2. RegisterInit => RInv
  BY RInvInit
<1>3. RInv /\ [RegisterNext]_registerVars => RInv'
  BY RInvNext
<1>. QED BY <1>1, <1>2, <1>3, PTL DEF RegisterSpec, StopHasReason

=============================================================================
